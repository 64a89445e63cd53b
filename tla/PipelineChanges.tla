-------------------------- MODULE PipelineChanges ---------------------------
(***************************************************************************)
(* What one step of ChangePipeline may do to the stage, the state and the  *)
(* base of a Change, for every value of the constants.  An ordinary step   *)
(* moves Changes that are under way and never authorises or finishes one;  *)
(* the others are the release of a Change, its promote command and the two *)
(* transactions that write DONE.  DONE and ABORTED are final.              *)
(*                                                                         *)
(* Then what a process that failed or was killed leaves behind: who has    *)
(* run.lock, what a fail-stop and an ACTIVE Attempt keep others from       *)
(* doing, and how a Change that is left RUNNING shows.                     *)
(***************************************************************************)
EXTENDS PipelineSafety

\* From record o to record n of a Change in an ordinary step.  Only abort
\* ends a Change, under the gate.
Ordinary(o, n) ==
    /\ n.base = o.base
    /\ \/ n.state = o.state /\ n.stage = o.stage
       \/ /\ o.state \notin {"ABSENT", "DONE", "ABORTED"}
          /\ n.state \notin {"ABSENT", "DONE"}
          /\ n.state = "ABORTED" => gate = "free"
          /\ n.stage \in {o.stage, "MUTATION", "CI", "REVIEW",
                          "AWAIT_PROMOTION"}
OrdinaryStep == \A c \in Changes : Ordinary(change[c], change'[c])

\* The transaction that settles journal j as APPLIED.
Finishes(j) ==
    LET c == owner[journal[j].artifact] IN
    /\ journal' = [journal EXCEPT ![j].state = "APPLIED"]
    /\ change' = [change EXCEPT ![c] = Set(change[c], "PROMOTION", "DONE")]
    /\ change[c].state # "ABORTED"
    /\ change[c].state = "DONE" => change[c].stage = "PROMOTION"

\* Whatever names a Change names one that has been released.
Present(c) == change[c].state # "ABSENT"
Named ==
    /\ \A c \in Changes :
          /\ change[c].base = None => ~Present(c)
          /\ ~Present(c) => /\ change[c].base = None
                            /\ change[c].stage = "MUTATION"
    /\ \A s \in Scheds : step[s].change # None => Present(step[s].change)
    /\ \A k \in Attempts : attempt[k].status = "ACTIVE" =>
          attempt[k].change # None /\ Present(attempt[k].change)
    /\ \A a \in Artifacts : owner[a] # None => Present(owner[a])
    /\ \A j \in Journals : journal[j].state # "NONE" =>
          journal[j].artifact # None /\ owner[journal[j].artifact] # None
\* Nobody works on a Change that is DONE, and the evidence of an ABORTED one
\* is not what a promotion finds changed.
Unfinished ==
    \A s \in Scheds :
        /\ pc[s] \in Executing /\ step[s].change # None =>
              change[step[s].change].state # "DONE"
        /\ pc[s] = "evidence" =>
              change[step[s].change].state # "ABORTED"

-----------------------------------------------------------------------------
(* Records.                                                                *)

\* Set writes stage and state and nothing else.
LEMMA SetFields ==
    ASSUME NEW ch \in ChangeRecord, NEW stage, NEW state
    PROVE  /\ Set(ch, stage, state).stage = stage
           /\ Set(ch, stage, state).state = state
           /\ Set(ch, stage, state).base = ch.base
           /\ Set(ch, stage, state).artifact = ch.artifact
           /\ Set(ch, stage, state).ci = ch.ci
           /\ Set(ch, stage, state).review = ch.review
  BY DEF Set, ChangeRecord
\* Captured replaces the Artifact and drops its evidence.
LEMMA CapturedFields ==
    ASSUME NEW ch \in ChangeRecord, NEW a
    PROVE  /\ Captured(ch, a).stage = ch.stage
           /\ Captured(ch, a).state = ch.state
           /\ Captured(ch, a).base = ch.base
           /\ Captured(ch, a).artifact = a
           /\ Captured(ch, a).ci = None
           /\ Captured(ch, a).review = None
  BY DEF Captured, ChangeRecord
\* PrepareAttempt and Complete bind a review.
LEMMA ReviewFields ==
    ASSUME NEW ch \in ChangeRecord, NEW k
    PROVE  LET n == [ch EXCEPT !.review = k] IN
           /\ n.stage = ch.stage /\ n.state = ch.state /\ n.base = ch.base
           /\ n.artifact = ch.artifact /\ n.ci = ch.ci /\ n.review = k
  BY DEF ChangeRecord
\* PrepareCI binds a run.
LEMMA PreparedFields ==
    ASSUME NEW ch \in ChangeRecord, NEW r
    PROVE  LET n == [ch EXCEPT !.ci = r, !.review = None] IN
           /\ n.stage = ch.stage /\ n.state = ch.state /\ n.base = ch.base
           /\ n.artifact = ch.artifact /\ n.ci = r /\ n.review = None
  BY DEF ChangeRecord
\* resume starts a new timeout epoch.
LEMMA ResetFields ==
    ASSUME NEW ch \in ChangeRecord, NEW runs
    PROVE  LET n == [ch EXCEPT !.resetAt = runs] IN
           /\ n.stage = ch.stage /\ n.state = ch.state /\ n.base = ch.base
           /\ n.artifact = ch.artifact /\ n.ci = ch.ci
           /\ n.review = ch.review
  BY DEF ChangeRecord
\* So do retry and rework, which also drop the review.
LEMMA RetryFields ==
    ASSUME NEW ch \in ChangeRecord, NEW r, NEW runs
    PROVE  LET n == [ch EXCEPT !.ci = r, !.review = None,
                               !.resetAt = runs] IN
           /\ n.stage = ch.stage /\ n.state = ch.state /\ n.base = ch.base
           /\ n.artifact = ch.artifact /\ n.ci = r /\ n.review = None
  BY DEF ChangeRecord
\* A transition of the state alone.
LEMMA StateFields ==
    ASSUME NEW ch \in ChangeRecord, NEW state
    PROVE  LET n == [ch EXCEPT !.state = state] IN
           /\ n.stage = ch.stage /\ n.state = state /\ n.base = ch.base
           /\ n.artifact = ch.artifact /\ n.ci = ch.ci
           /\ n.review = ch.review
  BY DEF ChangeRecord
\* Next marks the Change it selects.
LEMMA StartedFields ==
    ASSUME NEW ch \in ChangeRecord
    PROVE  LET n == [ch EXCEPT !.state = "RUNNING", !.started = TRUE] IN
           /\ n.stage = ch.stage /\ n.state = "RUNNING" /\ n.base = ch.base
           /\ n.artifact = ch.artifact /\ n.ci = ch.ci
           /\ n.review = ch.review
  BY DEF ChangeRecord
\* ReleaseOption gives a Change its base.
LEMMA BaseFields ==
    ASSUME NEW ch \in ChangeRecord, NEW sh
    PROVE  LET n == [ch EXCEPT !.base = sh] IN
           /\ n.stage = ch.stage /\ n.state = ch.state /\ n.base = sh
           /\ n.artifact = ch.artifact /\ n.ci = ch.ci
           /\ n.review = ch.review
  BY DEF ChangeRecord

\* The table of Changes is a function, and every name in it has a record.
LEMMA ChangeTable ==
    ASSUME Typed
    PROVE  /\ change \in [Changes -> ChangeRecord]
           /\ \A c \in Changes : change[c] \in ChangeRecord
  BY DEF Typed, TypeOK, DocumentOK

-----------------------------------------------------------------------------
(* Ordinary steps.                                                         *)

\* A step that leaves the Changes alone is ordinary.
LEMMA UnchangedOrdinary == UNCHANGED change => OrdinaryStep
  BY DEF OrdinaryStep, Ordinary
\* A step that moves one Change.
LEMMA UpdateOrdinary ==
    ASSUME Typed, NEW c, NEW ch, change' = [change EXCEPT ![c] = ch],
           c \in Changes => Ordinary(change[c], ch)
    PROVE  OrdinaryStep
  <1>1. ASSUME NEW d \in Changes PROVE Ordinary(change[d], change'[d])
    <2>1. CASE d = c
      BY <2>1, ChangeTable
    <2>2. CASE d # c
      BY <2>2, ChangeTable DEF Ordinary
    <2> QED BY <2>1, <2>2
  <1> QED BY <1>1 DEF OrdinaryStep
\* Set on a Change that is under way.
LEMMA SetOrdinary ==
    ASSUME NEW o, NEW ch \in ChangeRecord, NEW stage, NEW state,
           Ordinary(o, ch), ch.state \notin {"ABSENT", "DONE", "ABORTED"},
           state \notin {"ABSENT", "DONE", "ABORTED"},
           stage \in {ch.stage, "MUTATION", "CI", "REVIEW",
                      "AWAIT_PROMOTION"}
    PROVE  Ordinary(o, Set(ch, stage, state))
  BY SetFields DEF Ordinary
\* Pausing every Change.
LEMMA PausedAllOrdinary ==
    ASSUME Typed, change' = PausedAll
    PROVE  OrdinaryStep
  <1>1. ASSUME NEW c \in Changes PROVE Ordinary(change[c], change'[c])
    <2>1. \/ change'[c] = change[c]
          \/ /\ change[c].state # "ABSENT" /\ ~Terminal(c)
             /\ change'[c] = Set(change[c], change[c].stage, "PAUSED")
      BY DEF PausedAll
    <2> QED BY <2>1, ChangeTable, SetFields DEF Ordinary, Terminal
  <1> QED BY <1>1 DEF OrdinaryStep
\* release after other writes.
LEMMA ReleasedOrdinary ==
    ASSUME NEW chs \in [Changes -> ChangeRecord],
           \A c \in Changes : Ordinary(change[c], chs[c])
    PROVE  \A c \in Changes : Ordinary(change[c], Released(chs)[c])
  <1>1. ASSUME NEW c \in Changes
        PROVE  \/ Released(chs)[c] = chs[c]
               \/ /\ chs[c].state = "RUNNING"
                  /\ Released(chs)[c] = [chs[c] EXCEPT !.state = "QUEUED"]
    BY DEF Released
  <1>2. ASSUME NEW c \in Changes, chs[c].state = "RUNNING"
        PROVE  Ordinary(change[c], [chs[c] EXCEPT !.state = "QUEUED"])
    BY <1>2, StateFields DEF Ordinary
  <1> QED BY <1>1, <1>2
\* release and Release after other writes.
LEMMA ReleaseOrdinary ==
    ASSUME NEW chs \in [Changes -> ChangeRecord], NEW who,
           \A c \in Changes : Ordinary(change[c], chs[c]),
           release(chs) \/ Release(chs, who)
    PROVE  OrdinaryStep
  BY ReleasedOrdinary DEF OrdinaryStep, release, Release
\* release and Release alone.
LEMMA OnlyReleaseOrdinary ==
    ASSUME Typed, NEW who, release(change) \/ Release(change, who)
    PROVE  OrdinaryStep
  <1>1. \A c \in Changes : Ordinary(change[c], change[c])
    BY DEF Ordinary
  <1> QED BY <1>1, ChangeTable, ReleaseOrdinary

-----------------------------------------------------------------------------
(* Ordinary steps, by who takes them.                                      *)

\* Commands.
LEMMA OperatorSteps ==
    ASSUME Typed, Operator
    PROVE  \/ OrdinaryStep
           \/ \E c \in Changes : ReleaseOption(c) \/ ChangePromote(c)
  <1>3. ASSUME NEW c \in Changes, ChangeResume(c) PROVE OrdinaryStep
    <2> DEFINE ch == Set(change[c], change[c].stage, "QUEUED")
               n == [ch EXCEPT !.resetAt = RunsOf(c)]
    <2>1. ch \in ChangeRecord
      BY ChangeTable, KeepStage DEF States
    <2>2. Ordinary(change[c], ch)
      BY <1>3, ChangeTable, SetFields
      DEF ChangeResume, Actionable, Terminal, Ordinary
    <2>3. Ordinary(change[c], n)
      <3> HIDE DEF ch
      <3> QED BY <2>1, <2>2, ResetFields DEF Ordinary
    <2>4. change' = [change EXCEPT ![c] = n]
      BY <1>3 DEF ChangeResume
    <2> HIDE DEF n
    <2> QED BY <2>3, <2>4, UpdateOrdinary
  <1>4. ASSUME NEW c \in Changes, NEW stage \in {"CI", "REVIEW", "MUTATION"},
               ChangeRetry(c, stage)
        PROVE  OrdinaryStep
    <2> DEFINE ch == Set(change[c], stage, "QUEUED")
               r == IF stage = "REVIEW" THEN latestCI[change[c].artifact]
                                        ELSE change[c].ci
               n == [ch EXCEPT !.ci = r, !.review = None,
                               !.resetAt = RunsOf(c)]
    <2>1. ch \in ChangeRecord
      BY ChangeTable, SetType DEF Stages, States
    <2>2. Ordinary(change[c], ch)
      BY <1>4, ChangeTable, SetFields
      DEF ChangeRetry, Actionable, Terminal, Ordinary
    <2>3. Ordinary(change[c], n)
      <3> HIDE DEF ch, r
      <3> QED BY <2>1, <2>2, RetryFields DEF Ordinary
    <2>4. change' = [change EXCEPT ![c] = n]
      BY <1>4 DEF ChangeRetry
    <2> HIDE DEF n
    <2> QED BY <2>3, <2>4, UpdateOrdinary
  <1>5. ASSUME NEW c \in Changes, NEW state \in {"PAUSED", "ABORTED"},
               ChangePause(c, state)
        PROVE  OrdinaryStep
    <2> DEFINE ch == Set(change[c], change[c].stage, state)
    <2>1. Ordinary(change[c], ch)
      BY <1>5, ChangeTable, SetFields
      DEF ChangePause, GateFree, Terminal, Ordinary
    <2>2. change' = [change EXCEPT ![c] = ch]
      BY <1>5 DEF ChangePause
    <2> HIDE DEF ch
    <2> QED BY <2>1, <2>2, UpdateOrdinary
  <1>6. ASSUME NEW op, requestCancellation(op) PROVE OrdinaryStep
    BY <1>6, PausedAllOrdinary DEF requestCancellation
  <1>7. CASE \/ \E a \in Artifacts, r \in CIRuns : QueueCI(a, r)
             \/ \E k \in Attempts : Interrupt(k)
             \/ \E b \in Scopes : ResolveBlocker(b)
             \/ ResumeTask \/ ControlGivesUp \/ CommandFails
             \/ \E new \in Commits : ExternalMove(new)
             \/ \E s \in Scheds : Interrupted(s)
             \/ RecoverStart
    <2>1. UNCHANGED change
      BY <1>7 DEF QueueCI, Interrupt, ResolveBlocker, ResumeTask,
         ControlGivesUp, CommandFails, ExternalMove, Interrupted,
         RecoverStart, document
    <2> QED BY <2>1, UnchangedOrdinary
  <1> QED BY <1>3, <1>4, <1>5, <1>6, <1>7 DEF Operator

\* Commands that waited.
LEMMA ControlSteps ==
    ASSUME Typed, Control
    PROVE  OrdinaryStep
  <1>1. CASE finishResume
    <2>1. ASSUME NEW c \in Changes PROVE Ordinary(change[c], change'[c])
      <3>1. \/ change'[c] = change[c]
            \/ /\ change[c].state # "ABSENT" /\ ~Terminal(c)
               /\ change'[c] = Set(change[c], change[c].stage, "STALE")
        BY <1>1 DEF finishResume
      <3> QED BY <3>1, ChangeTable, SetFields DEF Ordinary, Terminal
    <2> QED BY <2>1 DEF OrdinaryStep
  <1>2. CASE ChangeSettled \/ CancellationSettles \/ finishLifecycle \/ LifecycleRefused
    <2>1. UNCHANGED change \/ change' = PausedAll
      BY <1>2 DEF ChangeSettled, CancellationSettles, finishLifecycle, LifecycleRefused, document
    <2> QED BY <2>1, UnchangedOrdinary, PausedAllOrdinary
  <1> QED BY <1>1, <1>2 DEF Control

\* Steps of an activity that leave the Changes alone.
LEMMA QuietSteps ==
    ASSUME NEW s \in Scheds,
           \/ ResolveRef(s) \/ ResolveRefFails(s) \/ Refused(s)
           \/ Materialize(s) \/ StorageFails(s) \/ OpenLogs(s)
           \/ MarkCIRunning(s) \/ PromoteBusy(s) \/ PromoteStart(s)
           \/ Construct(s) \/ ConstructFails(s)
           \/ \E j \in Journals : PreparePromotion(s, j)
           \/ PreparePromotionFails(s)
           \/ CAS(s) \/ CASFails(s) \/ CASRejected(s) \/ CASConflict(s)
           \/ CASUnexplained(s)
    PROVE  UNCHANGED change
  BY DEF ResolveRef, ResolveRefFails, Refused, Materialize, StorageFails,
     OpenLogs, MarkCIRunning, PromoteBusy, PromoteStart, Construct,
     ConstructFails, PreparePromotion, PreparePromotionFails, CAS, CASFails,
     CASRejected, CASConflict, CASUnexplained, document

\* Whoever executes an activity of a Change executes it of a released one.
LEMMA StepChange ==
    ASSUME Typed, Named, Unfinished, NEW s \in Scheds,
           step[s].change # None \/ pc[s] \in Executing
                                    \ {"ciPrepare", "ciSetup", "ciRun"}
    PROVE  /\ step[s].change \in Changes
           /\ change[step[s].change] \in ChangeRecord
           /\ change[step[s].change].state # "ABSENT"
           /\ pc[s] \in Executing =>
                 change[step[s].change].state # "DONE"
  <1>1. step[s] \in StepRecord
    BY DEF Typed, TypeOK, SchedulersOK
  <1>2. step[s].change \in Changes
    BY <1>1 DEF Typed, Shape, LocalsOK, Local, StepRecord
  <1>3. step[s].change # None
    BY <1>2 DEF Changes, None
  <1> QED BY <1>2, <1>3, ChangeTable DEF Named, Present, Unfinished

\* PrepareAttempt and PrepareCI move no Change.
LEMMA PrepareSteps ==
    ASSUME Typed, NEW s \in Scheds,
           \/ \E k \in Attempts : PrepareAttempt(s, k)
           \/ \E r \in CIRuns : PrepareCI(s, r)
    PROVE  OrdinaryStep
  <1> DEFINE c == step[s].change
  <1>1. ASSUME NEW k \in Attempts, PrepareAttempt(s, k) PROVE OrdinaryStep
    <2>1. \/ change' = change
          \/ change' = [change EXCEPT ![c] =
                           [change[c] EXCEPT !.review = k]]
      BY <1>1 DEF PrepareAttempt
    <2>2. c \in Changes =>
             Ordinary(change[c], [change[c] EXCEPT !.review = k])
      BY ChangeTable, ReviewFields DEF Ordinary
    <2> HIDE DEF c
    <2> QED BY <2>1, <2>2, UpdateOrdinary, UnchangedOrdinary
  <1>2. ASSUME NEW r \in CIRuns, PrepareCI(s, r) PROVE OrdinaryStep
    <2> DEFINE ch == [change[c] EXCEPT !.ci = r, !.review = None]
    <2>1. \/ change' = change
          \/ change' = [change EXCEPT ![c].ci = r, ![c].review = None]
      BY <1>2 DEF PrepareCI
    <2>2. c \in Changes => [change EXCEPT ![c].ci = r, ![c].review = None]
                              = [change EXCEPT ![c] = ch]
      BY ChangeTable
    <2>3. c \in Changes => Ordinary(change[c], ch)
      BY ChangeTable, PreparedFields DEF Ordinary
    <2>4. c \notin Changes =>
             [change EXCEPT ![c].ci = r, ![c].review = None] = change
      BY ChangeTable
    <2> HIDE DEF c, ch
    <2> QED BY <2>1, <2>2, <2>3, <2>4, UpdateOrdinary, UnchangedOrdinary
  <1> QED BY <1>1, <1>2

\* Complete: what a worker returned moves its Change only if it is still
\* under way, and never to PROMOTION.
LEMMA CompleteSteps ==
    ASSUME Typed, Named, Unfinished, NEW s \in Scheds, NEW how \in Endings,
           NEW result \in Verdicts, NEW a \in Artifacts \cup {None},
           Complete(s, how, result, a)
    PROVE  OrdinaryStep
  <1> DEFINE p == step[s]
             k == act[s]
             c == p.change
             stopped == how = "INTERRUPTED" \/ k \in interrupts \/ cancelled
             ch == IF a # None THEN Captured(change[c], a) ELSE change[c]
             paused == stopped \/ ch.state \in {"PAUSED", "ABORTED"}
             rv == [attempt |-> k, ci |-> ch.ci,
                    verdict |-> IF result = "APPROVE" THEN "APPROVE"
                                                      ELSE "REJECT"]
             rch == [ch EXCEPT !.review = k]
             moved ==
                 IF paused
                 THEN IF ch.state = "ABORTED" THEN ch
                      ELSE Set(ch, ch.stage, "PAUSED")
                 ELSE IF how \in Infrastructure THEN ch
                 ELSE IF how # "RETURNED" THEN Set(ch, ch.stage, "BLOCKED")
                 ELSE IF p.op = "mutation"
                 THEN IF a = None \/ result = "DROP_FINAL"
                      THEN Set(ch, "MUTATION", "BLOCKED")
                      ELSE IF result = "PROMOTE_FINAL"
                      THEN Set(ch, "CI", "QUEUED")
                      ELSE Set(ch, "MUTATION", "QUEUED")
                 ELSE IF PromotionEvidence(c, rch, rv)
                 THEN Set(rch, "AWAIT_PROMOTION", "QUEUED")
                 ELSE IF result = "REJECT_WITH_FINDINGS"
                 THEN Set(rch, "MUTATION", "QUEUED")
                 ELSE Set(rch, "REVIEW", "BLOCKED")
  <1>0. pc[s] \in {"context", "working", "starved"}
    BY Zenon DEF Complete
  <1>1. /\ c \in Changes /\ change[c] \in ChangeRecord /\ k \in Attempts
        /\ change[c].state \notin {"ABSENT", "DONE"}
    BY <1>0, StepChange DEF Typed, Shape, LocalsOK, Local, Executing
  <1>2. ch \in ChangeRecord
    BY <1>1, CapturedType
  <1>3. rch \in ChangeRecord
    <2> HIDE DEF ch, k
    <2> QED BY <1>1, <1>2, ReviewType
  <1>4. Ordinary(change[c], ch) /\ ch.state = change[c].state
    BY <1>1, CapturedFields DEF Ordinary
  <1>5. Ordinary(change[c], rch) /\ rch.state = change[c].state
    <2> HIDE DEF ch, k, c
    <2> QED BY <1>2, <1>4, ReviewFields DEF Ordinary
  <1>6. Ordinary(change[c], moved) /\ moved \in ChangeRecord
    <2>1. moved \in ChangeRecord
      <3> HIDE DEF ch, rch, rv, k, p, paused
      <3> QED BY <1>2, <1>3, SetType, KeepStage DEF Stages, States
    <2>2. ~paused => ch.state # "ABORTED"
      OBVIOUS
    <2>3. Ordinary(change[c], moved)
      <3> HIDE DEF ch, rch, rv, k, p, c, paused, PromotionEvidence
      <3> QED BY <1>1, <1>2, <1>3, <1>4, <1>5, <2>2, SetOrdinary
    <2> QED BY <2>1, <2>3
  <1>7. \/ release([change EXCEPT ![c] = moved])
        \/ change' = [change EXCEPT ![c] = moved]
    BY Zenon DEF Complete
  <1> DEFINE chs == [change EXCEPT ![c] = moved]
  <1> HIDE DEF moved, c
  <1>8. chs \in [Changes -> ChangeRecord]
    BY <1>6, ChangeTable, ChangeType
  <1>9. \A d \in Changes : Ordinary(change[d], chs[d])
    BY <1>6, ChangeTable DEF Ordinary
  <1> HIDE DEF chs
  <1>10. release(chs) => OrdinaryStep
    BY <1>8, <1>9, ReleaseOrdinary
  <1>11. change' = chs => OrdinaryStep
    BY <1>9 DEF OrdinaryStep
  <1> QED BY <1>7, <1>10, <1>11 DEF chs

\* FinishCI moves its Change likewise.
LEMMA FinishCISteps ==
    ASSUME Typed, Named, Unfinished, NEW s \in Scheds,
           NEW outcome \in Outcomes, NEW code \in CIErrors,
           FinishCI(s, outcome, code)
    PROVE  OrdinaryStep
  <1> DEFINE c == step[s].change
             ch == change[c]
             moved == IF ch.state = "ABORTED" THEN ch
                      ELSE IF ch.state = "PAUSED" \/ cancelled
                              \/ outcome = "TERMINATED"
                      THEN Set(ch, ch.stage, "PAUSED")
                      ELSE IF TimeoutStreak(c, run') >= 2
                      THEN Set(ch, "CI", "BLOCKED")
                      ELSE Set(ch, "REVIEW", "QUEUED")
  <1>1. \/ change' = change
        \/ c # None /\ change' = [change EXCEPT ![c] = moved]
    BY DEF FinishCI
  <1>2. pc[s] \in Executing
    BY Zenon DEF FinishCI, Executing
  <1>3. c # None => /\ c \in Changes /\ ch \in ChangeRecord
                    /\ ch.state \notin {"ABSENT", "DONE"}
    BY <1>2, StepChange
  <1>4. c # None => Ordinary(ch, ch)
    BY DEF Ordinary
  <1>5. c # None => Ordinary(ch, moved)
    <2> HIDE DEF ch, c
    <2> QED BY <1>3, <1>4, SetOrdinary
  <1> HIDE DEF moved, c
  <1> QED BY <1>1, <1>5, UpdateOrdinary, UnchangedOrdinary

\* The end of a promotion that is not applied.
LEMMA EndPromotionSteps ==
    ASSUME Typed, Named, Unfinished, NEW s \in Scheds,
           EvidenceChanged(s) \/ EndPromotion(s)
    PROVE  OrdinaryStep
  <1> DEFINE c == step[s].change
  <1>1. pc[s] \in {"evidence", "drifted", "conflicted"}
    BY Zenon DEF EvidenceChanged, EndPromotion
  <1>2. /\ c \in Changes /\ change[c] \in ChangeRecord
        /\ change[c].state \notin {"ABSENT", "DONE"}
        /\ pc[s] = "evidence" => change[c].state # "ABORTED"
    BY <1>1, StepChange DEF Executing, Unfinished
  <1>3. Ordinary(change[c], change[c])
    BY DEF Ordinary
  <1>4. CASE EvidenceChanged(s)
    <2> DEFINE ch == Set(change[c], "REVIEW", "BLOCKED")
    <2>1. change' = change \/ change' = [change EXCEPT ![c] = ch]
      BY <1>4 DEF EvidenceChanged
    <2>2. Ordinary(change[c], ch)
      BY <1>2, <1>3, <1>4, SetOrdinary DEF EvidenceChanged
    <2> HIDE DEF ch, c
    <2> QED BY <2>1, <2>2, UpdateOrdinary, UnchangedOrdinary
  <1>5. CASE EndPromotion(s)
    <2> DEFINE ch == Set(change[c], change[c].stage, "STALE")
    <2>1. \/ change' = change
          \/ Immutable(c, ch) /\ change' = [change EXCEPT ![c] = ch]
      BY <1>5, Zenon DEF EndPromotion
    <2>2. Immutable(c, ch) => ~Terminal(c)
      BY <1>2, SetFields DEF Immutable, Terminal
    <2>3. Immutable(c, ch) => Ordinary(change[c], ch)
      BY <1>2, <1>3, <2>2, SetOrdinary DEF Terminal
    <2> HIDE DEF ch, c
    <2> QED BY <2>1, <2>3, UpdateOrdinary, UnchangedOrdinary
  <1> QED BY <1>4, <1>5

\* ApplyPromotion writes DONE, unless the store refuses it.
LEMMA ApplySteps ==
    ASSUME Typed, NEW s \in Scheds, ApplyPromotion(s), Named
    PROVE  OrdinaryStep \/ Finishes(act[s])
  <1> DEFINE j == act[s]
             c == owner[journal[j].artifact]
             ch == Set(change[c], "PROMOTION", "DONE")
  <1>1. \/ change' = change
        \/ /\ journal' = [journal EXCEPT ![j].state = "APPLIED"]
           /\ change' = [change EXCEPT ![c] = ch]
           /\ Immutable(c, ch)
    BY Zenon DEF ApplyPromotion
  <1>2. j \in Journals /\ journal[j].state # "NONE"
    BY Zenon DEF ApplyPromotion, Typed, Shape, LocalsOK, Local
  <1>3. c \in Changes
    <2>1. /\ journal \in [Journals -> JournalRecord]
          /\ owner \in [Artifacts -> Changes \cup {None}]
      BY DEF Typed, TypeOK, DocumentOK
    <2>2. journal[j].artifact # None /\ c # None
      BY <1>2 DEF Named
    <2>3. journal[j].artifact \in Artifacts
      BY <1>2, <2>1, <2>2 DEF JournalRecord
    <2> QED BY <2>1, <2>2, <2>3
  <1>4. Immutable(c, ch) => /\ change[c].state # "ABORTED"
                            /\ change[c].state = "DONE" =>
                                  change[c].stage = "PROMOTION"
    BY <1>3, ChangeTable, SetFields DEF Immutable, Terminal
  <1> HIDE DEF c, ch
  <1>5. CASE change' = change
    BY <1>5, UnchangedOrdinary
  <1> QED BY <1>1, <1>4, <1>5 DEF Finishes, c, ch

\* The end of a step.
LEMMA EndOfStepSteps ==
    ASSUME Typed, Named, Unfinished, NEW s \in Scheds,
           FailedStep(s) \/ PauseOnSignal(s) \/ EndStep(s)
    PROVE  OrdinaryStep
  <1>1. CASE FailedStep(s) \/ EndStep(s)
    <2>1. Release(change, s) \/ UNCHANGED change
      BY <1>1 DEF FailedStep, EndStep, TryRelease, KeepsSlot
    <2> QED BY <2>1, OnlyReleaseOrdinary, UnchangedOrdinary
  <1>2. CASE PauseOnSignal(s)
    <2> DEFINE c == step[s].change
               ch == Set(change[c], change[c].stage, "PAUSED")
    <2>1. \/ UNCHANGED change
          \/ /\ c # None /\ ~Terminal(c)
             /\ change' = [change EXCEPT ![c] = ch]
      BY <1>2 DEF PauseOnSignal, AfterSignal
    <2>2. c # None => /\ c \in Changes /\ change[c] \in ChangeRecord
                      /\ change[c].state # "ABSENT"
      BY StepChange
    <2>3. c # None /\ ~Terminal(c) => Ordinary(change[c], ch)
      BY <2>2, SetFields DEF Ordinary, Terminal
    <2> HIDE DEF c, ch
    <2> QED BY <2>1, <2>3, UpdateOrdinary, UnchangedOrdinary
  <1> QED BY <1>1, <1>2

\* Every step of an activity.
LEMMA ActivitySteps ==
    ASSUME Typed, Named, Unfinished, NEW s \in Scheds, Activity(s)
    PROVE  OrdinaryStep \/ (ApplyPromotion(s) /\ Finishes(act[s]))
  BY QuietSteps, UnchangedOrdinary, PrepareSteps, CompleteSteps,
     FinishCISteps, EndPromotionSteps, ApplySteps, EndOfStepSteps
  DEF Activity

\* Schedulers between two activities, or killed.
LEMMA ScheduleSteps ==
    ASSUME Typed, NEW s \in Scheds,
           SchedStart(s) \/ Crash(s) \/ Schedule(s)
    PROVE  OrdinaryStep
  <1>1. CASE SchedStart(s) \/ Crash(s) \/ NextRequest(s) \/ IdleFails(s)
    <2>1. UNCHANGED change
      BY <1>1 DEF SchedStart, Crash, NextRequest, IdleFails, KeepsSlot,
                  document
    <2> QED BY <2>1, UnchangedOrdinary
  <1>2. CASE SchedStop(s)
    <2>1. Release(change, s) \/ UNCHANGED change
      BY <1>2 DEF SchedStop, KeepsSlot
    <2> QED BY <2>1, OnlyReleaseOrdinary, UnchangedOrdinary
  <1>3. CASE NextChange(s)
    <2>1. ASSUME NEW d \in Changes
          PROVE  \/ change'[d] = change[d]
                 \/ /\ change[d].state = "QUEUED"
                    /\ \/ change'[d] = [change[d] EXCEPT !.state = "RUNNING",
                                                         !.started = TRUE]
                       \/ change'[d] = [change[d] EXCEPT !.state = "STALE"]
                       \/ change'[d] = [change[d] EXCEPT !.state = "BLOCKED"]
      BY <1>3 DEF NextChange
    <2>2. ASSUME NEW d \in Changes PROVE Ordinary(change[d], change'[d])
      <3>1. change[d] \in ChangeRecord
        BY ChangeTable
      <3>2. /\ Ordinary(change[d], change[d])
            /\ change[d].state = "QUEUED" =>
                  /\ Ordinary(change[d], [change[d] EXCEPT
                        !.state = "RUNNING", !.started = TRUE])
                  /\ Ordinary(change[d],
                        [change[d] EXCEPT !.state = "STALE"])
                  /\ Ordinary(change[d],
                        [change[d] EXCEPT !.state = "BLOCKED"])
        BY <3>1, StartedFields, StateFields DEF Ordinary
      <3> QED BY <2>1, <3>2
    <2> QED BY <2>2 DEF OrdinaryStep
  <1> QED BY <1>1, <1>2, <1>3 DEF Schedule

\* Recovery.
LEMMA RecoverySteps ==
    ASSUME Typed, Named, Recovery \/ RecoverFails \/ RecoverCrash
    PROVE  OrdinaryStep \/ (RecoverJournal /\ Finishes(rec.journal))
  <1>0. RecoverBails => OrdinaryStep
    BY OnlyReleaseOrdinary, UnchangedOrdinary DEF RecoverBails
  <1>1. CASE \/ RecoverRefused \/ RecoverSteal \/ RecoverTerminate
             \/ \E j \in Journals : RecoverResolve(j)
             \/ RecoverUnlock \/ RecoverDone \/ RecoverCrash
    <2>1. UNCHANGED change
      BY <1>1 DEF RecoverRefused, RecoverSteal, RecoverTerminate,
         RecoverResolve, RecoverUnlock, RecoverDone, RecoverCrash, document
    <2> QED BY <2>1, UnchangedOrdinary
  <1>2. CASE RecoverFails
    BY <1>0, <1>2 DEF RecoverFails
  <1>3. ASSUME NEW k \in Attempts, NEW a \in Artifacts \cup {None},
               RecoverAttempt(k, a)
        PROVE  OrdinaryStep
    <2> DEFINE c == attempt[k].change
               ch == IF a # None THEN Captured(change[c], a) ELSE change[c]
               moved == IF Terminal(c) THEN ch
                        ELSE Set(ch, ch.stage, "PAUSED")
    <2>1. c \in Changes /\ change[c] \in ChangeRecord
      BY <1>3, ChangeTable DEF Typed, TypeOK, DocumentOK, AttemptRecord,
         RecoverAttempt, ActiveAttempts, Named
    <2>2. change[c].state # "ABSENT"
      BY <1>3 DEF RecoverAttempt, ActiveAttempts, Named, Present
    <2>3. ch \in ChangeRecord
      BY <2>1, CapturedType
    <2>4. Ordinary(change[c], ch) /\ ch.state = change[c].state
      BY <2>1, CapturedFields DEF Ordinary
    <2>5. Ordinary(change[c], moved)
      <3> HIDE DEF ch, c
      <3> QED BY <2>2, <2>3, <2>4, SetOrdinary DEF Terminal
    <2>6. change' = [change EXCEPT ![c] = moved]
      BY <1>3 DEF RecoverAttempt
    <2> HIDE DEF moved, c
    <2> QED BY <2>5, <2>6, UpdateOrdinary
  <1>4. CASE RecoverLeases
    <2>1. ASSUME NEW c \in Changes PROVE Ordinary(change[c], change'[c])
      <3>1. change'[c] = Restarted(change[c])
        BY <1>4 DEF RecoverLeases
      <3> QED BY <3>1, ChangeTable, SetFields DEF Restarted, Ordinary
    <2> QED BY <2>1 DEF OrdinaryStep
  <1>5. CASE RecoverJournal
    <2> DEFINE j == rec.journal
               outcome == Outcome(j, rec.sha)
               c == owner[journal[j].artifact]
               ch == CASE outcome = "APPLIED" ->
                             Set(change[c], "PROMOTION", "DONE")
                       [] outcome = "NOT_APPLIED" ->
                             Set(change[c], "AWAIT_PROMOTION", "QUEUED")
                       [] OTHER -> Set(change[c], change[c].stage, "STALE")
    <2>1. j \in Journals /\ journal[j].state # "NONE"
      BY <1>5 DEF Typed, Shape, RecoveryOK, RecoverJournal
    <2>2. c \in Changes
      BY <2>1 DEF Named, Typed, TypeOK, DocumentOK, JournalRecord
    <2>3. change[c].state # "ABSENT" /\ change[c] \in ChangeRecord
      BY <2>1, <2>2, ChangeTable DEF Named, Present, Typed, TypeOK,
         DocumentOK, JournalRecord
    <2>4. outcome \in {"APPLIED", "CONFLICT", "NOT_APPLIED"}
      BY DEF Outcome
    <2>5. CASE ~Immutable(c, ch)
      BY <1>0, <1>5, <2>5, Zenon DEF RecoverJournal
    <2>6. CASE Immutable(c, ch)
      <3>1. /\ journal' = [journal EXCEPT ![j].state = outcome]
            /\ change' = [change EXCEPT ![c] = ch]
        BY <1>5, <2>6, Zenon DEF RecoverJournal
      <3>2. CASE outcome = "APPLIED"
        <4>1. ch = Set(change[c], "PROMOTION", "DONE")
          BY <3>2
        <4>2. /\ change[c].state # "ABORTED"
              /\ change[c].state = "DONE" => change[c].stage = "PROMOTION"
          <5> HIDE DEF ch, c
          <5> QED BY <2>3, <2>6, <4>1, SetFields DEF Immutable, Terminal
        <4> HIDE DEF ch, c, outcome
        <4> QED BY <1>5, <3>1, <3>2, <4>1, <4>2 DEF Finishes, c
      <3>3. CASE outcome # "APPLIED"
        <4>1. \/ ch = Set(change[c], "AWAIT_PROMOTION", "QUEUED")
              \/ ch = Set(change[c], change[c].stage, "STALE")
          <5> HIDE DEF outcome
          <5> QED BY <2>4, <3>3
        <4>2. Ordinary(change[c], ch)
          <5> HIDE DEF ch, c
          <5>1. Ordinary(change[c], change[c])
            BY DEF Ordinary
          <5>2. ~Terminal(c)
            BY <2>3, <2>6, <4>1, SetFields DEF Immutable, Terminal
          <5> QED BY <2>3, <4>1, <5>1, <5>2, SetOrdinary DEF Terminal
        <4> HIDE DEF ch, c
        <4> QED BY <3>1, <4>2, UpdateOrdinary
      <3> QED BY <3>2, <3>3
    <2> QED BY <2>5, <2>6
  <1> QED BY <1>1, <1>2, <1>3, <1>4, <1>5 DEF Recovery

\* Every step is ordinary, or releases, authorises or finishes one Change.
LEMMA ChangeSteps ==
    ASSUME Typed, Named, Unfinished, [Next]_vars
    PROVE  \/ OrdinaryStep
           \/ \E c \in Changes : ReleaseOption(c) \/ ChangePromote(c)
           \/ \E s \in Scheds : ApplyPromotion(s) /\ Finishes(act[s])
           \/ RecoverJournal /\ Finishes(rec.journal)
  <1>1. CASE UNCHANGED vars
    BY <1>1, UnchangedOrdinary DEF vars, document
  <1> QED BY <1>1, OperatorSteps, ControlSteps, ActivitySteps, ScheduleSteps,
             RecoverySteps
          DEF Next

-----------------------------------------------------------------------------
(* Named and Unfinished are inductive.                                     *)

\* What ReleaseOption and ChangePromote write.
LEMMA ReleaseOptionWrites ==
    ASSUME Typed, NEW c \in Changes, ReleaseOption(c)
    PROVE  /\ change[c].state = "ABSENT"
           /\ change'[c].state = "QUEUED" /\ change'[c].stage = "MUTATION"
           /\ change'[c].base = taskSHA
           /\ \A d \in Changes \ {c} : change'[d] = change[d]
  <1> DEFINE ch == Set(change[c], "MUTATION", "QUEUED")
  <1>1. ch \in ChangeRecord
    BY ChangeTable, SetType DEF Stages, States
  <1>2. ch.stage = "MUTATION" /\ ch.state = "QUEUED"
    BY ChangeTable, SetFields
  <1>3. change' = [change EXCEPT ![c] = [ch EXCEPT !.base = taskSHA]]
    BY DEF ReleaseOption
  <1>4. change[c].state = "ABSENT"
    BY DEF ReleaseOption
  <1> HIDE DEF ch
  <1>5. LET n == [ch EXCEPT !.base = taskSHA]
        IN  n.state = "QUEUED" /\ n.stage = "MUTATION" /\ n.base = taskSHA
    BY <1>1, <1>2, BaseFields
  <1> QED BY <1>3, <1>4, <1>5, ChangeTable
\* The same for ChangePromote.
LEMMA ChangePromoteWrites ==
    ASSUME Typed, NEW c \in Changes, ChangePromote(c)
    PROVE  /\ change[c].state = "QUEUED" /\ change[c].stage = "AWAIT_PROMOTION"
           /\ change'[c].state = "QUEUED" /\ change'[c].stage = "PROMOTION"
           /\ change'[c].base = change[c].base
           /\ \A d \in Changes \ {c} : change'[d] = change[d]
  <1> DEFINE ch == Set(change[c], "PROMOTION", "QUEUED")
  <1>1. /\ ch.stage = "PROMOTION" /\ ch.state = "QUEUED"
        /\ ch.base = change[c].base
    BY ChangeTable, SetFields
  <1>2. change' = [change EXCEPT ![c] = ch]
    BY DEF ChangePromote
  <1>3. change[c].state = "QUEUED" /\ change[c].stage = "AWAIT_PROMOTION"
    BY DEF ChangePromote
  <1> HIDE DEF ch
  <1> QED BY <1>1, <1>2, <1>3, ChangeTable
\* The same for the transactions that write DONE.
LEMMA FinishesWrites ==
    ASSUME Typed, Named, NEW j \in Journals, journal[j].state # "NONE",
           Finishes(j)
    PROVE  LET c == owner[journal[j].artifact] IN
           /\ c \in Changes /\ change[c].state \notin {"ABSENT", "ABORTED"}
           /\ change[c].state = "DONE" => change[c].stage = "PROMOTION"
           /\ change'[c].state = "DONE" /\ change'[c].stage = "PROMOTION"
           /\ change'[c].base = change[c].base
           /\ \A d \in Changes \ {c} : change'[d] = change[d]
  <1> DEFINE c == owner[journal[j].artifact]
             ch == Set(change[c], "PROMOTION", "DONE")
  <1>1. /\ change' = [change EXCEPT ![c] = ch]
        /\ change[c].state # "ABORTED"
        /\ change[c].state = "DONE" => change[c].stage = "PROMOTION"
    BY DEF Finishes
  <1>2. journal[j].artifact \in Artifacts /\ c # None
    BY DEF Named, Typed, TypeOK, DocumentOK, JournalRecord
  <1>3. c \in Changes /\ change[c].state # "ABSENT"
    BY <1>2 DEF Named, Present, Typed, TypeOK, DocumentOK
  <1>4. /\ ch.stage = "PROMOTION" /\ ch.state = "DONE"
        /\ ch.base = change[c].base
    BY <1>3, ChangeTable, SetFields
  <1> HIDE DEF ch, c
  <1>5. /\ change'[c] = ch
        /\ \A d \in Changes \ {c} : change'[d] = change[d]
    BY <1>1, <1>3, ChangeTable
  <1> QED BY <1>1, <1>3, <1>4, <1>5 DEF c

\* The journals that are settled have been written.
LEMMA FinishedJournal ==
    ASSUME Typed
    PROVE  /\ \A s \in Scheds : ApplyPromotion(s) =>
                 act[s] \in Journals /\ journal[act[s]].state # "NONE"
           /\ RecoverJournal =>
                 rec.journal \in Journals /\ journal[rec.journal].state # "NONE"
  <1>1. ASSUME NEW s \in Scheds, ApplyPromotion(s)
        PROVE  act[s] \in Journals /\ journal[act[s]].state # "NONE"
    BY <1>1, ApplyFrame DEF Typed, Shape, LocalsOK, Local
  <1>2. ASSUME RecoverJournal
        PROVE  rec.journal \in Journals /\ journal[rec.journal].state # "NONE"
    BY <1>2, RecoverJournalFrame DEF Typed, Shape, RecoveryOK
  <1> QED BY <1>1, <1>2

\* A Change that is there stays there, and nothing but a release gives one
\* its base.
LEMMA PresentStays ==
    ASSUME Typed, Named, Unfinished, [Next]_vars, NEW c \in Changes
    PROVE  /\ Present(c) => Present(c)'
           /\ change'[c].base = None => ~Present(c)'
           /\ ~Present(c)' => /\ change'[c].base = None
                              /\ change'[c].stage = "MUTATION"
  <1>0. /\ change[c].base = None => ~Present(c)
        /\ ~Present(c) => change[c].base = None /\ change[c].stage = "MUTATION"
    BY DEF Named
  <1>1. CASE OrdinaryStep
    BY <1>0, <1>1 DEF OrdinaryStep, Ordinary, Present
  <1>2. CASE \E d \in Changes : ReleaseOption(d)
    <2>1. taskSHA # None
      BY DEF Typed, TypeOK, DocumentOK, Commits, None
    <2> QED BY <1>0, <1>2, <2>1, ReleaseOptionWrites DEF Present
  <1>3. CASE \E d \in Changes : ChangePromote(d)
    BY <1>0, <1>3, ChangePromoteWrites DEF Present
  <1>4. ASSUME NEW j \in Journals, journal[j].state # "NONE", Finishes(j)
        PROVE  /\ Present(c) => Present(c)'
               /\ change'[c].base = None => ~Present(c)'
               /\ ~Present(c)' => /\ change'[c].base = None
                                  /\ change'[c].stage = "MUTATION"
    <2> DEFINE d == owner[journal[j].artifact]
    <2>1. /\ d \in Changes /\ change[d].state # "ABSENT"
          /\ change'[d].state = "DONE" /\ change'[d].base = change[d].base
          /\ \A e \in Changes \ {d} : change'[e] = change[e]
      BY <1>4, FinishesWrites
    <2> HIDE DEF d
    <2> QED BY <1>0, <2>1 DEF Present
  <1> QED BY <1>1, <1>2, <1>3, <1>4, ChangeSteps, FinishedJournal

\* What Next hands out: an operator request, a QUEUED Change, or nothing.
LEMMA Handed ==
    ASSUME Typed, NEW s \in Scheds, NextRequest(s) \/ NextChange(s)
    PROVE  \/ UNCHANGED <<step, pc>>
           \/ /\ NextRequest(s)
              /\ \E r \in requests : step'[s] = RequestStep(r)
           \/ /\ NextChange(s)
              /\ \E c \in Changes : /\ step'[s] = ChangeStep(c)
                                    /\ change[c].state = "QUEUED"
                                    /\ change'[c].state = "RUNNING"
  <1>0. step \in [Scheds -> StepRecord] /\ change \in [Changes -> ChangeRecord]
    BY DEF Typed, TypeOK, SchedulersOK, DocumentOK
  <1>1. CASE NextRequest(s)
    BY <1>0, <1>1 DEF NextRequest, Select
  <1>2. CASE NextChange(s)
    <2> DEFINE queue == {c \in Changes : /\ change[c].state = "QUEUED"
                                         /\ change[c].stage
                                               # "AWAIT_PROMOTION"}
               Drifted(c) == change[c].base # taskSHA
               ready(poor) == {c \in queue \ poor :
                                  ~Drifted(c) /\ runnable(ChangeStep(c))}
               First(c, poor) == \A d \in ready(poor) \ {c} : Before(c, d)
               Passed(d, poor) == \A c \in ready(poor) : Before(d, c)
    <2>1. PICK poor :
            /\ change' = [d \in Changes |->
                 IF d \in ready(poor) /\ First(d, poor)
                 THEN [change[d] EXCEPT !.state = "RUNNING", !.started = TRUE]
                 ELSE IF d \in queue /\ Passed(d, poor) /\ Drifted(d)
                 THEN [change[d] EXCEPT !.state = "STALE"]
                 ELSE IF d \in poor /\ Passed(d, poor)
                 THEN [change[d] EXCEPT !.state = "BLOCKED"]
                 ELSE change[d]]
            /\ IF ready(poor) = {} THEN UNCHANGED <<activity, step, pc>>
               ELSE \E c \in ready(poor) :
                       First(c, poor) /\ Select(s, ChangeStep(c))
      BY <1>2 DEF NextChange
    <2>2. CASE ready(poor) = {}
      BY <2>1, <2>2
    <2>3. CASE ready(poor) # {}
      <3>1. PICK c \in ready(poor) :
               First(c, poor) /\ Select(s, ChangeStep(c))
        BY <2>1, <2>3
      <3>2. c \in Changes /\ change[c].state = "QUEUED"
        BY <3>1
      <3>3. step'[s] = ChangeStep(c)
        BY <1>0, <3>1 DEF Select
      <3>4. change'[c] = [change[c] EXCEPT !.state = "RUNNING",
                                           !.started = TRUE]
        <4> HIDE DEF queue, ready, First, Passed, Drifted
        <4> QED BY <2>1, <3>1, <3>2
      <3>5. change'[c].state = "RUNNING"
        BY <3>2, <3>4, <1>0, StartedFields
      <3> QED BY <1>2, <3>2, <3>3, <3>5
    <2> QED BY <2>2, <2>3
  <1> QED BY <1>1, <1>2

\* The step of a scheduler is kept, dropped, or what Next has just handed out.
LEMMA StepWrites ==
    ASSUME Typed, [Next]_vars, NEW s \in Scheds
    PROVE  \/ step'[s] = step[s] \/ step'[s] = NoStep
           \/ /\ NextRequest(s)
              /\ \E r \in requests : step'[s] = RequestStep(r)
           \/ /\ NextChange(s)
              /\ \E c \in Changes : /\ step'[s] = ChangeStep(c)
                                    /\ change[c].state = "QUEUED"
                                    /\ change'[c].state = "RUNNING"
  <1>0. step \in [Scheds -> StepRecord] /\ change \in [Changes -> ChangeRecord]
    BY DEF Typed, TypeOK, SchedulersOK, DocumentOK
  <1>1. ASSUME NEW t \in Scheds, Activity(t)
        PROVE  step'[s] = step[s] \/ step'[s] = NoStep
    BY <1>0, <1>1, ActivityMoves
  <1>2. ASSUME NEW t \in Scheds, t # s,
               SchedStart(t) \/ Crash(t) \/ Schedule(t)
        PROVE  step'[s] = step[s]
    BY <1>2, ScheduleMoves
  <1>3. CASE SchedStart(s) \/ Crash(s) \/ SchedStop(s) \/ IdleFails(s)
    BY <1>0, <1>3 DEF SchedStart, Crash, SchedStop, IdleFails, Stopped
  <1>4. CASE NextRequest(s) \/ NextChange(s)
    BY <1>4, Handed
  <1> QED BY <1>1, <1>2, <1>3, <1>4, OthersStay DEF Next, Schedule

\* Attempts become ACTIVE in PrepareAttempt only.
LEMMA AttemptWrites ==
    ASSUME Typed, [Next]_vars, NEW k \in Attempts
    PROVE  \/ attempt'[k] = attempt[k]
           \/ attempt'[k] = [attempt[k] EXCEPT !.status = "ENDED"]
           \/ \E s \in Scheds : PrepareAttempt(s, k)
  <1>0. attempt \in [Attempts -> AttemptRecord]
    BY DEF Typed, TypeOK, DocumentOK
  <1>1. ASSUME NEW s \in Scheds, NEW x \in Attempts, PrepareAttempt(s, x)
        PROVE  attempt'[k] = attempt[k] \/ PrepareAttempt(s, k)
    BY <1>0, <1>1 DEF PrepareAttempt
  <1>2. ASSUME NEW x, attempt' = [attempt EXCEPT ![x].status = "ENDED"]
        PROVE  \/ attempt'[k] = attempt[k]
               \/ attempt'[k] = [attempt[k] EXCEPT !.status = "ENDED"]
    BY <1>0, <1>2
  <1>3. ASSUME NEW s \in Scheds, Activity(s)
        PROVE  \/ UNCHANGED attempt
               \/ attempt' = [attempt EXCEPT ![act[s]].status = "ENDED"]
               \/ \E x \in Attempts : PrepareAttempt(s, x)
    BY <1>3, ActivityFrame, CompleteFrame
  <1>4. ASSUME Recovery \/ RecoverFails \/ RecoverCrash
        PROVE  \/ UNCHANGED attempt
               \/ \E x \in Attempts :
                     attempt' = [attempt EXCEPT ![x].status = "ENDED"]
    <2>1. ASSUME NEW x, NEW a, RecoverAttempt(x, a)
          PROVE  attempt' = [attempt EXCEPT ![x].status = "ENDED"]
      BY <2>1, Zenon DEF RecoverAttempt
    <2> QED BY <1>4, <2>1, RecoveryFrame
  <1>5. ASSUME \/ Operator \/ Control \/ UNCHANGED vars
               \/ \E s \in Scheds : SchedStart(s) \/ Crash(s) \/ Schedule(s)
        PROVE  UNCHANGED attempt
    BY <1>5, OperatorFrame, ControlFrame, ScheduleFrame
    DEF work, vars, document
  <1> QED BY <1>1, <1>2, <1>3, <1>4, <1>5 DEF Next

\* An Artifact is given to the Change whose Attempt it was captured from, and
\* stays with it.
LEMMA OwnerWrites ==
    ASSUME Typed, Named, Unfinished, [Next]_vars, NEW a \in Artifacts
    PROVE  \/ owner'[a] = owner[a]
           \/ /\ owner[a] = None /\ owner'[a] \in Changes
              /\ Present(owner'[a])
  <1>0. owner \in [Artifacts -> Changes \cup {None}]
    BY DEF Typed, TypeOK, DocumentOK
  <1>1. ASSUME NEW c \in Changes, Present(c), NEW b \in Artifacts \cup {None},
               b # None => Fresh(b, UnusedArtifacts),
               owner' = IF b # None THEN [owner EXCEPT ![b] = c] ELSE owner
        PROVE  \/ owner'[a] = owner[a]
               \/ /\ owner[a] = None /\ owner'[a] \in Changes
                  /\ Present(owner'[a])
    BY <1>0, <1>1 DEF Fresh, UnusedArtifacts
  <1>2. ASSUME NEW s \in Scheds, NEW how, NEW result,
               NEW b \in Artifacts \cup {None}, Complete(s, how, result, b)
        PROVE  \/ owner'[a] = owner[a]
               \/ /\ owner[a] = None /\ owner'[a] \in Changes
                  /\ Present(owner'[a])
    <2>1. pc[s] \in Executing \ {"ciPrepare", "ciSetup", "ciRun"}
      BY <1>2, CompleteFrame DEF Executing
    <2>2. step[s].change \in Changes /\ Present(step[s].change)
      BY <2>1, StepChange DEF Present
    <2>3. /\ b # None => Fresh(b, UnusedArtifacts)
          /\ owner' = IF b # None THEN [owner EXCEPT ![b] = step[s].change]
                                  ELSE owner
      BY <1>2, Zenon DEF Complete
    <2> QED BY <1>1, <2>2, <2>3
  <1>3. ASSUME NEW k \in Attempts, NEW b \in Artifacts \cup {None},
               RecoverAttempt(k, b)
        PROVE  \/ owner'[a] = owner[a]
               \/ /\ owner[a] = None /\ owner'[a] \in Changes
                  /\ Present(owner'[a])
    <2>1. attempt[k].change \in Changes /\ Present(attempt[k].change)
      BY <1>3 DEF RecoverAttempt, ActiveAttempts, Named, Typed, TypeOK,
                  DocumentOK, AttemptRecord
    <2>2. /\ b # None => Fresh(b, UnusedArtifacts)
          /\ owner' = IF b # None THEN [owner EXCEPT ![b] = attempt[k].change]
                                  ELSE owner
      BY <1>3, Zenon DEF RecoverAttempt
    <2> QED BY <1>1, <2>1, <2>2
  <1>4. ASSUME NEW s \in Scheds, Activity(s)
        PROVE  \/ UNCHANGED owner
               \/ \E how, result : \E b \in Artifacts \cup {None} :
                     Complete(s, how, result, b)
    BY <1>4, ActivityFrame
  <1>5. ASSUME \/ Operator \/ Control \/ UNCHANGED vars
               \/ \E s \in Scheds : SchedStart(s) \/ Crash(s) \/ Schedule(s)
        PROVE  UNCHANGED owner
    BY <1>5, OperatorFrame, ControlFrame, ScheduleFrame
    DEF evidence, vars, document
  <1> QED BY <1>2, <1>3, <1>4, <1>5, RecoveryFrame DEF Next

\* Journals are written by PreparePromotion; then only their state changes.
LEMMA JournalWrites ==
    ASSUME Typed, [Next]_vars, NEW j \in Journals
    PROVE  \/ journal'[j] = journal[j]
           \/ \E s \in Scheds : PreparePromotion(s, j)
           \/ /\ journal[j].state # "NONE" /\ journal'[j].state # "NONE"
              /\ journal'[j].artifact = journal[j].artifact
              /\ journal'[j].old = journal[j].old
              /\ journal'[j].new = journal[j].new
              /\ \/ \E s \in Scheds : act[s] = j /\ CASConflict(s)
                 \/ \E s \in Scheds : act[s] = j /\ ApplyPromotion(s)
                 \/ rec.journal = j /\ RecoverJournal
  <1>0. journal \in [Journals -> JournalRecord]
    BY DEF Typed, TypeOK, DocumentOK
  <1>1. ASSUME NEW i \in Journals, NEW state, state # "NONE",
               journal[i].state # "NONE",
               journal' = [journal EXCEPT ![i].state = state]
        PROVE  \/ journal'[j] = journal[j]
               \/ /\ i = j
                  /\ journal[j].state # "NONE" /\ journal'[j].state # "NONE"
                  /\ journal'[j].artifact = journal[j].artifact
                  /\ journal'[j].old = journal[j].old
                  /\ journal'[j].new = journal[j].new
    <2>1. i # j => journal'[j] = journal[j]
      BY <1>0, <1>1
    <2>2. i = j => journal'[j] = [journal[j] EXCEPT !.state = state]
      BY <1>0, <1>1
    <2> QED BY <1>0, <1>1, <2>1, <2>2 DEF JournalRecord
  <1>2. ASSUME NEW s \in Scheds, NEW i \in Journals, PreparePromotion(s, i)
        PROVE  journal'[j] = journal[j] \/ PreparePromotion(s, j)
    BY <1>0, <1>2 DEF PreparePromotion
  <1>3. ASSUME NEW s \in Scheds, CASConflict(s)
        PROVE  /\ act[s] \in Journals /\ journal[act[s]].state # "NONE"
               /\ journal' = [journal EXCEPT ![act[s]].state = "CONFLICT"]
    BY <1>3 DEF CASConflict, Typed, Shape, LocalsOK, Local
  <1>4. ASSUME NEW s \in Scheds, ApplyPromotion(s)
        PROVE  \/ UNCHANGED journal
               \/ /\ act[s] \in Journals /\ journal[act[s]].state # "NONE"
                  /\ journal' = [journal EXCEPT ![act[s]].state = "APPLIED"]
    BY <1>4, ApplyFrame, FinishedJournal
  <1>5. ASSUME RecoverJournal
        PROVE  \/ UNCHANGED journal
               \/ /\ rec.journal \in Journals
                  /\ journal[rec.journal].state # "NONE"
                  /\ \E state : /\ state # "NONE"
                                /\ journal' = [journal EXCEPT
                                      ![rec.journal].state = state]
    <2>1. Outcome(rec.journal, rec.sha) # "NONE"
      BY DEF Outcome
    <2> QED BY <1>5, <2>1, RecoverJournalFrame, FinishedJournal
  <1>6. ASSUME \/ Operator \/ Control \/ UNCHANGED vars
               \/ \E s \in Scheds : SchedStart(s) \/ Crash(s) \/ Schedule(s)
        PROVE  UNCHANGED journal
    BY <1>6, OperatorFrame, ControlFrame, ScheduleFrame DEF vars, document
  <1>7. ASSUME NEW s \in Scheds, Activity(s)
        PROVE  \/ UNCHANGED journal
               \/ \E i \in Journals : PreparePromotion(s, i)
               \/ CASConflict(s) \/ ApplyPromotion(s)
    BY <1>7, ActivityFrame
  <1>8. \/ UNCHANGED journal
        \/ \E s \in Scheds : \/ \E i \in Journals : PreparePromotion(s, i)
                             \/ CASConflict(s) \/ ApplyPromotion(s)
        \/ RecoverJournal
    BY <1>6, <1>7, RecoveryFrame DEF Next
  <1>9. CASE \E s \in Scheds : CASConflict(s)
    BY <1>1, <1>3, <1>9
  <1>10. CASE \E s \in Scheds : ApplyPromotion(s)
    BY <1>1, <1>4, <1>10
  <1>11. CASE RecoverJournal
    BY <1>1, <1>5, <1>11
  <1> QED BY <1>2, <1>8, <1>9, <1>10, <1>11

\* The actions that take an activity from one label to the next.
Advances(s) ==
    \/ ResolveRef(s) \/ \E k \in Attempts : PrepareAttempt(s, k)
    \/ Materialize(s) \/ \E r \in CIRuns : PrepareCI(s, r)
    \/ MarkCIRunning(s) \/ PromoteStart(s) \/ Construct(s)
    \/ \E j \in Journals : PreparePromotion(s, j)
    \/ CAS(s) \/ CASRejected(s) \/ CASConflict(s)

\* A scheduler that executes stays where it is, goes on with its activity, or
\* has just been handed one.
LEMMA Enters ==
    ASSUME Typed, [Next]_vars, NEW s \in Scheds, pc'[s] \in Executing
    PROVE  \/ /\ pc'[s] = pc[s] /\ step'[s] = step[s]
              /\ act'[s] = act[s] /\ sha'[s] = sha[s]
           \/ /\ pc[s] = "idle" /\ pc'[s] \in {"resolve", "ciPrepare"}
              /\ NextRequest(s) \/ NextChange(s)
              /\ UNCHANGED <<act, sha>>
           \/ pc[s] \in Executing /\ step'[s] = step[s] /\ Advances(s)
  <1>0. /\ pc \in [Scheds -> Labels] /\ step \in [Scheds -> StepRecord]
        /\ DOMAIN act = Scheds /\ DOMAIN sha = Scheds
        /\ act \in [Scheds -> Nat] /\ sha \in [Scheds -> Commits \cup {None}]
    BY DEF Typed, TypeOK, SchedulersOK
  <1>1. CASE Operator \/ Control \/ Recovery \/ RecoverFails \/ RecoverCrash
             \/ UNCHANGED vars
    <2>1. UNCHANGED <<pc, step, act, sha>>
      BY <1>1, OperatorFrame, ControlFrame, RecoveryFrame
      DEF schedVars, vars, outside, processes
    <2> QED BY <2>1
  <1>2. ASSUME NEW t \in Scheds, t # s, Activity(t)
        PROVE  /\ pc'[s] = pc[s] /\ step'[s] = step[s]
               /\ act'[s] = act[s] /\ sha'[s] = sha[s]
    <2>1. pc'[s] = pc[s] /\ step'[s] = step[s]
      BY <1>0, <1>2, ActivityMoves
    <2>2. ASSUME UNCHANGED <<act, sha>>
          PROVE  act'[s] = act[s] /\ sha'[s] = sha[s]
      BY <2>2
    <2>3. ASSUME NEW how, NEW result, NEW a, Complete(t, how, result, a)
          PROVE  UNCHANGED <<act, sha>>
      BY <2>3, CompleteFrame
    <2>4. ASSUME NEW outcome, NEW code, FinishCI(t, outcome, code)
          PROVE  UNCHANGED <<act, sha>>
      BY <2>4, FinishCIFrame
    <2>5. CASE \/ ResolveRefFails(t) \/ Refused(t) \/ Materialize(t)
               \/ StorageFails(t) \/ OpenLogs(t) \/ MarkCIRunning(t)
               \/ PromoteBusy(t) \/ PromoteStart(t) \/ EvidenceChanged(t)
               \/ ConstructFails(t) \/ PreparePromotionFails(t)
               \/ CAS(t) \/ CASFails(t) \/ CASRejected(t) \/ CASConflict(t)
               \/ CASUnexplained(t) \/ FailedStep(t) \/ PauseOnSignal(t)
               \/ EndPromotion(t) \/ ApplyPromotion(t)
      <3>1. UNCHANGED <<act, sha>>
        BY <2>5, EndPromotionFrame, ApplyFrame
        DEF ResolveRefFails, Refused, Materialize, StorageFails, OpenLogs,
            MarkCIRunning, PromoteBusy, PromoteStart, EvidenceChanged,
            ConstructFails, PreparePromotionFails, CAS, CASFails,
            CASRejected, CASConflict, CASUnexplained, FailedStep,
            PauseOnSignal, outside, processes, schedVars
      <3> QED BY <2>1, <2>2, <3>1
    <2>6. CASE \/ ResolveRef(t) \/ Construct(t) \/ EndStep(t)
               \/ \E k \in Attempts : PrepareAttempt(t, k)
               \/ \E r \in CIRuns : PrepareCI(t, r)
               \/ \E j \in Journals : PreparePromotion(t, j)
      <3>1. \/ UNCHANGED act
            \/ \E x : act' = [act EXCEPT ![t] = x]
        BY <2>6 DEF ResolveRef, Construct, EndStep, GoesOn, Stopped,
           PrepareAttempt, PrepareCI, PreparePromotion
      <3>2. \/ UNCHANGED sha
            \/ \E x : sha' = [sha EXCEPT ![t] = x]
        BY <2>6 DEF ResolveRef, Construct, EndStep, GoesOn, Stopped,
           PrepareAttempt, PrepareCI, PreparePromotion
      <3> QED BY <1>0, <1>2, <2>1, <3>1, <3>2
    <2> QED BY <1>2, <2>1, <2>2, <2>3, <2>4, <2>5, <2>6 DEF Activity
  <1>3. ASSUME NEW t \in Scheds, t # s,
               SchedStart(t) \/ Crash(t) \/ Schedule(t)
        PROVE  /\ pc'[s] = pc[s] /\ step'[s] = step[s]
               /\ act'[s] = act[s] /\ sha'[s] = sha[s]
    <2>1. pc'[s] = pc[s] /\ step'[s] = step[s]
      BY <1>0, <1>3, ScheduleMoves
    <2>2. CASE SchedStart(t) \/ NextRequest(t) \/ NextChange(t)
      <3>1. UNCHANGED <<act, sha>>
        BY <2>2, Zenon DEF SchedStart, NextRequest, NextChange
      <3> QED BY <2>1, <3>1
    <2>3. CASE Crash(t) \/ SchedStop(t) \/ IdleFails(t)
      BY <1>0, <1>3, <2>1, <2>3 DEF Crash, SchedStop, IdleFails, Stopped
    <2> QED BY <1>3, <2>2, <2>3 DEF Schedule
  <1>4. CASE SchedStart(s) \/ Crash(s) \/ SchedStop(s) \/ IdleFails(s)
    <2>1. UNCHANGED pc \/ \E label \in {"idle", "off"} :
                              pc' = [pc EXCEPT ![s] = label]
      BY <1>4 DEF SchedStart, Crash, SchedStop, IdleFails, Stopped, Goto
    <2>2. UNCHANGED pc
      BY <1>0, <2>1 DEF Executing
    <2>3. pc[s] \in {"off", "idle"} \/ Crash(s)
      BY <1>4 DEF SchedStart, SchedStop, IdleFails
    <2>4. pc'[s] # "off" => ~Crash(s)
      BY <1>0 DEF Crash, Stopped
    <2> QED BY <2>2, <2>3, <2>4 DEF Executing
  <1>5. CASE NextRequest(s)
    <2>1. pc[s] = "idle" /\ UNCHANGED <<act, sha>>
      BY <1>5 DEF NextRequest, NextEnabled
    <2>2. pc'[s] \in {"resolve", "ciPrepare"}
      BY <1>0, <1>5 DEF NextRequest, Select, Goto
    <2> QED BY <1>5, <2>1, <2>2
  <1>6. CASE NextChange(s)
    <2>1. pc[s] = "idle" /\ UNCHANGED <<act, sha>>
      BY <1>6, Zenon DEF NextChange, NextEnabled
    <2>2. UNCHANGED pc \/ \E p : Select(s, p)
      BY <1>6, Zenon DEF NextChange
    <2>3. pc'[s] \in {"resolve", "ciPrepare"}
      BY <1>0, <2>1, <2>2 DEF Select, Goto, Executing
    <2> QED BY <1>6, <2>1, <2>3
  <1>7. CASE Activity(s)
    <2>1. ASSUME Returns(s) \/ \E code : Fails(s, code) PROVE FALSE
      BY <1>0, <2>1, Ends
    <2>2. ASSUME NEW how, NEW result, NEW a, Complete(s, how, result, a)
          PROVE  FALSE
      BY <2>1, <2>2, CompleteFrame
    <2>3. ASSUME NEW outcome, NEW code, FinishCI(s, outcome, code)
          PROVE  FALSE
      BY <2>1, <2>3, FinishCIFrame
    <2>4. CASE \/ ResolveRefFails(s) \/ Refused(s) \/ StorageFails(s)
               \/ PromoteBusy(s) \/ EvidenceChanged(s)
               \/ ConstructFails(s) \/ PreparePromotionFails(s)
               \/ CASFails(s) \/ CASUnexplained(s)
               \/ EndPromotion(s) \/ ApplyPromotion(s)
      <3>1. Returns(s) \/ \E code : Fails(s, code)
        BY <2>4, EndPromotionFrame, ApplyFrame
        DEF ResolveRefFails, Refused, StorageFails, PromoteBusy,
            EvidenceChanged, ConstructFails, PreparePromotionFails, CASFails,
            CASUnexplained
      <3> QED BY <2>1, <3>1
    <2>5. CASE FailedStep(s) \/ PauseOnSignal(s) \/ EndStep(s)
      BY <1>0, <2>5 DEF FailedStep, PauseOnSignal, EndStep, GoesOn, Stopped,
         Goto, Executing
    <2>6. CASE OpenLogs(s)
      BY <2>6 DEF OpenLogs, outside, processes, schedVars
    <2>7. CASE Advances(s)
      <3>1. UNCHANGED step /\ pc[s] \in Executing
        BY <2>7 DEF Advances, ResolveRef, PrepareAttempt, Materialize,
           PrepareCI, MarkCIRunning, PromoteStart, Construct,
           PreparePromotion, CAS, CASRejected, CASConflict, Executing
      <3> QED BY <2>7, <3>1
    <2> QED BY <1>7, <2>2, <2>3, <2>4, <2>5, <2>6, <2>7
            DEF Activity, Advances
  <1> QED BY <1>1, <1>2, <1>3, <1>4, <1>5, <1>6, <1>7 DEF Next, Schedule

\* Named is inductive.
LEMMA NextNamed ==
    ASSUME Typed, StepMatches, Named, Unfinished, [Next]_vars
    PROVE  Named'
  <1>0. Typed'
    BY NextTyped
  <1>1. ASSUME NEW c \in Changes
        PROVE  /\ change'[c].base = None => ~Present(c)'
               /\ ~Present(c)' => /\ change'[c].base = None
                                  /\ change'[c].stage = "MUTATION"
    BY PresentStays
  <1>2. ASSUME NEW s \in Scheds, step'[s].change # None
        PROVE  change'[step'[s].change].state # "ABSENT"
    <2>1. CASE step'[s] = step[s]
      <3>1. step[s].change \in Changes /\ Present(step[s].change)
        BY <1>2, <2>1 DEF Named, Typed, TypeOK, SchedulersOK, StepRecord
      <3> QED BY <2>1, <3>1, PresentStays DEF Present
    <2>2. CASE step'[s] = NoStep
      BY <1>2, <2>2 DEF NoStep
    <2>3. CASE \E r \in requests : step'[s] = RequestStep(r)
      BY <1>2, <2>3 DEF RequestStep
    <2>4. ASSUME NEW c \in Changes, step'[s] = ChangeStep(c),
                 change'[c].state = "RUNNING"
          PROVE  change'[step'[s].change].state # "ABSENT"
      BY <2>4 DEF ChangeStep
    <2> QED BY <2>1, <2>2, <2>3, <2>4, StepWrites
  <1>3. ASSUME NEW k \in Attempts, attempt'[k].status = "ACTIVE"
        PROVE  /\ attempt'[k].change # None
               /\ change'[attempt'[k].change].state # "ABSENT"
    <2>0. attempt \in [Attempts -> AttemptRecord]
      BY DEF Typed, TypeOK, DocumentOK
    <2>1. CASE attempt'[k] = attempt[k]
      <3>1. attempt[k].change \in Changes /\ Present(attempt[k].change)
        BY <2>0, <1>3, <2>1 DEF Named, AttemptRecord
      <3>2. attempt[k].change # None
        BY <3>1 DEF Changes, None
      <3> QED BY <2>1, <3>1, <3>2, PresentStays DEF Present
    <2>2. CASE attempt'[k] = [attempt[k] EXCEPT !.status = "ENDED"]
      BY <2>0, <1>3, <2>2 DEF AttemptRecord
    <2>3. ASSUME NEW s \in Scheds, PrepareAttempt(s, k)
          PROVE  /\ attempt'[k].change # None
                 /\ change'[attempt'[k].change].state # "ABSENT"
      <3>1. attempt'[k].change = step[s].change
        BY <2>0, <2>3 DEF PrepareAttempt
      <3>2. pc[s] \in Executing \ {"ciPrepare", "ciSetup", "ciRun"}
        BY <2>3 DEF PrepareAttempt, Executing
      <3>3. step[s].change \in Changes /\ Present(step[s].change)
        BY <3>2, StepChange DEF Present
      <3>4. step[s].change # None
        BY <3>3 DEF Changes, None
      <3> QED BY <3>1, <3>3, <3>4, PresentStays DEF Present
    <2> QED BY <2>1, <2>2, <2>3, AttemptWrites
  <1>4. ASSUME NEW a \in Artifacts, owner'[a] # None
        PROVE  change'[owner'[a]].state # "ABSENT"
    <2>1. owner'[a] \in Changes /\ Present(owner'[a])
      BY <1>4, OwnerWrites DEF Named, Typed, TypeOK, DocumentOK
    <2> QED BY <2>1, PresentStays DEF Present
  <1>5. ASSUME NEW j \in Journals, journal'[j].state # "NONE"
        PROVE  /\ journal'[j].artifact # None
               /\ owner'[journal'[j].artifact] # None
    <2>1. CASE /\ journal[j].state # "NONE"
               /\ journal'[j].artifact = journal[j].artifact
      <3>1. /\ journal[j].artifact \in Artifacts
            /\ owner[journal[j].artifact] # None
            /\ journal[j].artifact # None
        BY <2>1 DEF Named, Typed, TypeOK, DocumentOK, JournalRecord
      <3>2. owner'[journal[j].artifact] # None
        BY <3>1, OwnerWrites DEF Changes, None
      <3> QED BY <2>1, <3>1, <3>2
    <2>2. ASSUME NEW s \in Scheds, PreparePromotion(s, j)
          PROVE  /\ journal'[j].artifact # None
                 /\ owner'[journal'[j].artifact] # None
      <3> DEFINE c == step[s].change
      <3>1. c \in Changes /\ step[s].target = change[c].artifact
        BY <2>2 DEF PreparePromotion, StepMatches, Matching, Typed, Shape,
           LocalsOK, Local, Executing
      <3>2. change[c].artifact # None /\ owner[change[c].artifact] = c
        BY <2>2 DEF PreparePromotion, Promotable, HasEvidence,
           PromotionEvidence, Approved
      <3>3. UNCHANGED owner /\ journal'[j].artifact = step[s].target
        BY <2>2 DEF PreparePromotion, evidence, Typed, TypeOK, DocumentOK
      <3> QED BY <3>1, <3>2, <3>3 DEF Changes, None
    <2> QED BY <1>5, <2>1, <2>2, JournalWrites
  <1> QED BY <1>1, <1>2, <1>3, <1>4, <1>5 DEF Named, Present, ActiveAttempts

\* Unfinished is inductive: DONE is written by whoever has slot and gate.
LEMMA NextUnfinished ==
    ASSUME Typed, Exclusive, Named, Unfinished, [Next]_vars
    PROVE  Unfinished'
  <1>0. pc \in [Scheds -> Labels]
    BY DEF Typed, TypeOK, SchedulersOK
  <1>1. ASSUME NEW s \in Scheds, pc[s] \in Executing, pc'[s] \in Executing,
               NEW c \in Changes, change[c].state # "DONE"
        PROVE  change'[c].state # "DONE"
    <2>1. CASE OrdinaryStep
      BY <1>1, <2>1 DEF OrdinaryStep, Ordinary
    <2>2. CASE \E d \in Changes : ReleaseOption(d) \/ ChangePromote(d)
      BY <1>1, <2>2, ReleaseOptionWrites, ChangePromoteWrites
    <2>3. ASSUME NEW t \in Scheds, ApplyPromotion(t) PROVE FALSE
      <3>1. pc[t] \in Executing
        BY <2>3, ApplyFrame DEF Executing
      <3>2. slot.owner = s /\ slot.owner = t
        BY <1>1, <3>1 DEF Exclusive
      <3>3. Returns(s) \/ \E code : Fails(s, code)
        BY <2>3, <3>2, ApplyFrame
      <3> QED BY <1>0, <1>1, <3>3, Ends
    <2>4. ASSUME RecoverJournal PROVE FALSE
      <3>1. Recovering
        BY <2>4, RecoverJournalFrame DEF Recovering
      <3> QED BY <1>1, <3>1, RecoveringAlone
    <2> QED BY <2>1, <2>2, <2>3, <2>4, ChangeSteps
  <1>2. ASSUME NEW s \in Scheds, pc'[s] \in Executing, step'[s].change # None
        PROVE  change'[step'[s].change].state # "DONE"
    <2>1. CASE pc[s] \in Executing /\ step'[s] = step[s]
      <3>1. /\ step[s].change \in Changes
            /\ change[step[s].change].state # "DONE"
        BY <1>2, <2>1 DEF Unfinished, Typed, TypeOK, SchedulersOK, StepRecord
      <3> QED BY <1>1, <1>2, <2>1, <3>1
    <2>2. CASE pc[s] = "idle" /\ (NextRequest(s) \/ NextChange(s))
      <3>1. pc'[s] # pc[s]
        BY <1>2, <2>2 DEF Executing
      <3>2. \/ \E r \in requests : step'[s] = RequestStep(r)
            \/ \E c \in Changes : /\ step'[s] = ChangeStep(c)
                                  /\ change'[c].state = "RUNNING"
        BY <2>2, <3>1, Handed
      <3>3. ASSUME NEW c \in Changes, step'[s] = ChangeStep(c),
                   change'[c].state = "RUNNING"
            PROVE  change'[step'[s].change].state # "DONE"
        <4>1. step'[s].change = c
          BY <3>3 DEF ChangeStep
        <4> QED BY <3>3, <4>1
      <3>4. ASSUME NEW r \in requests, step'[s] = RequestStep(r)
            PROVE  FALSE
        BY <1>2, <3>4 DEF RequestStep
      <3> QED BY <3>2, <3>3, <3>4
    <2> QED BY <1>2, <2>1, <2>2, Enters
  <1>3. ASSUME NEW s \in Scheds, pc'[s] = "evidence"
        PROVE  change'[step'[s].change].state # "ABORTED"
    <2> DEFINE c == step[s].change
    <2>1. pc'[s] \in Executing
      BY <1>3 DEF Executing
    <2>2. CASE Advances(s) /\ step'[s] = step[s]
      <3>1. PromoteStart(s)
        BY <1>0, <1>3, <2>2 DEF Advances, ResolveRef, PrepareAttempt,
           Materialize, PrepareCI, MarkCIRunning, Construct,
           PreparePromotion, CAS, CASRejected, CASConflict, Goto, Fails
      <3>2. change[c].state = "RUNNING" /\ UNCHANGED change
        BY <1>0, <1>3, <3>1
        DEF PromoteStart, InPromotion, Fails, document
      <3> QED BY <2>2, <3>2
    <2>3. CASE pc[s] = "evidence" /\ step'[s] = step[s]
      <3>1. /\ c \in Changes /\ change[c].state \notin {"ABORTED", "DONE"}
            /\ gate = s
        BY <2>3, StepChange DEF Executing, Gated, Exclusive, Unfinished
      <3>2. gate # "free"
        BY <3>1, SchedNames
      <3>3. CASE OrdinaryStep
        BY <3>1, <3>2, <3>3, <2>3 DEF OrdinaryStep, Ordinary
      <3>4. CASE \E d \in Changes : ReleaseOption(d) \/ ChangePromote(d)
        BY <3>2, <3>4 DEF ReleaseOption, ChangePromote, GateFree
      <3>5. ASSUME NEW j \in Journals, journal[j].state # "NONE", Finishes(j)
            PROVE  change'[c].state # "ABORTED"
        <4> DEFINE d == owner[journal[j].artifact]
        <4>1. /\ d \in Changes /\ change'[d].state = "DONE"
              /\ \A e \in Changes \ {d} : change'[e] = change[e]
          BY <3>5, FinishesWrites
        <4> HIDE DEF d, c
        <4> QED BY <3>1, <4>1
      <3>6. CASE \E j \in Journals : journal[j].state # "NONE" /\ Finishes(j)
        BY <2>3, <3>5, <3>6
      <3> QED BY <3>3, <3>4, <3>6, ChangeSteps, FinishedJournal
    <2> QED BY <1>3, <2>1, <2>2, <2>3, Enters
  <1> QED BY <1>2, <1>3 DEF Unfinished

\* The inductive invariant of this module, and that it is one.
ChangesInv == Exclusive /\ CancelSeen /\ StepMatches /\ Named /\ Unfinished
\* Initially there are no Changes.
LEMMA InitChanges == Init => ChangesInv
  <1> SUFFICES ASSUME Init PROVE ChangesInv
    OBVIOUS
  <1>1. Exclusive /\ CancelSeen /\ StepMatches
    BY DEF Init, Exclusive, Recovering, NoRecovery, Executing, Gated,
           CancelSeen, NoControl, StepMatches, Matching
  <1>2. Named
    BY DEF Init, Named, Present, NoChange, NoStep, NoAttempt, NoJournal
  <1>3. Unfinished
    BY DEF Init, Unfinished, Executing
  <1> QED BY <1>1, <1>2, <1>3 DEF ChangesInv
\* And every step keeps it.
LEMMA NextChanges == Typed /\ ChangesInv /\ [Next]_vars => ChangesInv'
  BY NextExclusive, NextSeen, NextStepMatches, NextNamed, NextUnfinished
  DEF ChangesInv
\* So it always holds.
LEMMA ChangesInvariant == Spec => []ChangesInv
  BY InitChanges, NextChanges, TypedInvariant, PTL DEF Spec

\* A Change that is DONE or ABORTED keeps stage and state in every step:
\* whatever a worker, a CI run, a late command, a second scheduler or a
\* recovery still does to it.
LEMMA TerminalStays ==
    ASSUME Typed, ChangesInv, [Next]_vars, NEW c \in Changes, Terminal(c)
    PROVE  /\ change'[c].state = change[c].state
           /\ change'[c].stage = change[c].stage
  <1>1. CASE OrdinaryStep
    BY <1>1 DEF OrdinaryStep, Ordinary, Terminal
  <1>2. CASE \E d \in Changes : ReleaseOption(d) \/ ChangePromote(d)
    BY <1>2, ReleaseOptionWrites, ChangePromoteWrites DEF Terminal
  <1>3. ASSUME NEW j \in Journals, journal[j].state # "NONE", Finishes(j)
        PROVE  /\ change'[c].state = change[c].state
               /\ change'[c].stage = change[c].stage
    <2> DEFINE d == owner[journal[j].artifact]
    <2>1. /\ d \in Changes /\ change[d].state # "ABORTED"
          /\ change[d].state = "DONE" => change[d].stage = "PROMOTION"
          /\ change'[d].state = "DONE" /\ change'[d].stage = "PROMOTION"
          /\ \A e \in Changes \ {d} : change'[e] = change[e]
      BY <1>3, FinishesWrites DEF ChangesInv
    <2> HIDE DEF d
    <2> QED BY <2>1 DEF Terminal
  <1> QED BY <1>1, <1>2, <1>3, ChangeSteps, FinishedJournal DEF ChangesInv

\* DONE and ABORTED are final.
THEOREM StaysTerminal == Spec => TerminalForever
  <1>1. Typed /\ ChangesInv /\ [Next]_vars =>
           [\A c \in Changes : Terminal(c) =>
               /\ change'[c].state = change[c].state
               /\ change'[c].stage = change[c].stage]_vars
    BY TerminalStays
  <1> QED BY <1>1, TypedInvariant, ChangesInvariant, PTL
          DEF Spec, TerminalForever

-----------------------------------------------------------------------------
(* run.lock.  Only recovery removes the lock of a live process, so as long *)
(* as nobody recovers at most one scheduler is alive.                      *)

\* Whoever is alive has run.lock.
LockHeld == \A s \in Scheds : pc[s] # "off" => runLock = s
\* At most one scheduler is alive.
OneAlive ==
    \A s, t \in Scheds : pc[s] # "off" /\ pc[t] # "off" => s = t

\* Recovery is only under way if the operator recovers.
RecoveryCommanded == rec.at # "off" => "recover" \in Commands
\* It begins with the command.
LEMMA NextCommanded ==
    ASSUME RecoveryCommanded, [Next]_vars
    PROVE  RecoveryCommanded'
  <1> USE DEF RecoveryCommanded
  <1>1. CASE Operator
    <2>1. UNCHANGED rec \/ "recover" \in Commands
      BY <1>1, Zenon DEF Operator, ReleaseOption, ChangePromote, ChangeResume,
         ChangeRetry, OnlyChange, ChangePause, QueueCI, Interrupt,
         ResolveBlocker, requestCancellation, ResumeTask, ControlGivesUp,
         CommandFails, ExternalMove, Interrupted, outside, processes, others
    <2> QED BY <2>1
  <1>2. CASE \/ Control \/ UNCHANGED vars
             \/ \E s \in Scheds : SchedStart(s) \/ Crash(s) \/ Schedule(s)
             \/ \E s \in Scheds : Activity(s)
    <2>1. UNCHANGED rec
      BY <1>2, ControlFrame, ScheduleFrame, ActivityFrame
      DEF vars, outside, processes, others
    <2> QED BY <2>1
  <1>3. CASE Recovery \/ RecoverFails \/ RecoverCrash
    <2>1. ASSUME NEW k, NEW a, RecoverAttempt(k, a) PROVE rec.at # "off"
      BY <2>1, Zenon DEF RecoverAttempt
    <2>2. RecoverJournal => rec.at # "off"
      BY RecoverJournalFrame
    <2>3. rec.at # "off"
      BY <1>3, <2>1, <2>2 DEF Recovery, RecoverRefused, RecoverSteal,
         RecoverTerminate, RecoverLeases, RecoverResolve, RecoverUnlock,
         RecoverDone, RecoverFails, RecoverCrash
    <2> QED BY <2>3
  <1> QED BY <1>1, <1>2, <1>3 DEF Next
\* The activity of a live scheduler leaves run.lock alone unless it ends the
\* process.
LEMMA ActivityLock ==
    ASSUME Typed, NEW s \in Scheds, Activity(s)
    PROVE  /\ pc[s] # "off"
           /\ \/ UNCHANGED runLock
              \/ EndStep(s) /\ pc' = [pc EXCEPT ![s] = "off"]
  <1>1. pc[s] # "off"
    BY ActivityAt DEF Executing
  <1>2. CASE EndStep(s)
    BY <1>1, <1>2 DEF EndStep, GoesOn, Stopped
  <1>3. CASE ~EndStep(s)
    <2> SUFFICES UNCHANGED runLock
      BY <1>1
    <2> USE DEF locks, outside
    <2>1. ASSUME NEW how, NEW result, NEW a, Complete(s, how, result, a)
          PROVE  UNCHANGED runLock
      BY <2>1, CompleteFrame
    <2>2. ASSUME NEW outcome, NEW code, FinishCI(s, outcome, code)
          PROVE  UNCHANGED runLock
      BY <2>2, FinishCIFrame
    <2>3. CASE EndPromotion(s) \/ ApplyPromotion(s)
      BY <2>3, EndPromotionFrame, ApplyFrame
    <2>4. CASE \/ ResolveRef(s) \/ ResolveRefFails(s) \/ Refused(s)
               \/ \E k \in Attempts : PrepareAttempt(s, k)
               \/ Materialize(s) \/ StorageFails(s)
               \/ \E r \in CIRuns : PrepareCI(s, r)
               \/ OpenLogs(s) \/ MarkCIRunning(s)
               \/ PromoteBusy(s) \/ PromoteStart(s) \/ EvidenceChanged(s)
               \/ Construct(s) \/ ConstructFails(s)
               \/ \E j \in Journals : PreparePromotion(s, j)
               \/ PreparePromotionFails(s)
               \/ CAS(s) \/ CASFails(s) \/ CASRejected(s) \/ CASConflict(s)
               \/ CASUnexplained(s) \/ FailedStep(s) \/ PauseOnSignal(s)
      BY <2>4 DEF ResolveRef, ResolveRefFails, Refused, PrepareAttempt,
         Materialize, StorageFails, PrepareCI, OpenLogs, MarkCIRunning,
         PromoteBusy, PromoteStart, EvidenceChanged, Construct,
         ConstructFails, PreparePromotion, PreparePromotionFails, CAS,
         CASFails, CASRejected, CASConflict, CASUnexplained, FailedStep,
         PauseOnSignal
    <2> QED BY <1>3, <2>1, <2>2, <2>3, <2>4 DEF Activity
  <1> QED BY <1>1, <1>2, <1>3

\* LockHeld is inductive while nobody recovers: a scheduler starts with the
\* lock, which is then free, and only removes its own as it leaves.
LEMMA NextLockHeld ==
    ASSUME Typed, LockHeld, rec.at = "off", [Next]_vars
    PROVE  LockHeld'
  <1>0. pc \in [Scheds -> Labels]
    BY DEF Typed, TypeOK, SchedulersOK
  <1>1. ASSUME UNCHANGED runLock,
               \A t \in Scheds : pc[t] = "off" => pc'[t] = "off"
        PROVE  LockHeld'
    BY <1>1 DEF LockHeld
  <1>2. ASSUME NEW s \in Scheds, pc[s] # "off",
               pc' = [pc EXCEPT ![s] = "off"]
        PROVE  LockHeld'
    <2>1. ASSUME NEW t \in Scheds, pc'[t] # "off" PROVE FALSE
      BY <1>0, <1>2, <2>1 DEF LockHeld
    <2> QED BY <2>1 DEF LockHeld
  <1>3. ASSUME NEW s \in Scheds, NEW label,
               pc[s] # "off", UNCHANGED runLock,
               pc' = [pc EXCEPT ![s] = label] \/ UNCHANGED pc
        PROVE  LockHeld'
    BY <1>0, <1>1, <1>3
  <1>4. CASE Operator \/ Control \/ UNCHANGED vars
    <2>1. UNCHANGED <<pc, runLock>>
      <3>1. CASE Operator
        BY <3>1, Zenon DEF Operator, ReleaseOption, ChangePromote,
           ChangeResume, ChangeRetry, OnlyChange, ChangePause, QueueCI,
           Interrupt, ResolveBlocker, requestCancellation, ResumeTask,
           ControlGivesUp, CommandFails, ExternalMove, Interrupted,
           RecoverStart, outside, processes, schedVars, locks
      <3> QED BY <1>4, <3>1, ControlFrame
              DEF vars, outside, processes, schedVars, locks
    <2> QED BY <1>1, <2>1
  <1>5. ASSUME NEW s \in Scheds, Activity(s) PROVE LockHeld'
    <2>1. CASE EndStep(s) /\ pc' = [pc EXCEPT ![s] = "off"]
      BY <1>2, <1>5, <2>1, ActivityLock
    <2>2. CASE UNCHANGED runLock
      BY <1>3, <1>5, <2>2, ActivityLock, ActivityMoves
    <2> QED BY <1>5, <2>1, <2>2, ActivityLock
  <1>6. ASSUME NEW s \in Scheds, SchedStart(s) PROVE LockHeld'
    <2>1. \A t \in Scheds : pc[t] = "off"
      BY <1>6, SchedNames DEF SchedStart, LockHeld
    <2>2. \/ UNCHANGED pc
          \/ runLock' = s /\ pc' = [pc EXCEPT ![s] = "idle"]
      BY <1>6 DEF SchedStart, Goto
    <2> QED BY <1>0, <2>1, <2>2 DEF LockHeld
  <1>7. ASSUME NEW s \in Scheds, Crash(s) \/ SchedStop(s) \/ IdleFails(s)
        PROVE  LockHeld'
    BY <1>2, <1>7 DEF Crash, SchedStop, IdleFails, Stopped
  <1>8. ASSUME NEW s \in Scheds, NextRequest(s) \/ NextChange(s)
        PROVE  LockHeld'
    <2>1. pc[s] = "idle" /\ UNCHANGED runLock
      BY <1>8, Zenon DEF NextRequest, NextChange, NextEnabled, locks
    <2> QED BY <1>3, <1>8, <2>1, ScheduleMoves DEF Schedule
  <1>9. ~Recovery /\ ~RecoverFails /\ ~RecoverCrash
    <2>1. ASSUME NEW k, NEW a, RecoverAttempt(k, a) PROVE FALSE
      BY <2>1, Zenon DEF RecoverAttempt
    <2>2. ~RecoverJournal
      BY RecoverJournalFrame
    <2> QED BY <2>1, <2>2 DEF Recovery, RecoverRefused, RecoverSteal,
         RecoverTerminate, RecoverLeases, RecoverResolve, RecoverUnlock,
         RecoverDone, RecoverFails, RecoverCrash
  <1> QED BY <1>4, <1>5, <1>6, <1>7, <1>8, <1>9 DEF Next, Schedule

\* As long as nobody recovers, every live scheduler has run.lock, and so at
\* most one is alive (a recovery removes the lock whoever made it).
THEOREM LockIsHeld ==
    ASSUME "recover" \notin Commands
    PROVE  Spec => [](LockHeld /\ OneAlive)
  <1>1. Init => LockHeld /\ RecoveryCommanded
    BY DEF Init, LockHeld, RecoveryCommanded, NoRecovery
  <1>2. Typed /\ LockHeld /\ RecoveryCommanded /\ [Next]_vars =>
           LockHeld' /\ RecoveryCommanded'
    <2>1. RecoveryCommanded => rec.at = "off"
      BY DEF RecoveryCommanded
    <2> QED BY <2>1, NextLockHeld, NextCommanded
  <1>3. LockHeld => OneAlive
    BY DEF LockHeld, OneAlive
  <1> QED BY <1>1, <1>2, <1>3, TypedInvariant, PTL DEF Spec

-----------------------------------------------------------------------------
(* Fail-stop errors.                                                       *)

\* An activity only leaves through the end of its step.
LEMMA ActivityLeaves ==
    ASSUME Typed, NEW s \in Scheds, Activity(s), pc'[s] \in {"off", "idle"}
    PROVE  EndStep(s)
  <1>0. pc \in [Scheds -> Labels] /\ pc[s] \notin {"off", "idle"}
    BY ActivityAt DEF Typed, TypeOK, SchedulersOK, Executing
  <1>1. ~Returns(s) /\ \A code : ~Fails(s, code)
    BY <1>0 DEF Returns, Fails
  <1>2. ASSUME NEW how, NEW result, NEW a PROVE ~Complete(s, how, result, a)
    BY <1>1, CompleteFrame
  <1>3. ASSUME NEW outcome, NEW code PROVE ~FinishCI(s, outcome, code)
    BY <1>1, FinishCIFrame
  <1>4. ~EndPromotion(s) /\ ~ApplyPromotion(s)
    BY <1>1, EndPromotionFrame, ApplyFrame
  <1>5. /\ ~ResolveRefFails(s) /\ ~Refused(s) /\ ~StorageFails(s)
        /\ ~PromoteBusy(s) /\ ~EvidenceChanged(s) /\ ~ConstructFails(s)
        /\ ~PreparePromotionFails(s) /\ ~CASFails(s) /\ ~CASUnexplained(s)
    BY <1>1 DEF ResolveRefFails, Refused, StorageFails, PromoteBusy,
       EvidenceChanged, ConstructFails, PreparePromotionFails, CASFails,
       CASUnexplained
  <1>6. /\ ~ResolveRef(s) /\ ~Materialize(s) /\ ~PromoteStart(s)
        /\ ~Construct(s) /\ ~MarkCIRunning(s)
    BY <1>0, <1>1
    DEF ResolveRef, Materialize, PromoteStart, Construct, MarkCIRunning, Goto
  <1>7. /\ ~\E k \in Attempts : PrepareAttempt(s, k)
        /\ ~\E r \in CIRuns : PrepareCI(s, r)
        /\ ~\E j \in Journals : PreparePromotion(s, j)
        /\ ~CAS(s) /\ ~CASRejected(s) /\ ~CASConflict(s)
        /\ ~FailedStep(s) /\ ~PauseOnSignal(s)
    BY <1>0 DEF PrepareAttempt, PrepareCI, PreparePromotion, CAS,
       CASRejected, CASConflict, FailedStep, PauseOnSignal, Goto
  <1>8. ~OpenLogs(s)
    BY <1>0 DEF OpenLogs, outside, processes, schedVars
  <1> QED BY <1>2, <1>3, <1>4, <1>5, <1>6, <1>7, <1>8 DEF Activity

\* A scheduler's activity, identifier and error are its own.
LEMMA OwnSteps ==
    ASSUME Typed, [Next]_vars, NEW s \in Scheds
    PROVE  \/ pc'[s] = pc[s] /\ act'[s] = act[s] /\ err'[s] = err[s]
           \/ SchedStart(s) \/ Crash(s) \/ Schedule(s) \/ Activity(s)
  <1>0. /\ pc \in [Scheds -> Labels] /\ act \in [Scheds -> Nat]
        /\ err \in [Scheds -> Codes]
    BY DEF Typed, TypeOK, SchedulersOK
  <1>1. CASE Operator \/ Control \/ Recovery \/ RecoverFails \/ RecoverCrash
             \/ UNCHANGED vars
    <2>1. UNCHANGED err
      <3>1. CASE Operator
        BY <3>1, Zenon DEF Operator, ReleaseOption, ChangePromote,
           ChangeResume, ChangeRetry, OnlyChange, ChangePause, QueueCI,
           Interrupt, ResolveBlocker, requestCancellation, ResumeTask,
           ControlGivesUp, CommandFails, ExternalMove, Interrupted,
           RecoverStart, outside, processes, schedVars
      <3> QED BY <1>1, <3>1, ControlFrame, RecoveryFrame
              DEF schedVars, vars, outside, processes
    <2>2. UNCHANGED <<pc, act>>
      BY <1>1, OperatorFrame, ControlFrame, RecoveryFrame
      DEF schedVars, vars, outside, processes
    <2> QED BY <2>1, <2>2
  <1>2. ASSUME NEW t \in Scheds, t # s,
               \/ UNCHANGED pc \/ \E x : pc' = [pc EXCEPT ![t] = x],
               \/ UNCHANGED act \/ \E x : act' = [act EXCEPT ![t] = x],
               \/ UNCHANGED err \/ \E x : err' = [err EXCEPT ![t] = x]
        PROVE  pc'[s] = pc[s] /\ act'[s] = act[s] /\ err'[s] = err[s]
    BY <1>0, <1>2
  <1>3. ASSUME NEW t \in Scheds, Activity(t)
        PROVE  /\ \/ UNCHANGED act \/ \E x : act' = [act EXCEPT ![t] = x]
               /\ \/ UNCHANGED err \/ \E x : err' = [err EXCEPT ![t] = x]
    <2>0. ASSUME Returns(t) \/ \E code : Fails(t, code)
          PROVE  \E x : err' = [err EXCEPT ![t] = x]
      BY <2>0 DEF Returns, Fails
    <2>1. ASSUME NEW how, NEW result, NEW a, Complete(t, how, result, a)
          PROVE  UNCHANGED act /\ \E x : err' = [err EXCEPT ![t] = x]
      BY <2>0, <2>1, CompleteFrame
    <2>2. ASSUME NEW outcome, NEW code, FinishCI(t, outcome, code)
          PROVE  UNCHANGED act /\ \E x : err' = [err EXCEPT ![t] = x]
      BY <2>0, <2>2, FinishCIFrame
    <2>3. CASE EndPromotion(t) \/ ApplyPromotion(t)
      BY <2>0, <2>3, EndPromotionFrame, ApplyFrame
    <2>4. CASE \/ ResolveRefFails(t) \/ Refused(t) \/ StorageFails(t)
               \/ PromoteBusy(t) \/ EvidenceChanged(t) \/ ConstructFails(t)
               \/ PreparePromotionFails(t) \/ CASFails(t) \/ CASUnexplained(t)
      <3>1. UNCHANGED act /\ (Returns(t) \/ \E code : Fails(t, code))
        BY <2>4 DEF ResolveRefFails, Refused, StorageFails, PromoteBusy,
           EvidenceChanged, ConstructFails, PreparePromotionFails, CASFails,
           CASUnexplained
      <3> QED BY <2>0, <3>1
    <2>5. CASE MarkCIRunning(t) \/ PromoteStart(t)
      <3>1. /\ UNCHANGED act
            /\ UNCHANGED err \/ \E code : Fails(t, code)
        BY <2>5 DEF MarkCIRunning, PromoteStart
      <3> QED BY <2>0, <3>1
    <2>6. CASE \/ ResolveRef(t) \/ Materialize(t) \/ OpenLogs(t)
               \/ Construct(t) \/ CAS(t) \/ CASRejected(t) \/ CASConflict(t)
      BY <2>6 DEF ResolveRef, Materialize, OpenLogs, Construct, CAS,
         CASRejected, CASConflict, outside, processes, schedVars
    <2>7. CASE \/ \E k \in Attempts : PrepareAttempt(t, k)
               \/ \E r \in CIRuns : PrepareCI(t, r)
               \/ \E j \in Journals : PreparePromotion(t, j)
      BY <2>7 DEF PrepareAttempt, PrepareCI, PreparePromotion
    <2>8. CASE FailedStep(t) \/ PauseOnSignal(t)
      BY <2>8 DEF FailedStep, PauseOnSignal
    <2>9. CASE EndStep(t)
      BY <2>9 DEF EndStep, GoesOn, Stopped
    <2> QED BY <1>3, <2>1, <2>2, <2>3, <2>4, <2>5, <2>6, <2>7, <2>8, <2>9
            DEF Activity
  <1>4. ASSUME NEW t \in Scheds, SchedStart(t) \/ Crash(t) \/ Schedule(t)
        PROVE  /\ \/ UNCHANGED act \/ \E x : act' = [act EXCEPT ![t] = x]
               /\ \/ UNCHANGED err \/ \E x : err' = [err EXCEPT ![t] = x]
    <2>1. CASE SchedStart(t) \/ NextRequest(t) \/ NextChange(t)
      <3>1. UNCHANGED <<act, err>>
        BY <2>1, Zenon DEF SchedStart, NextRequest, NextChange
      <3> QED BY <3>1
    <2>2. CASE Crash(t) \/ SchedStop(t) \/ IdleFails(t)
      BY <2>2 DEF Crash, SchedStop, IdleFails, Stopped
    <2> QED BY <1>4, <2>1, <2>2 DEF Schedule
  <1>5. ASSUME NEW t \in Scheds, t # s,
               SchedStart(t) \/ Crash(t) \/ Schedule(t) \/ Activity(t)
        PROVE  pc'[s] = pc[s] /\ act'[s] = act[s] /\ err'[s] = err[s]
    <2>1. \E x : pc' = [pc EXCEPT ![t] = x]
      BY <1>5, ActivityMoves, ScheduleMoves
    <2> QED BY <1>2, <1>3, <1>4, <1>5, <2>1
  <1> QED BY <1>1, <1>5 DEF Next

\* A scheduler that is at rest has no error.
Calm == \A s \in Scheds : pc[s] \in {"off", "idle"} => err[s] = "OK"
\* Calm is inductive.
LEMMA NextCalm ==
    ASSUME Typed, Calm, [Next]_vars
    PROVE  Calm'
  <1> SUFFICES ASSUME NEW s \in Scheds, pc'[s] \in {"off", "idle"}
               PROVE  err'[s] = "OK"
    BY DEF Calm
  <1>0. pc \in [Scheds -> Labels] /\ err \in [Scheds -> Codes]
    BY DEF Typed, TypeOK, SchedulersOK
  <1>1. CASE pc'[s] = pc[s] /\ err'[s] = err[s]
    BY <1>1 DEF Calm
  <1>2. CASE SchedStart(s) \/ NextRequest(s) \/ NextChange(s)
    <2>1. pc[s] \in {"off", "idle"} /\ UNCHANGED err
      BY <1>2, Zenon DEF SchedStart, NextRequest, NextChange, NextEnabled
    <2> QED BY <2>1 DEF Calm
  <1>3. CASE Crash(s) \/ SchedStop(s) \/ IdleFails(s)
    BY <1>0, <1>3 DEF Crash, SchedStop, IdleFails, Stopped
  <1>4. CASE Activity(s)
    BY <1>0, <1>4, ActivityLeaves DEF EndStep, GoesOn, Stopped
  <1> QED BY <1>1, <1>2, <1>3, <1>4, OwnSteps DEF Schedule

\* A process that stops with a fail-stop error still had run.lock: either its
\* blocker could be written or the lock stays.
LEMMA FailStopStays ==
    ASSUME Typed, LockHeld, Calm, [Next]_vars, NEW s \in Scheds,
           err[s] \in FailStopCodes, pc'[s] = "off"
    PROVE  "GLOBAL" \in blockers' \/ runLock' = "stale"
  <1>0. pc[s] \notin {"off", "idle"} /\ runLock = s
    BY DEF Calm, FailStopCodes, LockHeld
  <1>1. CASE Crash(s)
    BY <1>0, <1>1 DEF Crash, KeepsLock
  <1>2. CASE Activity(s)
    <2>1. EndStep(s)
      BY <1>2, ActivityLeaves
    <2>2. ~GoesOn(s)
      BY DEF GoesOn, Typed, TypeOK, SchedulersOK
    <2>3. FailStopLock(s)
      BY <2>1, <2>2 DEF EndStep
    <2> QED BY <1>0, <2>3 DEF FailStopLock, KeepsLock
  <1>3. ~SchedStart(s) /\ ~Schedule(s)
    BY <1>0, Zenon DEF SchedStart, Schedule, SchedStop, IdleFails,
       NextRequest, NextChange, NextEnabled
  <1> QED BY <1>0, <1>1, <1>2, <1>3, OwnSteps

\* As long as nobody recovers, a process that stops after a fail-stop error
\* leaves a GLOBAL blocker or run.lock behind, so the next one does not go on.
THEOREM StopIsDurable ==
    ASSUME "recover" \notin Commands
    PROVE  Spec => FailStopIsDurable
  <1>1. Init => Calm
    BY DEF Init, Calm
  <1>2. Typed /\ Calm /\ [Next]_vars => Calm'
    BY NextCalm
  <1>3. Typed /\ LockHeld /\ Calm /\ [Next]_vars =>
           [\A s \in Scheds :
               err[s] \in FailStopCodes /\ pc'[s] = "off" =>
                  "GLOBAL" \in blockers' \/ runLock' = "stale"]_vars
    BY FailStopStays
  <1>4. Spec => []LockHeld
    <2>1. Spec => [](LockHeld /\ OneAlive)
      BY LockIsHeld
    <2> QED BY <2>1, PTL
  <1> QED BY <1>1, <1>2, <1>3, <1>4, TypedInvariant, PTL
          DEF Spec, FailStopIsDurable

-----------------------------------------------------------------------------
(* An Attempt that is left ACTIVE.                                         *)

\* Where an Attempt runs.
AtWork == {"context", "working", "starved"}
\* Besides an ACTIVE Attempt, a process that is alive has it at work or is on
\* its way out after a fail-stop error.
Beside(k, s) ==
    \/ pc[s] = "off"
    \/ pc[s] \in AtWork /\ act[s] = k
    \/ pc[s] \in {"failed", "unwind", "release"} /\ err[s] \in FailStopCodes
BesideAttempt == \A k \in ActiveAttempts, s \in Scheds : Beside(k, s)

\* It becomes ACTIVE when its own scheduler, and nobody else, is alive.
LEMMA BesideNew ==
    ASSUME Typed, OneAlive, NEW t \in Scheds, NEW k \in Attempts,
           PrepareAttempt(t, k), NEW s \in Scheds
    PROVE  Beside(k, s)'
  <1>0. pc \in [Scheds -> Labels] /\ act \in [Scheds -> Nat]
    BY DEF Typed, TypeOK, SchedulersOK
  <1>1. /\ pc[t] = "prepare"
        /\ pc' = [pc EXCEPT ![t] = "context"]
        /\ act' = [act EXCEPT ![t] = k]
    BY DEF PrepareAttempt, Goto
  <1>2. CASE s = t
    BY <1>0, <1>1, <1>2 DEF Beside, AtWork
  <1>3. CASE s # t
    <2>1. pc[s] = "off"
      BY <1>1, <1>3 DEF OneAlive
    <2> QED BY <1>0, <1>1, <1>3, <2>1 DEF Beside
  <1> QED BY <1>2, <1>3

\* Its activity settles it or fails to.
LEMMA BesideActivity ==
    ASSUME Typed, NEW s \in Scheds, Activity(s), NEW k \in Attempts,
           Beside(k, s), attempt'[k].status = "ACTIVE"
    PROVE  Beside(k, s)'
  <1>0. /\ pc \in [Scheds -> Labels] /\ act \in [Scheds -> Nat]
        /\ err \in [Scheds -> Codes] /\ attempt \in [Attempts -> AttemptRecord]
    BY DEF Typed, TypeOK, SchedulersOK, DocumentOK
  <1>1. CASE pc[s] \in AtWork /\ act[s] = k
    <2>1. ASSUME NEW how, NEW result, NEW a, Complete(s, how, result, a)
          PROVE  FALSE
      <3>1. attempt' = [attempt EXCEPT ![k].status = "ENDED"]
        BY <1>1, <2>1, CompleteFrame
      <3> QED BY <1>0, <3>1 DEF AttemptRecord
    <2>2. CASE Materialize(s)
      <3>1. /\ pc'[s] \in {"working", "starved"} /\ UNCHANGED act
        BY <1>0, <2>2 DEF Materialize, Goto
      <3> QED BY <1>1, <3>1 DEF Beside, AtWork
    <2>3. CASE StorageFails(s)
      <3>1. pc'[s] = "failed" /\ err'[s] = "STORAGE_FAILURE"
        BY <1>0, <1>1, <2>3 DEF StorageFails, Fails, AtWork
      <3> QED BY <3>1 DEF Beside, FailStopCodes
    <2> QED BY <1>1, <2>1, <2>2, <2>3
            DEF Activity, AtWork, ResolveRef, ResolveRefFails, EndPromotion,
                Refused, PrepareAttempt, PrepareCI, OpenLogs, MarkCIRunning,
                FinishCI, PromoteBusy, PromoteStart, EvidenceChanged,
                Construct, ConstructFails, PreparePromotion,
                PreparePromotionFails, CAS, CASFails, CASRejected,
                CASConflict, CASUnexplained, ApplyPromotion, FailedStep,
                PauseOnSignal, EndStep, Unwound
  <1>2. CASE /\ pc[s] \in {"failed", "unwind", "release"}
             /\ err[s] \in FailStopCodes
    <2>1. FailedStep(s) \/ PauseOnSignal(s) \/ EndStep(s)
      BY <1>2, ActivityAt DEF Executing
    <2>2. CASE FailedStep(s)
      <3>1. pc'[s] = "unwind" /\ err'[s] \in {err[s], "STORAGE_FAILURE"}
        BY <1>0, <2>2 DEF FailedStep, Goto
      <3> QED BY <1>2, <3>1 DEF Beside, FailStopCodes
    <2>3. CASE PauseOnSignal(s)
      <3>1. pc'[s] = "release" /\ err'[s] = err[s]
        BY <1>0, <1>2, <2>3
        DEF PauseOnSignal, Goto, Worsened, FailStopCodes
      <3> QED BY <1>2, <3>1 DEF Beside
    <2>4. CASE EndStep(s)
      <3>1. Worsened(s) = err[s] /\ err[s] \notin Tolerated
        BY <1>2 DEF Worsened, FailStopCodes, Tolerated
      <3>2. Stopped(s)
        BY <2>4, <3>1 DEF EndStep
      <3> QED BY <1>0, <3>2 DEF Stopped, Beside
    <2> QED BY <2>1, <2>2, <2>3, <2>4
  <1>3. CASE pc[s] = "off"
    BY <1>3, ActivityAt DEF Executing
  <1> QED BY <1>1, <1>2, <1>3 DEF Beside

\* BesideAttempt is inductive while at most one scheduler is alive.
LEMMA NextBeside ==
    ASSUME Typed, OneAlive, BesideAttempt, [Next]_vars
    PROVE  BesideAttempt'
  <1> SUFFICES ASSUME NEW k \in Attempts, attempt'[k].status = "ACTIVE",
                      NEW s \in Scheds
               PROVE  Beside(k, s)'
    BY DEF BesideAttempt, ActiveAttempts
  <1>0. pc \in [Scheds -> Labels] /\ attempt \in [Attempts -> AttemptRecord]
    BY DEF Typed, TypeOK, SchedulersOK, DocumentOK
  <1>1. CASE \E t \in Scheds : PrepareAttempt(t, k)
    BY <1>1, BesideNew
  <1>2. CASE attempt'[k] = [attempt[k] EXCEPT !.status = "ENDED"]
    BY <1>0, <1>2 DEF AttemptRecord
  <1>3. CASE attempt'[k] = attempt[k]
    <2>1. k \in ActiveAttempts /\ Beside(k, s)
      BY <1>3 DEF ActiveAttempts, BesideAttempt
    <2>2. CASE pc'[s] = pc[s] /\ act'[s] = act[s] /\ err'[s] = err[s]
      BY <2>1, <2>2 DEF Beside
    <2>3. CASE Activity(s)
      BY <2>1, <2>3, BesideActivity
    <2>4. CASE Crash(s)
      BY <1>0, <2>4 DEF Crash, Stopped, Beside
    <2>5. CASE SchedStart(s)
      <3>1. NeedsRecovery
        BY <2>1 DEF NeedsRecovery
      <3>2. pc[s] = "off" /\ UNCHANGED pc
        BY <2>5, <3>1 DEF SchedStart
      <3> QED BY <3>2 DEF Beside
    <2>6. ~Schedule(s)
      <3>1. pc[s] # "idle"
        BY <2>1 DEF Beside, AtWork
      <3> QED BY <3>1, Zenon DEF Schedule, SchedStop, IdleFails, NextRequest,
              NextChange, NextEnabled
    <2> QED BY <2>2, <2>3, <2>4, <2>5, <2>6, OwnSteps
  <1> QED BY <1>1, <1>2, <1>3, AttemptWrites

\* As long as nobody recovers, an Attempt that is left ACTIVE, by a process
\* that was killed or failed to settle it, keeps every scheduler from
\* executing anything else.
THEOREM NothingBeside ==
    ASSUME "recover" \notin Commands
    PROVE  Spec => []NothingBesideAttempt
  <1>1. Init => BesideAttempt
    BY DEF Init, BesideAttempt, ActiveAttempts, NoAttempt
  <1>2. Typed /\ OneAlive /\ BesideAttempt /\ [Next]_vars => BesideAttempt'
    BY NextBeside
  <1>3. BesideAttempt => NothingBesideAttempt
    BY DEF BesideAttempt, NothingBesideAttempt, Beside, AtWork, Executing
  <1>4. Spec => []OneAlive
    <2>1. Spec => [](LockHeld /\ OneAlive)
      BY LockIsHeld
    <2> QED BY <2>1, PTL
  <1> QED BY <1>1, <1>2, <1>3, <1>4, TypedInvariant, PTL DEF Spec

-----------------------------------------------------------------------------
(* A RUNNING Change and the activity in the slot.                          *)

Running(c) == change[c].state = "RUNNING"
\* The slot has the activity of c, be its process alive or not.
Pending(c) ==
    /\ slot.owner \in Scheds \cup {"dead"}
    /\ slot.task /\ pending.change = c
\* A step that starts no Change, and takes no slot from one that it leaves
\* RUNNING.
NoStart == \A c \in Changes : Running(c)' => Running(c)
PendingStep ==
    \A c \in Changes : Running(c)' => Running(c) /\ (Pending(c) => Pending(c)')

\* The step leaves the slot alone,
LEMMA SlotKept ==
    ASSUME NoStart, UNCHANGED slot, slot.task => UNCHANGED pending
    PROVE  PendingStep
  BY DEF NoStart, PendingStep, Pending
\* or finds it without an activity,
LEMMA SlotEmpty ==
    ASSUME NoStart, slot.owner \notin Scheds \cup {"dead"}
    PROVE  PendingStep
  BY DEF NoStart, PendingStep, Pending
\* or moves the Change on that had it,
LEMMA SlotGivenBack ==
    ASSUME NoStart,
           \A c \in Changes : slot.task /\ pending.change = c => ~Running(c)'
    PROVE  PendingStep
  BY DEF NoStart, PendingStep, Pending
\* or is the end of a process that does not give its slot back.
LEMMA SlotLeft ==
    ASSUME NEW s \in Scheds, KeepsSlot(s)
    PROVE  PendingStep
  <1>1. \/ UNCHANGED slot
        \/ slot' = [slot EXCEPT !.owner = "dead"] /\ slot.owner = s
    BY DEF KeepsSlot
  <1>2. UNCHANGED <<change, pending>>
    BY DEF KeepsSlot
  <1>3. CASE UNCHANGED slot
    BY <1>2, <1>3 DEF PendingStep, Pending, Running
  <1>4. CASE slot' = [slot EXCEPT !.owner = "dead"] /\ slot.owner = s
    BY <1>2, <1>4 DEF PendingStep, Pending, Running
  <1> QED BY <1>1, <1>3, <1>4

\* A step that leaves the Changes alone starts none.
LEMMA UnchangedNoStart == UNCHANGED change => NoStart
  BY DEF NoStart, Running
\* Nor does one that moves a Change elsewhere.
LEMMA UpdateNoStart ==
    ASSUME Typed, NEW c, NEW ch, change' = [change EXCEPT ![c] = ch],
           c \in Changes => (ch.state = "RUNNING" => Running(c))
    PROVE  NoStart
  <1>1. ASSUME NEW d \in Changes, change'[d].state = "RUNNING"
        PROVE  change[d].state = "RUNNING"
    <2>1. CASE d = c
      BY <1>1, <2>1, ChangeTable DEF Running
    <2>2. CASE d # c
      BY <1>1, <2>2, ChangeTable
    <2> QED BY <2>1, <2>2
  <1> QED BY <1>1 DEF NoStart, Running
\* Pausing every Change starts none.
LEMMA PausedAllNoStart ==
    ASSUME Typed, change' = PausedAll
    PROVE  NoStart
  <1>1. ASSUME NEW c \in Changes, change'[c].state = "RUNNING"
        PROVE  change[c].state = "RUNNING"
    <2>1. \/ change'[c] = change[c]
          \/ change'[c] = Set(change[c], change[c].stage, "PAUSED")
      BY DEF PausedAll
    <2> QED BY <1>1, <2>1, ChangeTable, SetFields
  <1> QED BY <1>1 DEF NoStart, Running

\* release, after other writes, requeues the Change that had the slot.
LEMMA ReleasePending ==
    ASSUME NEW chs \in [Changes -> ChangeRecord], release(chs),
           \A c \in Changes : chs[c].state = "RUNNING" => Running(c)
    PROVE  PendingStep
  <1>1. ASSUME NEW c \in Changes
        PROVE  \/ Released(chs)[c] = chs[c]
               \/ Released(chs)[c] = [chs[c] EXCEPT !.state = "QUEUED"]
    BY DEF Released
  <1>2. ASSUME NEW c \in Changes, slot.task, pending.change = c,
               chs[c].state = "RUNNING"
        PROVE  Released(chs)[c] = [chs[c] EXCEPT !.state = "QUEUED"]
    BY <1>2 DEF Released, Changes, None
  <1>3. ASSUME NEW c \in Changes
        PROVE  [chs[c] EXCEPT !.state = "QUEUED"].state = "QUEUED"
    BY StateFields
  <1>4. change' = Released(chs)
    BY DEF release
  <1>5. NoStart
    BY <1>1, <1>3, <1>4 DEF NoStart, Running
  <1>6. \A c \in Changes : slot.task /\ pending.change = c => ~Running(c)'
    BY <1>1, <1>2, <1>3, <1>4 DEF Running
  <1> QED BY <1>5, <1>6, SlotGivenBack
\* So does Release.
LEMMA OnlyReleasePending ==
    ASSUME Typed, NEW who, Release(change, who)
    PROVE  PendingStep
  <1>1. CASE release(change)
    BY <1>1, ChangeTable, ReleasePending DEF Running
  <1>2. CASE UNCHANGED <<change, activity>>
    BY <1>2, UnchangedNoStart, SlotKept DEF activity
  <1> QED BY <1>1, <1>2 DEF Release

\* Commands.
LEMMA OperatorPending ==
    ASSUME Typed, Operator
    PROVE  PendingStep
  <1>0. slot.task => UNCHANGED pending
    BY Zenon DEF Operator, ReleaseOption, ChangePromote, ChangeResume,
       ChangeRetry, OnlyChange, ChangePause, QueueCI, Interrupt,
       ResolveBlocker, requestCancellation, ResumeTask, ControlGivesUp,
       CommandFails, ExternalMove, Interrupted, RecoverStart, document,
       activity
  <1> SUFFICES NoStart
    BY <1>0, OperatorFrame, SlotKept
  <1>1. CASE \E c \in Changes : ReleaseOption(c) \/ ChangePromote(c)
    BY <1>1, ReleaseOptionWrites, ChangePromoteWrites DEF NoStart, Running
  <1>2. ASSUME NEW c \in Changes, ChangeResume(c) PROVE NoStart
    <2> DEFINE ch == Set(change[c], change[c].stage, "QUEUED")
               n == [ch EXCEPT !.resetAt = RunsOf(c)]
    <2>1. ch \in ChangeRecord
      BY ChangeTable, KeepStage DEF States
    <2>2. ch.state = "QUEUED"
      BY ChangeTable, SetFields
    <2>3. n.state = "QUEUED"
      <3> HIDE DEF ch
      <3> QED BY <2>1, <2>2, ResetFields
    <2>4. change' = [change EXCEPT ![c] = n]
      BY <1>2 DEF ChangeResume
    <2> HIDE DEF n
    <2> QED BY <2>3, <2>4, UpdateNoStart
  <1>3. ASSUME NEW c \in Changes, NEW stage \in {"CI", "REVIEW", "MUTATION"},
               ChangeRetry(c, stage)
        PROVE  NoStart
    <2> DEFINE ch == Set(change[c], stage, "QUEUED")
               r == IF stage = "REVIEW" THEN latestCI[change[c].artifact]
                                        ELSE change[c].ci
               n == [ch EXCEPT !.ci = r, !.review = None,
                               !.resetAt = RunsOf(c)]
    <2>1. ch \in ChangeRecord
      BY ChangeTable, SetType DEF Stages, States
    <2>2. ch.state = "QUEUED"
      BY ChangeTable, SetFields
    <2>3. n.state = "QUEUED"
      <3> HIDE DEF ch, r
      <3> QED BY <2>1, <2>2, RetryFields
    <2>4. change' = [change EXCEPT ![c] = n]
      BY <1>3 DEF ChangeRetry
    <2> HIDE DEF n
    <2> QED BY <2>3, <2>4, UpdateNoStart
  <1>4. ASSUME NEW c \in Changes, NEW state \in {"PAUSED", "ABORTED"},
               ChangePause(c, state)
        PROVE  NoStart
    <2> DEFINE ch == Set(change[c], change[c].stage, state)
    <2>1. ch.state = state
      BY ChangeTable, SetFields
    <2>2. change' = [change EXCEPT ![c] = ch]
      BY <1>4 DEF ChangePause
    <2> HIDE DEF ch
    <2> QED BY <2>1, <2>2, UpdateNoStart
  <1>5. ASSUME NEW op, requestCancellation(op) PROVE NoStart
    BY <1>5, PausedAllNoStart DEF requestCancellation
  <1>6. CASE \/ \E a \in Artifacts, r \in CIRuns : QueueCI(a, r)
             \/ \E k \in Attempts : Interrupt(k)
             \/ \E b \in Scopes : ResolveBlocker(b)
             \/ ResumeTask \/ ControlGivesUp \/ CommandFails
             \/ \E new \in Commits : ExternalMove(new)
             \/ \E s \in Scheds : Interrupted(s)
             \/ RecoverStart
    <2>1. UNCHANGED change
      BY <1>6 DEF QueueCI, Interrupt, ResolveBlocker, ResumeTask,
         ControlGivesUp, CommandFails, ExternalMove, Interrupted,
         RecoverStart, document
    <2> QED BY <2>1, UnchangedNoStart
  <1> QED BY <1>1, <1>2, <1>3, <1>4, <1>5, <1>6 DEF Operator

\* Commands that waited.
LEMMA ControlPending ==
    ASSUME Typed, CancelSeen, Control
    PROVE  PendingStep
  <1>0. slot.task => UNCHANGED pending
    BY DEF Control, ChangeSettled, CancellationSettles, finishLifecycle, LifecycleRefused,
       finishResume, CancelSeen, document, activity
  <1> SUFFICES NoStart
    BY <1>0, ControlFrame, SlotKept
  <1>1. CASE finishResume
    <2>1. ASSUME NEW c \in Changes, change'[c].state = "RUNNING"
          PROVE  change[c].state = "RUNNING"
      <3>1. \/ change'[c] = change[c]
            \/ change'[c] = Set(change[c], change[c].stage, "STALE")
        BY <1>1 DEF finishResume
      <3> QED BY <2>1, <3>1, ChangeTable, SetFields
    <2> QED BY <2>1 DEF NoStart, Running
  <1>2. CASE ChangeSettled \/ CancellationSettles \/ finishLifecycle \/ LifecycleRefused
    <2>1. UNCHANGED change \/ change' = PausedAll
      BY <1>2 DEF ChangeSettled, CancellationSettles, finishLifecycle, LifecycleRefused, document
    <2> QED BY <2>1, UnchangedNoStart, PausedAllNoStart
  <1> QED BY <1>1, <1>2 DEF Control

\* Whoever executes has the slot, for its own step.
LEMMA HasSlot ==
    ASSUME Exclusive, NEW s \in Scheds, pc[s] \in Executing
    PROVE  slot = [owner |-> s, task |-> TRUE] /\ pending = step[s]
  BY DEF Exclusive

\* An activity that goes on.
LEMMA GoingPending ==
    ASSUME Typed, NEW s \in Scheds,
           \/ ResolveRef(s) \/ ResolveRefFails(s) \/ Refused(s)
           \/ Materialize(s) \/ StorageFails(s) \/ OpenLogs(s)
           \/ MarkCIRunning(s) \/ PromoteBusy(s) \/ PromoteStart(s)
           \/ Construct(s) \/ ConstructFails(s)
           \/ \E j \in Journals : PreparePromotion(s, j)
           \/ PreparePromotionFails(s)
           \/ CAS(s) \/ CASFails(s) \/ CASRejected(s) \/ CASConflict(s)
           \/ CASUnexplained(s)
           \/ \E k \in Attempts : PrepareAttempt(s, k)
           \/ \E r \in CIRuns : PrepareCI(s, r)
           \/ EvidenceChanged(s)
    PROVE  PendingStep
  <1> DEFINE c == step[s].change
  <1>0. UNCHANGED activity
    BY DEF ResolveRef, ResolveRefFails, Refused, Materialize, StorageFails,
       OpenLogs, MarkCIRunning, PromoteBusy, PromoteStart, Construct,
       ConstructFails, PreparePromotion, PreparePromotionFails, CAS, CASFails,
       CASRejected, CASConflict, CASUnexplained, PrepareAttempt, PrepareCI,
       EvidenceChanged, document
  <1> SUFFICES NoStart
    BY <1>0, SlotKept DEF activity
  <1>1. ASSUME NEW k \in Attempts, PrepareAttempt(s, k) PROVE NoStart
    <2> DEFINE ch == [change[c] EXCEPT !.review = k]
    <2>1. change' = change \/ change' = [change EXCEPT ![c] = ch]
      BY <1>1 DEF PrepareAttempt
    <2>2. c \in Changes => (ch.state = "RUNNING" => Running(c))
      BY ChangeTable, ReviewFields DEF Running
    <2> HIDE DEF c, ch
    <2> QED BY <2>1, <2>2, UpdateNoStart, UnchangedNoStart
  <1>2. ASSUME NEW r \in CIRuns, PrepareCI(s, r) PROVE NoStart
    <2> DEFINE ch == [change[c] EXCEPT !.ci = r, !.review = None]
    <2>1. \/ change' = change
          \/ change' = [change EXCEPT ![c].ci = r, ![c].review = None]
      BY <1>2 DEF PrepareCI
    <2>2. c \in Changes => [change EXCEPT ![c].ci = r, ![c].review = None]
                              = [change EXCEPT ![c] = ch]
      BY ChangeTable
    <2>3. c \in Changes => (ch.state = "RUNNING" => Running(c))
      BY ChangeTable, PreparedFields DEF Running
    <2>4. c \notin Changes =>
             [change EXCEPT ![c].ci = r, ![c].review = None] = change
      BY ChangeTable
    <2> HIDE DEF c, ch
    <2> QED BY <2>1, <2>2, <2>3, <2>4, UpdateNoStart, UnchangedNoStart
  <1>3. ASSUME EvidenceChanged(s) PROVE NoStart
    <2> DEFINE ch == Set(change[c], "REVIEW", "BLOCKED")
    <2>1. change' = change \/ change' = [change EXCEPT ![c] = ch]
      BY <1>3 DEF EvidenceChanged
    <2>2. c \in Changes => ch.state = "BLOCKED"
      BY ChangeTable, SetFields
    <2> HIDE DEF ch, c
    <2> QED BY <2>1, <2>2, UpdateNoStart, UnchangedNoStart
  <1> QED BY <1>1, <1>2, <1>3, QuietSteps, UnchangedNoStart

\* Its end moves the Change that has the slot, and no other.
LEMMA EndsPending ==
    ASSUME Typed, Exclusive, NEW s \in Scheds, pc[s] \in Executing,
           NEW ch, change' = [change EXCEPT ![step[s].change] = ch],
           step[s].change \in Changes => ch.state # "RUNNING"
    PROVE  PendingStep
  <1>1. NoStart
    BY UpdateNoStart
  <1>2. ASSUME NEW d \in Changes, slot.task, pending.change = d
        PROVE  change'[d].state # "RUNNING"
    BY <1>2, HasSlot, ChangeTable
  <1> QED BY <1>1, <1>2, SlotGivenBack DEF Running

\* Complete, with or without the Change.
LEMMA CompletePending ==
    ASSUME Typed, Exclusive, Named, Unfinished, NEW s \in Scheds,
           NEW how \in Endings, NEW result \in Verdicts,
           NEW a \in Artifacts \cup {None}, Complete(s, how, result, a)
    PROVE  PendingStep
  <1> DEFINE p == step[s]
             k == act[s]
             c == p.change
             stopped == how = "INTERRUPTED" \/ k \in interrupts \/ cancelled
             ch == IF a # None THEN Captured(change[c], a) ELSE change[c]
             paused == stopped \/ ch.state \in {"PAUSED", "ABORTED"}
             rv == [attempt |-> k, ci |-> ch.ci,
                    verdict |-> IF result = "APPROVE" THEN "APPROVE"
                                                      ELSE "REJECT"]
             rch == [ch EXCEPT !.review = k]
             moved ==
                 IF paused
                 THEN IF ch.state = "ABORTED" THEN ch
                      ELSE Set(ch, ch.stage, "PAUSED")
                 ELSE IF how \in Infrastructure THEN ch
                 ELSE IF how # "RETURNED" THEN Set(ch, ch.stage, "BLOCKED")
                 ELSE IF p.op = "mutation"
                 THEN IF a = None \/ result = "DROP_FINAL"
                      THEN Set(ch, "MUTATION", "BLOCKED")
                      ELSE IF result = "PROMOTE_FINAL"
                      THEN Set(ch, "CI", "QUEUED")
                      ELSE Set(ch, "MUTATION", "QUEUED")
                 ELSE IF PromotionEvidence(c, rch, rv)
                 THEN Set(rch, "AWAIT_PROMOTION", "QUEUED")
                 ELSE IF result = "REJECT_WITH_FINDINGS"
                 THEN Set(rch, "MUTATION", "QUEUED")
                 ELSE Set(rch, "REVIEW", "BLOCKED")
             chs == [change EXCEPT ![c] = moved]
  <1>0. pc[s] \in {"context", "working", "starved"}
    BY Zenon DEF Complete
  <1>1. /\ c \in Changes /\ change[c] \in ChangeRecord /\ k \in Attempts
    BY <1>0, StepChange DEF Typed, Shape, LocalsOK, Local, Executing
  <1>2. ch \in ChangeRecord /\ ch.state = change[c].state
    BY <1>1, CapturedType, CapturedFields
  <1>3. rch \in ChangeRecord
    <2> HIDE DEF ch, k
    <2> QED BY <1>1, <1>2, ReviewType
  <1>4. moved \in ChangeRecord /\ (moved = ch \/ moved.state # "RUNNING")
    <2> HIDE DEF ch, rch, rv, k, p, c, paused, PromotionEvidence
    <2>1. moved \in ChangeRecord
      BY <1>2, <1>3, SetType, KeepStage DEF Stages, States
    <2>2. moved = ch \/ moved.state # "RUNNING"
      BY <1>2, <1>3, SetFields
    <2> QED BY <2>1, <2>2
  <1>5. \/ ~paused /\ how \in Infrastructure /\ release(chs)
        \/ (paused \/ how \notin Infrastructure) /\ change' = chs
    BY Zenon DEF Complete
  <1>6. paused \/ how \notin Infrastructure => moved.state # "RUNNING"
    <2> HIDE DEF ch, rch, rv, k, p, c, PromotionEvidence
    <2> QED BY <1>2, <1>3, SetFields
  <1> HIDE DEF moved, paused
  <1>7. CASE change' = chs /\ moved.state # "RUNNING"
    BY <1>0, <1>7, EndsPending DEF Executing
  <1>8. CASE release(chs)
    <2>1. chs \in [Changes -> ChangeRecord]
      BY <1>4, ChangeTable, ChangeType
    <2>2. \A d \in Changes : chs[d].state = "RUNNING" => Running(d)
      <3> HIDE DEF c, ch
      <3> QED BY <1>1, <1>2, <1>4, ChangeTable DEF Running
    <2> HIDE DEF chs
    <2> QED BY <1>8, <2>1, <2>2, ReleasePending
  <1> QED BY <1>5, <1>6, <1>7, <1>8

\* FinishCI.
LEMMA FinishCIPending ==
    ASSUME Typed, Exclusive, NEW s \in Scheds,
           NEW outcome \in Outcomes, NEW code \in CIErrors,
           FinishCI(s, outcome, code)
    PROVE  PendingStep
  <1> DEFINE c == step[s].change
             ch == change[c]
             moved == IF ch.state = "ABORTED" THEN ch
                      ELSE IF ch.state = "PAUSED" \/ cancelled
                              \/ outcome = "TERMINATED"
                      THEN Set(ch, ch.stage, "PAUSED")
                      ELSE IF TimeoutStreak(c, run') >= 2
                      THEN Set(ch, "CI", "BLOCKED")
                      ELSE Set(ch, "REVIEW", "QUEUED")
  <1>1. \/ c = None /\ change' = change
        \/ c # None /\ change' = [change EXCEPT ![c] = moved]
    BY DEF FinishCI
  <1>2. pc[s] \in Executing
    BY Zenon DEF FinishCI, Executing
  <1>3. c \in Changes => moved.state # "RUNNING"
    <2> HIDE DEF c
    <2> QED BY ChangeTable, SetFields
  <1> HIDE DEF moved
  <1>4. CASE change' = [change EXCEPT ![c] = moved]
    BY <1>2, <1>3, <1>4, EndsPending
  <1>5. CASE c = None /\ change' = change
    <2>1. pending.change = None
      BY <1>2, <1>5, HasSlot
    <2> QED BY <1>5, <2>1, UnchangedNoStart, SlotGivenBack DEF Changes, None
  <1> QED BY <1>1, <1>4, <1>5

\* EndPromotion.
LEMMA EndPromotionPending ==
    ASSUME Typed, Exclusive, NEW s \in Scheds, EndPromotion(s)
    PROVE  PendingStep
  <1> DEFINE c == step[s].change
             ch == Set(change[c], change[c].stage, "STALE")
  <1>1. \/ UNCHANGED <<change, activity>>
        \/ change' = [change EXCEPT ![c] = ch]
    BY Zenon DEF EndPromotion
  <1>2. pc[s] \in Executing
    BY EndPromotionFrame DEF Executing
  <1>3. c \in Changes => ch.state = "STALE"
    BY ChangeTable, SetFields
  <1> HIDE DEF ch
  <1>4. CASE change' = [change EXCEPT ![c] = ch]
    BY <1>2, <1>3, <1>4, EndsPending
  <1> QED BY <1>1, <1>4, UnchangedNoStart, SlotKept DEF activity

\* Where a promotion is applied, its journal is the one of its own Change.
Owned ==
    \A s \in Scheds : pc[s] = "apply" =>
        owner[journal[act[s]].artifact] = step[s].change
\* So ApplyPromotion.
LEMMA ApplyPending ==
    ASSUME Typed, Exclusive, Named, Owned, NEW s \in Scheds, ApplyPromotion(s)
    PROVE  PendingStep
  <1> DEFINE c == owner[journal[act[s]].artifact]
             ch == Set(change[c], "PROMOTION", "DONE")
  <1>1. \/ UNCHANGED <<change, activity>>
        \/ change' = [change EXCEPT ![c] = ch]
    BY Zenon DEF ApplyPromotion
  <1>2. pc[s] \in Executing /\ c = step[s].change
    BY ApplyFrame DEF Executing, Owned
  <1>3. c \in Changes => ch.state = "DONE"
    BY ChangeTable, SetFields
  <1> HIDE DEF ch, c
  <1>4. CASE change' = [change EXCEPT ![c] = ch]
    BY <1>2, <1>3, <1>4, EndsPending
  <1> QED BY <1>1, <1>4, UnchangedNoStart, SlotKept DEF activity

\* The end of a step.
LEMMA EndOfStepPending ==
    ASSUME Typed, NEW s \in Scheds,
           FailedStep(s) \/ PauseOnSignal(s) \/ EndStep(s)
    PROVE  PendingStep
  <1>1. CASE FailedStep(s) \/ EndStep(s)
    <2>1. \/ Release(change, s) \/ UNCHANGED <<change, activity>>
          \/ KeepsSlot(s)
      BY <1>1 DEF FailedStep, EndStep, TryRelease
    <2> QED BY <2>1, OnlyReleasePending, SlotLeft, UnchangedNoStart, SlotKept
            DEF activity
  <1>2. CASE PauseOnSignal(s)
    <2> DEFINE c == step[s].change
               ch == Set(change[c], change[c].stage, "PAUSED")
    <2>1. /\ UNCHANGED change \/ change' = [change EXCEPT ![c] = ch]
          /\ UNCHANGED activity
      BY <1>2 DEF PauseOnSignal, AfterSignal
    <2>2. c \in Changes => ch.state = "PAUSED"
      BY ChangeTable, SetFields
    <2> HIDE DEF c, ch
    <2>3. NoStart
      BY <2>1, <2>2, UpdateNoStart, UnchangedNoStart
    <2> QED BY <2>1, <2>3, SlotKept DEF activity
  <1> QED BY <1>1, <1>2

\* Owned is inductive: CAS follows the authorisation, and nobody writes the
\* journal's Artifact or its owner again.
LEMMA NextOwned ==
    ASSUME Typed, ChangesInv, PromotionAuthorised, Owned, [Next]_vars
    PROVE  Owned'
  <1> SUFFICES ASSUME NEW s \in Scheds, pc'[s] = "apply"
               PROVE  owner'[journal'[act'[s]].artifact] = step'[s].change
    BY DEF Owned
  <1> DEFINE j == act[s]
             a == journal[j].artifact
  <1>1. CASE pc[s] = "apply" /\ step'[s] = step[s] /\ act'[s] = act[s]
    <2>1. j \in Journals /\ journal[j].state # "NONE"
      BY <1>1 DEF Typed, Shape, LocalsOK, Local
    <2>2. a \in Artifacts /\ owner[a] # None /\ owner[a] = step[s].change
      BY <1>1, <2>1 DEF ChangesInv, Named, Owned, Typed, TypeOK, DocumentOK,
                        JournalRecord
    <2>3. ASSUME NEW t \in Scheds, PreparePromotion(t, j) PROVE FALSE
      BY <2>1, <2>3 DEF PreparePromotion, Fresh, UnusedJournals
    <2>4. journal'[j].artifact = a
      BY <2>1, <2>3, JournalWrites
    <2>5. owner'[a] = owner[a]
      BY <2>2, OwnerWrites DEF ChangesInv
    <2> QED BY <1>1, <2>2, <2>4, <2>5
  <1>2. CASE pc[s] \in Executing /\ step'[s] = step[s] /\ Advances(s)
    <2>0. pc \in [Scheds -> Labels]
      BY DEF Typed, TypeOK, SchedulersOK
    <2>1. CAS(s)
      BY <1>2, <2>0 DEF Advances, ResolveRef, PrepareAttempt, Materialize,
         PrepareCI, MarkCIRunning, PromoteStart, Construct, PreparePromotion,
         CASRejected, CASConflict, Goto, Fails
    <2>2. pc[s] = "cas" /\ UNCHANGED <<act, owner, journal>>
      BY <2>1 DEF CAS, document, evidence
    <2>3. Authorised(s)
      BY <2>2 DEF PromotionAuthorised
    <2>4. owner[a] = step[s].change
      BY <2>3 DEF Authorised, Approved
    <2> QED BY <1>2, <2>2, <2>4
  <1> QED BY <1>1, <1>2, Enters DEF Executing

\* The Change that Next starts has the slot.
LEMMA StartedPending ==
    ASSUME Typed, NEW s \in Scheds, NextChange(s)
    PROVE  \A c \in Changes : Running(c)' =>
               Running(c) \/ Pending(c)'
  <1> DEFINE queue == {c \in Changes : /\ change[c].state = "QUEUED"
                                       /\ change[c].stage
                                             # "AWAIT_PROMOTION"}
             Drifted(c) == change[c].base # taskSHA
             ready(poor) == {c \in queue \ poor :
                                ~Drifted(c) /\ runnable(ChangeStep(c))}
             First(c, poor) == \A d \in ready(poor) \ {c} : Before(c, d)
             Passed(d, poor) == \A c \in ready(poor) : Before(d, c)
  <1>1. PICK poor :
          /\ change' = [d \in Changes |->
               IF d \in ready(poor) /\ First(d, poor)
               THEN [change[d] EXCEPT !.state = "RUNNING", !.started = TRUE]
               ELSE IF d \in queue /\ Passed(d, poor) /\ Drifted(d)
               THEN [change[d] EXCEPT !.state = "STALE"]
               ELSE IF d \in poor /\ Passed(d, poor)
               THEN [change[d] EXCEPT !.state = "BLOCKED"]
               ELSE change[d]]
          /\ IF ready(poor) = {} THEN UNCHANGED <<activity, step, pc>>
             ELSE \E c \in ready(poor) :
                     First(c, poor) /\ Select(s, ChangeStep(c))
    BY DEF NextChange
  <1> SUFFICES ASSUME NEW c \in Changes, change'[c].state = "RUNNING",
                      ~Running(c)
               PROVE  Pending(c)'
    BY DEF Running
  <1>2. c \in ready(poor) /\ First(c, poor)
    <2> HIDE DEF queue, ready, First, Passed, Drifted
    <2>1. \/ c \in ready(poor) /\ First(c, poor)
          \/ change'[c] = [change[c] EXCEPT !.state = "STALE"]
          \/ change'[c] = [change[c] EXCEPT !.state = "BLOCKED"]
          \/ change'[c] = change[c]
      BY <1>1
    <2>2. /\ [change[c] EXCEPT !.state = "STALE"].state = "STALE"
          /\ [change[c] EXCEPT !.state = "BLOCKED"].state = "BLOCKED"
      BY ChangeTable, StateFields
    <2> QED BY <2>1, <2>2 DEF Running
  <1>3. PICK d \in ready(poor) : First(d, poor) /\ Select(s, ChangeStep(d))
    BY <1>1, <1>2
  <1>4. d = c
    <2>1. c \in Nat /\ d \in Nat
      BY <1>3 DEF Changes
    <2>2. /\ change[c].started \in BOOLEAN /\ change[d].started \in BOOLEAN
      BY <1>3, ChangeTable DEF ChangeRecord
    <2>3. d # c => Before(c, d) /\ Before(d, c)
      BY <1>2, <1>3
    <2> QED BY <2>1, <2>2, <2>3 DEF Before
  <1>5. /\ slot' = [owner |-> s, task |-> TRUE]
        /\ pending' = ChangeStep(c)
    BY <1>3, <1>4 DEF Select
  <1> QED BY <1>5 DEF Pending, ChangeStep

\* Schedulers between two activities, or killed.
LEMMA SchedulePending ==
    ASSUME Typed, NEW s \in Scheds,
           SchedStart(s) \/ Crash(s) \/ SchedStop(s) \/ IdleFails(s)
           \/ NextRequest(s)
    PROVE  PendingStep
  <1>1. CASE SchedStart(s)
    <2>1. UNCHANGED <<change, slot, pending>>
      BY <1>1 DEF SchedStart, document, activity
    <2> QED BY <2>1, UnchangedNoStart, SlotKept
  <1>2. CASE Crash(s) \/ SchedStop(s) \/ IdleFails(s)
    <2>1. KeepsSlot(s) \/ Release(change, s)
      BY <1>2, Zenon DEF Crash, SchedStop, IdleFails
    <2> QED BY <2>1, SlotLeft, OnlyReleasePending
  <1>3. CASE NextRequest(s)
    <2>1. UNCHANGED change /\ slot.owner = "none"
      BY <1>3 DEF NextRequest, NextEnabled
    <2> QED BY <2>1, UnchangedNoStart, SlotEmpty, SchedNames
  <1> QED BY <1>1, <1>2, <1>3

\* Recovery has the slot, which has no activity then; it only takes it from
\* one in RecoverSteal.
LEMMA RecoveryPending ==
    ASSUME Typed, Exclusive, Recovery \/ RecoverFails \/ RecoverCrash,
           ~RecoverSteal
    PROVE  PendingStep
  <1>1. CASE RecoverRefused
    <2>1. UNCHANGED <<change, slot, pending>>
      BY <1>1 DEF RecoverRefused, document, activity
    <2> QED BY <2>1, UnchangedNoStart, SlotKept
  <1>2. Recovering /\ NoStart => PendingStep
    BY SlotEmpty, SchedNames DEF Exclusive
  <1>3. CASE \/ RecoverTerminate \/ \E j \in Journals : RecoverResolve(j)
             \/ RecoverUnlock \/ RecoverDone \/ RecoverCrash
    <2>1. Recovering /\ UNCHANGED change
      BY <1>3, Zenon DEF RecoverTerminate, RecoverResolve, RecoverUnlock,
         RecoverDone, RecoverCrash, document, Recovering
    <2> QED BY <1>2, <2>1, UnchangedNoStart
  <1>4. ASSUME NEW k \in Attempts, NEW a \in Artifacts \cup {None},
               RecoverAttempt(k, a)
        PROVE  PendingStep
    <2> DEFINE c == attempt[k].change
               ch == IF a # None THEN Captured(change[c], a) ELSE change[c]
               n == IF Terminal(c) THEN ch ELSE Set(ch, ch.stage, "PAUSED")
    <2>1. Recovering
      BY <1>4, Zenon DEF RecoverAttempt, Recovering
    <2>2. change' = [change EXCEPT ![c] = n]
      BY <1>4, Zenon DEF RecoverAttempt
    <2>3. c \in Changes => (n.state = "RUNNING" => Running(c))
      <3> SUFFICES ASSUME c \in Changes, n.state = "RUNNING"
                   PROVE  Running(c)
        OBVIOUS
      <3>1. ch \in ChangeRecord /\ ch.state = change[c].state
        BY <1>4, ChangeTable, CapturedType, CapturedFields
      <3> HIDE DEF ch, c
      <3> QED BY <3>1, SetFields DEF Running
    <2> HIDE DEF n, c
    <2> QED BY <1>2, <2>1, <2>2, <2>3, UpdateNoStart
  <1>5. CASE RecoverLeases
    <2>1. Recovering /\ change' = [c \in Changes |-> Restarted(change[c])]
      BY <1>5, Zenon DEF RecoverLeases, Recovering
    <2>2. ASSUME NEW c \in Changes PROVE change'[c].state # "RUNNING"
      BY <2>1, ChangeTable, SetFields DEF Restarted
    <2> QED BY <1>2, <2>1, <2>2 DEF NoStart, Running
  <1>6. CASE RecoverJournal
    <2> DEFINE j == rec.journal
               outcome == Outcome(j, rec.sha)
               c == owner[journal[j].artifact]
               n == CASE outcome = "APPLIED" ->
                           Set(change[c], "PROMOTION", "DONE")
                      [] outcome = "NOT_APPLIED" ->
                           Set(change[c], "AWAIT_PROMOTION", "QUEUED")
                      [] OTHER -> Set(change[c], change[c].stage, "STALE")
    <2>1. Recovering
      BY <1>6, RecoverJournalFrame DEF Recovering
    <2>2. RecoverBails \/ change' = [change EXCEPT ![c] = n]
      BY <1>6, Zenon DEF RecoverJournal
    <2>3. RecoverBails => PendingStep
      BY <1>2, <2>1, OnlyReleasePending, UnchangedNoStart DEF RecoverBails
    <2>4. c \in Changes => n.state # "RUNNING"
      <3>1. outcome \in {"APPLIED", "NOT_APPLIED", "CONFLICT"}
        BY DEF Outcome
      <3> HIDE DEF c, outcome
      <3>2. c \in Changes => change[c] \in ChangeRecord
        BY ChangeTable
      <3> QED BY <3>1, <3>2, SetFields
    <2> HIDE DEF n, c
    <2> QED BY <1>2, <2>1, <2>2, <2>3, <2>4, UpdateNoStart
  <1>7. CASE RecoverFails
    <2>1. Recovering /\ RecoverBails
      BY <1>7, Zenon DEF RecoverFails, Recovering
    <2> QED BY <1>2, <2>1, OnlyReleasePending, UnchangedNoStart
            DEF RecoverBails
  <1> QED BY <1>1, <1>3, <1>4, <1>5, <1>6, <1>7 DEF Recovery

\* Every step, unless recovery steals the slot: a Change that is RUNNING then
\* was so before and keeps the slot it had, or Next has just started it.
LEMMA NextPending ==
    ASSUME Typed, ChangesInv, Owned, [Next]_vars, ~RecoverSteal
    PROVE  \/ PendingStep
           \/ \E s \in Scheds : NextChange(s)
  <1>0. Exclusive /\ CancelSeen /\ Named /\ Unfinished
    BY DEF ChangesInv
  <1>1. CASE Operator \/ Control
    BY <1>0, <1>1, OperatorPending, ControlPending
  <1>2. CASE \E s \in Scheds : SchedStart(s) \/ Crash(s) \/ Schedule(s)
    BY <1>2, SchedulePending DEF Schedule
  <1>3. ASSUME NEW s \in Scheds, Activity(s) PROVE PendingStep
    BY <1>0, <1>3, GoingPending, CompletePending, FinishCIPending,
       EndPromotionPending, ApplyPending, EndOfStepPending DEF Activity
  <1>4. CASE Recovery \/ RecoverFails \/ RecoverCrash
    BY <1>0, <1>4, RecoveryPending
  <1>5. CASE UNCHANGED vars
    <2>1. UNCHANGED <<change, slot, pending>>
      BY <1>5 DEF vars, document, activity
    <2> QED BY <2>1, UnchangedNoStart, SlotKept
  <1> QED BY <1>1, <1>2, <1>3, <1>4, <1>5 DEF Next

\* RunningIsPending is inductive while nobody recovers.
LEMMA NextRunningPending ==
    ASSUME Typed, ChangesInv, Owned, RunningIsPending, rec.at = "off",
           [Next]_vars
    PROVE  RunningIsPending'
  <1> SUFFICES ASSUME NEW c \in Changes, Running(c)'
               PROVE  Pending(c)'
    BY DEF RunningIsPending, Running, Pending
  <1>0. Running(c) => Pending(c)
    BY DEF RunningIsPending, Running, Pending
  <1>1. ~RecoverSteal
    BY DEF RecoverSteal
  <1>2. CASE PendingStep
    BY <1>0, <1>2 DEF PendingStep
  <1>3. ASSUME NEW s \in Scheds, NextChange(s) PROVE Pending(c)'
    <2>1. CASE Running(c)
      <3>1. slot.owner = "none"
        BY <1>3 DEF NextChange, NextEnabled
      <3> QED BY <1>0, <2>1, <3>1, SchedNames DEF Pending
    <2> QED BY <1>3, <2>1, StartedPending
  <1> QED BY <1>1, <1>2, <1>3, NextPending

\* As long as nobody recovers, a RUNNING Change is the one whose activity has
\* the slot: every failing call that gives the slot back queues it again.
THEOREM RunningHasSlot ==
    ASSUME "recover" \notin Commands
    PROVE  Spec => []RunningIsPending
  <1>1. Init => RunningIsPending /\ Owned /\ RecoveryCommanded
    BY DEF Init, RunningIsPending, NoChange, Owned, RecoveryCommanded,
           NoRecovery
  <1>2. Typed /\ ChangesInv /\ PromotionAuthorised /\ Owned /\ [Next]_vars
          => Owned'
    BY NextOwned
  <1>3. RecoveryCommanded /\ [Next]_vars => RecoveryCommanded'
    BY NextCommanded
  <1>4. Typed /\ ChangesInv /\ Owned /\ RecoveryCommanded /\ RunningIsPending
          /\ [Next]_vars => RunningIsPending'
    BY NextRunningPending DEF RecoveryCommanded
  <1> QED BY <1>1, <1>2, <1>3, <1>4, TypedInvariant, ChangesInvariant,
             AuthorisedInvariant, PTL DEF Spec

-----------------------------------------------------------------------------
(* A Change that is left RUNNING shows.                                    *)

\* Nobody but the operator removes a blocker.
LEMMA BlockersStay ==
    ASSUME "resolve" \notin Commands, [Next]_vars
    PROVE  blockers \subseteq blockers'
  <1>1. EmergencyBlock => blockers \subseteq blockers'
    BY DEF EmergencyBlock, EmergencyBlocked
  <1>2. CASE Operator
    <2>1. UNCHANGED blockers \/ EmergencyBlock
      BY <1>2, Zenon DEF Operator, ReleaseOption, ChangePromote, ChangeResume,
         ChangeRetry, OnlyChange, ChangePause, QueueCI, Interrupt,
         requestCancellation, ResumeTask, ControlGivesUp, CommandFails,
         ExternalMove, Interrupted, RecoverStart, document
    <2> QED BY <1>1, <2>1
  <1>3. CASE Control \/ UNCHANGED vars
    BY <1>3, ControlFrame DEF vars, document
  <1>4. ASSUME NEW s, FailStopLock(s) PROVE blockers \subseteq blockers'
    BY <1>1, <1>4, Zenon DEF FailStopLock
  <1>5. ASSUME NEW s \in Scheds, SchedStart(s) \/ Crash(s) \/ Schedule(s)
        PROVE  blockers \subseteq blockers'
    <2>1. UNCHANGED blockers \/ EmergencyBlock \/ FailStopLock(s)
      BY <1>5, Zenon DEF SchedStart, Crash, Schedule, SchedStop, IdleFails,
         NextRequest, NextChange, document
    <2> QED BY <1>1, <1>4, <2>1
  <1>6. ASSUME NEW s \in Scheds, FailedStep(s) \/ PauseOnSignal(s) \/ EndStep(s)
        PROVE  blockers \subseteq blockers'
    <2>1. ASSUME NEW b, blockers \subseteq b, TryRelease(s, b)
          PROVE  blockers \subseteq blockers'
      BY <2>1 DEF TryRelease, EmergencyBlocked
    <2>2. CASE FailedStep(s)
      BY <1>1, <2>1, <2>2 DEF FailedStep
    <2>3. CASE PauseOnSignal(s) \/ EndStep(s)
      <3>1. UNCHANGED blockers \/ EmergencyBlock \/ FailStopLock(s)
        BY <2>3, Zenon DEF PauseOnSignal, EndStep
      <3> QED BY <1>1, <1>4, <3>1
    <2> QED BY <1>6, <2>2, <2>3
  <1>7. ASSUME NEW s \in Scheds, NEW how, NEW result, NEW a,
               Complete(s, how, result, a)
        PROVE  blockers \subseteq blockers'
    <2>1. \/ UNCHANGED blockers
          \/ blockers' = blockers \cup {Scope(how, step[s].op)}
      BY <1>7, Zenon DEF Complete
    <2> QED BY <2>1
  <1>8. ASSUME NEW s \in Scheds, Activity(s),
               ~(FailedStep(s) \/ PauseOnSignal(s) \/ EndStep(s)),
               ~\E how \in Endings, result \in Verdicts,
                   a \in Artifacts \cup {None} : Complete(s, how, result, a)
        PROVE  blockers \subseteq blockers'
    <2>1. ASSUME NEW outcome, NEW code, FinishCI(s, outcome, code)
          PROVE  UNCHANGED blockers
      BY <2>1, FinishCIFrame
    <2>2. CASE EndPromotion(s) \/ ApplyPromotion(s) \/ Refused(s)
               \/ StorageFails(s)
      <3>1. UNCHANGED blockers \/ EmergencyBlock
        BY <2>2, Zenon DEF EndPromotion, ApplyPromotion, Refused, StorageFails
      <3> QED BY <1>1, <3>1
    <2>3. CASE ResolveRefFails(s)
      BY <1>1, <2>3 DEF ResolveRefFails
    <2>4. CASE \/ ResolveRef(s) \/ \E k \in Attempts : PrepareAttempt(s, k)
               \/ Materialize(s) \/ \E r \in CIRuns : PrepareCI(s, r)
               \/ OpenLogs(s) \/ MarkCIRunning(s)
               \/ PromoteBusy(s) \/ PromoteStart(s) \/ EvidenceChanged(s)
               \/ Construct(s) \/ ConstructFails(s)
               \/ \E j \in Journals : PreparePromotion(s, j)
               \/ PreparePromotionFails(s)
               \/ CAS(s) \/ CASFails(s) \/ CASRejected(s) \/ CASConflict(s)
               \/ CASUnexplained(s)
      BY <2>4 DEF document, ResolveRef, PrepareAttempt, Materialize,
         PrepareCI, OpenLogs, MarkCIRunning, PromoteBusy, PromoteStart,
         EvidenceChanged, Construct, ConstructFails, PreparePromotion,
         PreparePromotionFails, CAS, CASFails, CASRejected, CASConflict,
         CASUnexplained
    <2> QED BY <1>8, <2>1, <2>2, <2>3, <2>4 DEF Activity
  <1>9. CASE Recovery \/ RecoverFails \/ RecoverCrash
    <2>1. ASSUME NEW k, NEW a, RecoverAttempt(k, a) PROVE UNCHANGED blockers
      BY <2>1, Zenon DEF RecoverAttempt
    <2>2. CASE RecoverJournal
      <3>1. UNCHANGED blockers \/ EmergencyBlock
        BY <2>2, Zenon DEF RecoverJournal
      <3> QED BY <1>1, <3>1
    <2>3. CASE RecoverFails
      BY <1>1, <2>3 DEF RecoverFails, Reports
    <2> QED BY <1>9, <2>1, <2>2, <2>3 DEF Recovery, RecoverRefused,
            RecoverSteal, RecoverTerminate, RecoverLeases, RecoverResolve,
            RecoverUnlock, RecoverDone, RecoverCrash, document
  <1> QED BY <1>2, <1>3, <1>5, <1>6, <1>7, <1>8, <1>9 DEF Next

\* Whoever writes the slot has it or finds it idle; recovery steals it, and
\* writes it again as it ends.
LEMMA SlotWrites ==
    ASSUME Typed, Exclusive, [Next]_vars
    PROVE  \/ UNCHANGED slot
           \/ slot.owner \in Scheds \cup {"none"}
           \/ RecoverSteal
           \/ /\ Recovering /\ ~Recovering'
              /\ slot' = IdleSlot \/ slot' = [slot EXCEPT !.owner = "dead"]
  <1>1. CASE Operator \/ Control \/ UNCHANGED vars
    BY <1>1, OperatorFrame, ControlFrame DEF vars, document, activity
  <1>2. ASSUME NEW s \in Scheds, SchedStart(s) \/ Crash(s) \/ Schedule(s)
        PROVE  UNCHANGED slot \/ slot.owner \in Scheds \cup {"none"}
    <2>1. CASE SchedStart(s)
      BY <2>1 DEF SchedStart, document, activity
    <2>2. CASE Crash(s) \/ SchedStop(s) \/ IdleFails(s)
      <3>1. KeepsSlot(s) \/ Release(change, s)
        BY <2>2, Zenon DEF Crash, SchedStop, IdleFails
      <3> QED BY <3>1 DEF KeepsSlot, Release, activity
    <2>3. CASE NextRequest(s) \/ NextChange(s)
      BY <2>3, Zenon DEF NextRequest, NextChange, NextEnabled
    <2> QED BY <1>2, <2>1, <2>2, <2>3 DEF Schedule
  <1>3. ASSUME NEW s \in Scheds, Activity(s)
        PROVE  UNCHANGED slot \/ slot.owner \in Scheds \cup {"none"}
    <2>1. CASE pc[s] \in Executing
      BY <2>1, HasSlot
    <2>2. CASE FailedStep(s) \/ PauseOnSignal(s) \/ EndStep(s)
      <3>1. \/ KeepsSlot(s) \/ Release(change, s) \/ UNCHANGED activity
        BY <2>2, Zenon DEF FailedStep, PauseOnSignal, EndStep, TryRelease
      <3> QED BY <3>1 DEF KeepsSlot, Release, activity
    <2> QED BY <1>3, <2>1, <2>2, ActivityAt DEF Executing
  <1>4. CASE Recovery \/ RecoverFails \/ RecoverCrash
    <2>0. NoRecovery.at = "off"
      BY DEF NoRecovery
    <2>1. ASSUME NEW k, NEW a, RecoverAttempt(k, a) PROVE UNCHANGED slot
      BY <2>1, Zenon DEF RecoverAttempt
    <2>2. ASSUME Recovering, RecoverBails
          PROVE  ~Recovering' /\ (slot' = IdleSlot
                                    \/ slot' = [slot EXCEPT !.owner = "dead"])
      BY <2>0, <2>2 DEF RecoverBails, Release, release, Exclusive, Recovering
    <2>3. CASE RecoverJournal
      <3>1. Recovering
        BY <2>3, RecoverJournalFrame DEF Recovering
      <3>2. UNCHANGED slot \/ RecoverBails
        BY <2>3, Zenon DEF RecoverJournal
      <3> QED BY <2>2, <3>1, <3>2
    <2>4. CASE RecoverFails
      <3>1. Recovering /\ RecoverBails
        BY <2>4, Zenon DEF RecoverFails, Recovering
      <3> QED BY <2>2, <3>1
    <2>5. CASE RecoverDone \/ RecoverCrash
      BY <2>0, <2>5 DEF RecoverDone, RecoverCrash, Recovering
    <2>6. CASE \/ RecoverRefused \/ RecoverTerminate \/ RecoverLeases
               \/ \E j \in Journals : RecoverResolve(j)
               \/ RecoverUnlock
      BY <2>6 DEF RecoverRefused, RecoverTerminate, RecoverLeases,
         RecoverResolve, RecoverUnlock, document, activity
    <2> QED BY <1>4, <2>1, <2>3, <2>4, <2>5, <2>6 DEF Recovery
  <1> QED BY <1>1, <1>2, <1>3, <1>4 DEF Next

\* The slot that recovery has runs nothing.
RecoverySlot == Recovering => ~slot.task
\* RecoverySlot is inductive.
LEMMA NextRecoverySlot ==
    ASSUME Typed, Exclusive, RecoverySlot, [Next]_vars
    PROVE  RecoverySlot'
  <1> SUFFICES ASSUME Recovering' PROVE ~slot'.task
    BY DEF RecoverySlot
  <1>1. CASE RecoverSteal
    BY <1>1 DEF RecoverSteal
  <1>2. CASE ~RecoverSteal
    <2>1. Recovering
      <3>1. CASE Operator
        BY <3>1, OperatorFrame
        DEF RecoverStart, Recovering, Typed, TypeOK, OthersOK
      <3>2. CASE \/ Control \/ UNCHANGED vars
                 \/ \E s \in Scheds : SchedStart(s) \/ Crash(s) \/ Schedule(s)
                 \/ \E s \in Scheds : Activity(s)
        <4>1. UNCHANGED rec
          BY <3>2, ControlFrame, ScheduleFrame, ActivityFrame
          DEF vars, outside, processes, others
        <4> QED BY <4>1 DEF Recovering
      <3>3. CASE Recovery \/ RecoverFails \/ RecoverCrash
        <4>1. ASSUME NEW k, NEW a, RecoverAttempt(k, a) PROVE Recovering
          BY <4>1, Zenon DEF RecoverAttempt, Recovering
        <4>2. RecoverJournal => Recovering
          BY RecoverJournalFrame DEF Recovering
        <4>3. RecoverRefused => ~Recovering'
          BY DEF RecoverRefused, Recovering, NoRecovery
        <4> QED BY <1>2, <3>3, <4>1, <4>2, <4>3 DEF Recovery, Recovering,
                RecoverTerminate, RecoverLeases, RecoverResolve,
                RecoverUnlock, RecoverDone, RecoverFails, RecoverCrash
      <3> QED BY <3>1, <3>2, <3>3 DEF Next
    <2>2. slot.owner = "recovery"
      BY <2>1 DEF Exclusive
    <2>3. UNCHANGED slot
      BY <1>2, <2>2, SlotWrites, SchedNames
    <2> QED BY <2>1, <2>3 DEF RecoverySlot
  <1> QED BY <1>1, <1>2

\* An Attempt ends by the activity that has it, or by recovery.
LEMMA AttemptEnds ==
    ASSUME Typed, [Next]_vars, NEW k \in ActiveAttempts,
           attempt'[k].status # "ACTIVE"
    PROVE  \/ \E s \in Scheds : pc[s] \in AtWork /\ act[s] = k
           \/ rec.at = "attempts" /\ UNCHANGED rec
  <1>0. attempt \in [Attempts -> AttemptRecord]
    BY DEF Typed, TypeOK, DocumentOK
  <1>1. k \in Attempts /\ attempt[k].status = "ACTIVE" /\ ~UNCHANGED attempt
    BY DEF ActiveAttempts
  <1>2. CASE \/ Operator \/ Control \/ UNCHANGED vars
             \/ \E s \in Scheds : SchedStart(s) \/ Crash(s) \/ Schedule(s)
    BY <1>1, <1>2, OperatorFrame, ControlFrame, ScheduleFrame
    DEF work, vars, document
  <1>3. ASSUME NEW s \in Scheds, Activity(s)
        PROVE  pc[s] \in AtWork /\ act[s] = k
    <2>1. ASSUME NEW x \in Attempts, PrepareAttempt(s, x) PROVE FALSE
      <3>1. attempt[x].status = "NONE"
        BY <2>1 DEF PrepareAttempt, Fresh, UnusedAttempts
      <3>2. attempt'[k] = attempt[k]
        BY <1>0, <1>1, <2>1, <3>1 DEF PrepareAttempt
      <3> QED BY <1>1, <3>2
    <2>2. ASSUME NEW how, NEW result, NEW a, Complete(s, how, result, a)
          PROVE  pc[s] \in AtWork /\ act[s] = k
      <3>1. /\ pc[s] \in AtWork
            /\ attempt' = [attempt EXCEPT ![act[s]].status = "ENDED"]
        BY <2>2, CompleteFrame DEF AtWork
      <3> QED BY <1>0, <1>1, <3>1
    <2> QED BY <1>1, <1>3, <2>1, <2>2, ActivityFrame
  <1>4. CASE Recovery \/ RecoverFails \/ RecoverCrash
    <2>1. PICK x \in Attempts, a \in Artifacts \cup {None} :
             RecoverAttempt(x, a)
      BY <1>1, <1>4, RecoveryFrame
    <2>2. rec.at = "attempts" /\ UNCHANGED rec
      BY <2>1, Zenon DEF RecoverAttempt, outside, processes, others
    <2> QED BY <2>2
  <1> QED BY <1>2, <1>3, <1>4 DEF Next

\* An Attempt that is ACTIVE and that no process has at work.
Orphan(k) ==
    k \in ActiveAttempts /\ \A s \in Scheds : pc[s] \in AtWork => act[s] # k
\* It stays one until recovery ends it.
LEMMA OrphanStays ==
    ASSUME Typed, [Next]_vars, NEW k \in Attempts, Orphan(k)
    PROVE  Orphan(k)' \/ (rec.at = "attempts" /\ UNCHANGED rec)
  <1> SUFFICES ASSUME ~(rec.at = "attempts" /\ UNCHANGED rec)
               PROVE  Orphan(k)'
    OBVIOUS
  <1>0. pc \in [Scheds -> Labels] /\ act \in [Scheds -> Nat]
    BY DEF Typed, TypeOK, SchedulersOK
  <1>1. attempt'[k].status = "ACTIVE"
    BY AttemptEnds DEF Orphan
  <1>2. ASSUME NEW s \in Scheds, pc'[s] \in AtWork PROVE act'[s] # k
    <2>1. CASE pc'[s] = pc[s] /\ act'[s] = act[s]
      BY <1>2, <2>1 DEF Orphan
    <2>2. CASE pc[s] \in Executing /\ Advances(s)
      <3>1. ASSUME NEW x \in Attempts, PrepareAttempt(s, x)
            PROVE  act'[s] # k
        <4>1. attempt[x].status = "NONE" /\ act'[s] = x
          BY <1>0, <3>1 DEF PrepareAttempt, Fresh, UnusedAttempts
        <4> QED BY <4>1 DEF Orphan, ActiveAttempts
      <3>2. CASE Materialize(s)
        <4>1. pc[s] \in AtWork /\ UNCHANGED act
          BY <3>2 DEF Materialize, AtWork
        <4> QED BY <4>1 DEF Orphan
      <3> QED BY <1>0, <1>2, <2>2, <3>1, <3>2
              DEF Advances, ResolveRef, PrepareCI, MarkCIRunning,
                  PromoteStart, Construct, PreparePromotion, CAS,
                  CASRejected, CASConflict, Goto, Fails, AtWork
    <2>3. pc'[s] \in Executing /\ pc'[s] \notin {"resolve", "ciPrepare"}
      BY <1>2 DEF AtWork, Executing
    <2> QED BY <2>1, <2>2, <2>3, Enters
  <1> QED BY <1>1, <1>2 DEF Orphan, ActiveAttempts

\* What shows a Change that is RUNNING without having the slot: a blocker, a
\* recovery that has yet to come to it, the slot of a recovery that was
\* killed, or an Attempt that is still to be settled.
Shows ==
    \/ blockers # {}
    \/ rec.at \in {"terminate", "attempts"}
    \/ slot = [owner |-> "dead", task |-> FALSE]
    \/ \E k \in Attempts : Orphan(k)
Shown == \A c \in Changes : Running(c) => Pending(c) \/ Shows

\* Once it shows it does so until recovery pauses it.
LEMMA ShowsStays ==
    ASSUME "resolve" \notin Commands, ~Outage, Typed, Exclusive,
           RecoverySlot, [Next]_vars, Shows
    PROVE  Shows' \/ \A c \in Changes : ~Running(c)'
  <1>1. CASE blockers # {}
    BY <1>1, BlockersStay DEF Shows
  <1>2. CASE rec.at \in {"terminate", "attempts"}
    <2>1. Recovering /\ slot.owner = "recovery" /\ ~slot.task
      BY <1>2 DEF Recovering, Exclusive, RecoverySlot
    <2>2. CASE Operator
      <3>1. UNCHANGED rec
        BY <1>2, <2>2, OperatorFrame DEF RecoverStart
      <3> QED BY <1>2, <3>1 DEF Shows
    <2>3. CASE \/ Control \/ UNCHANGED vars
               \/ \E s \in Scheds : SchedStart(s) \/ Crash(s) \/ Schedule(s)
               \/ \E s \in Scheds : Activity(s)
      <3>1. UNCHANGED rec
        BY <2>3, ControlFrame, ScheduleFrame, ActivityFrame
        DEF vars, outside, processes, others
      <3> QED BY <1>2, <3>1 DEF Shows
    <2>4. ASSUME NEW k, NEW a, RecoverAttempt(k, a) PROVE Shows'
      <3>1. UNCHANGED rec
        BY <2>4, Zenon DEF RecoverAttempt, outside, processes, others
      <3> QED BY <1>2, <3>1 DEF Shows
    <2>5. CASE RecoverTerminate
      <3>1. rec'.at = "attempts"
        BY <2>5 DEF RecoverTerminate, Typed, TypeOK, OthersOK
      <3> QED BY <3>1 DEF Shows
    <2>6. CASE RecoverLeases
      <3>1. change' = [c \in Changes |-> Restarted(change[c])]
        BY <2>6, Zenon DEF RecoverLeases
      <3>2. ASSUME NEW c \in Changes PROVE change'[c].state # "RUNNING"
        BY <3>1, ChangeTable, SetFields DEF Restarted
      <3> QED BY <3>2 DEF Running
    <2>7. CASE RecoverCrash
      <3>1. slot \in SlotRecord
        BY DEF Typed, TypeOK, DocumentOK
      <3>2. slot' = [slot EXCEPT !.owner = "dead"]
        BY <2>7 DEF RecoverCrash
      <3>3. slot' = [owner |-> "dead", task |-> FALSE]
        BY <2>1, <3>1, <3>2 DEF SlotRecord
      <3> QED BY <3>3 DEF Shows
    <2>8. CASE RecoverFails
      <3>0. EmergencyBlock => blockers' # {}
        BY DEF EmergencyBlock, EmergencyBlocked
      <3>1. CASE rec.at = "terminate"
        <4>1. blockers' # {}
          BY <2>8, <3>1 DEF RecoverFails, Reports
        <4> QED BY <4>1 DEF Shows
      <3>2. CASE rec.at = "attempts" /\ ~EmergencyBlock
        <4>1. PICK k \in Attempts : attempt[k].status = "ACTIVE"
          BY <2>8, <3>2 DEF RecoverFails, ActiveAttempts
        <4>2. \A s \in Scheds : pc[s] \notin AtWork
          BY <2>1, RecoveringAlone DEF AtWork, Executing
        <4>3. UNCHANGED <<attempt, pc>>
          BY <2>8 DEF RecoverFails, work, schedVars
        <4>4. Orphan(k)'
          BY <4>1, <4>2, <4>3 DEF Orphan, ActiveAttempts
        <4> QED BY <4>4 DEF Shows
      <3> QED BY <1>2, <3>0, <3>1, <3>2 DEF Shows
    <2>9. ~(RecoverRefused \/ RecoverSteal \/ RecoverJournal \/ RecoverUnlock
              \/ RecoverDone \/ \E j \in Journals : RecoverResolve(j))
      BY <1>2, RecoverJournalFrame DEF RecoverRefused, RecoverSteal,
         RecoverUnlock, RecoverDone, RecoverResolve
    <2> QED BY <2>2, <2>3, <2>4, <2>5, <2>6, <2>7, <2>8, <2>9
            DEF Next, Recovery
  <1>3. CASE slot = [owner |-> "dead", task |-> FALSE]
    <2>1. ~Recovering
      BY <1>3 DEF Exclusive
    <2>2. CASE RecoverSteal
      <3>1. rec'.at = "terminate"
        BY <2>2 DEF RecoverSteal, Typed, TypeOK, OthersOK
      <3> QED BY <3>1 DEF Shows
    <2>3. CASE UNCHANGED slot
      BY <1>3, <2>3 DEF Shows
    <2> QED BY <1>3, <2>1, <2>2, <2>3, SlotWrites, SchedNames
  <1>4. ASSUME NEW k \in Attempts, Orphan(k) PROVE Shows'
    BY <1>4, OrphanStays DEF Shows
  <1> QED BY <1>1, <1>2, <1>3, <1>4 DEF Shows

\* Shown is inductive as long as blockers stay.
LEMMA NextShown ==
    ASSUME "resolve" \notin Commands, ~Outage, Typed, ChangesInv, Owned,
           RecoverySlot, Shown, [Next]_vars
    PROVE  Shown'
  <1> SUFFICES ASSUME NEW c \in Changes, Running(c)', ~Pending(c)'
               PROVE  Shows'
    BY DEF Shown
  <1>1. CASE RecoverSteal
    <2>1. rec'.at = "terminate"
      BY <1>1 DEF RecoverSteal, Typed, TypeOK, OthersOK
    <2> QED BY <2>1 DEF Shows
  <1>2. CASE ~RecoverSteal
    <2>1. Running(c) /\ ~Pending(c)
      <3>1. CASE PendingStep
        BY <3>1 DEF PendingStep
      <3>2. ASSUME NEW s \in Scheds, NextChange(s)
            PROVE  Running(c) /\ ~Pending(c)
        <4>1. slot.owner = "none"
          BY <3>2 DEF NextChange, NextEnabled
        <4> QED BY <3>2, <4>1, StartedPending, SchedNames DEF Pending
      <3> QED BY <1>2, <3>1, <3>2, NextPending
    <2>2. Shows
      BY <2>1 DEF Shown
    <2> QED BY <2>2, ShowsStays DEF ChangesInv
  <1> QED BY <1>1, <1>2

\* As long as the operator resolves no blocker and a blocker can be written, a
\* Change that is left RUNNING always shows, whatever crashes and recoveries
\* that fail half-way.
THEOREM RunningShows ==
    ASSUME "resolve" \notin Commands, "OUTAGE" \notin Faults
    PROVE  Spec => []LeftRunningShows
  <1>1. Init => Shown /\ Owned /\ RecoverySlot
    BY DEF Init, Shown, Running, NoChange, Owned, RecoverySlot, Recovering,
           NoRecovery
  <1>2. Typed /\ ChangesInv /\ PromotionAuthorised /\ Owned /\ [Next]_vars
          => Owned'
    BY NextOwned
  <1>3. Typed /\ ChangesInv /\ RecoverySlot /\ [Next]_vars => RecoverySlot'
    BY NextRecoverySlot DEF ChangesInv
  <1>4. Typed /\ ChangesInv /\ Owned /\ RecoverySlot /\ Shown /\ [Next]_vars
          => Shown'
    BY NextShown DEF Outage
  <1>5. ChangesInv /\ Shown => LeftRunningShows
    <2> SUFFICES ASSUME ChangesInv, NEW c \in Changes, Pending(c) \/ Shows
                 PROVE  \/ slot.owner # "none" \/ ActiveAttempts # {}
                        \/ runLock # "free" \/ blockers # {}
      BY DEF Shown, Running, LeftRunningShows
    <2>1. CASE Pending(c)
      BY <2>1, SchedNames DEF Pending
    <2>2. CASE rec.at \in {"terminate", "attempts"}
      BY <2>2 DEF ChangesInv, Exclusive, Recovering
    <2> QED BY <2>1, <2>2 DEF Shows, Orphan
  <1> QED BY <1>1, <1>2, <1>3, <1>4, <1>5, TypedInvariant, ChangesInvariant,
             AuthorisedInvariant, PTL DEF Spec

=============================================================================
