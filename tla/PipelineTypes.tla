---------------------------- MODULE PipelineTypes ----------------------------
(***************************************************************************)
(* Type correctness of ChangePipeline, for every value of its constants.   *)
(* TypeOK is not inductive: what a scheduler, a control command or a       *)
(* recovery writes into the document depends on what its local variables   *)
(* hold at the point it has reached.  Shape says what that is.             *)
(***************************************************************************)
EXTENDS ChangePipeline, WellFoundedInduction, TLAPS

\* What the local variables of a scheduler hold at each of its labels.
Local(s) ==
    /\ pc[s] \in Executing \ {"ciPrepare", "ciSetup", "ciRun"} =>
          step[s].change \in Changes
    /\ pc[s] = "resolve" =>
          step[s].op \in {"mutation", "review", "promotion"}
    /\ pc[s] \in {"prepare", "context", "working", "starved"} =>
          step[s].op \in {"mutation", "review"}
    /\ pc[s] \in {"context", "working", "starved"} => act[s] \in Attempts
    /\ pc[s] \in {"ciSetup", "ciRun"} => act[s] \in CIRuns
    /\ pc[s] = "journal" => sha[s] \in Commits
    /\ pc[s] \in {"cas", "casCheck", "apply"} =>
          act[s] \in Journals /\ journal[act[s]].state # "NONE"
    /\ pc[s] = "failed" /\ err[s] = "WORKER_UNAVAILABLE" =>
          step[s].op \in {"mutation", "review"}
LocalsOK == \A s \in Scheds : Local(s)
\* A journal that was written names the new commit.
JournalsOK ==
    \A j \in Journals : journal[j].state # "NONE" =>
        journal[j].new \in Commits
ControlOK == ctl.op = "resume" => ctl.sha \in Commits
RecoveryOK ==
    /\ rec.at = "reconcile" =>
          rec.journal \in Journals /\ journal[rec.journal].state # "NONE"
    /\ \A j \in rec.todo : journal[j].state # "NONE"
Shape == LocalsOK /\ JournalsOK /\ ControlOK /\ RecoveryOK
Typed == TypeOK /\ Shape

\* No journal is ever unwritten.
Kept == \A j \in Journals : journal[j].state # "NONE" =>
                            journal'[j].state # "NONE"

-----------------------------------------------------------------------------
(* Updates of a Change record.                                             *)

\* Set, the one writer of stage and state, keeps a Change well-typed.
LEMMA SetType ==
    ASSUME NEW ch \in ChangeRecord, NEW stage \in Stages, NEW state \in States
    PROVE  Set(ch, stage, state) \in ChangeRecord
  BY DEF Set, ChangeRecord
\* So does Set when the stage stays.
LEMMA KeepStage ==
    ASSUME NEW ch \in ChangeRecord, NEW state \in States
    PROVE  Set(ch, ch.stage, state) \in ChangeRecord
  BY DEF Set, ChangeRecord
\* release requeues a Change by its state alone.
LEMMA StateType ==
    ASSUME NEW ch \in ChangeRecord, NEW state \in States
    PROVE  [ch EXCEPT !.state = state] \in ChangeRecord
  BY DEF ChangeRecord
\* ReleaseOption gives a Change its base.
LEMMA BaseType ==
    ASSUME NEW ch \in ChangeRecord, NEW sh \in Commits
    PROVE  [ch EXCEPT !.base = sh] \in ChangeRecord
  BY DEF ChangeRecord
\* resume forgets the timeouts so far.
LEMMA ResetType ==
    ASSUME NEW ch \in ChangeRecord, NEW c
    PROVE  [ch EXCEPT !.resetAt = RunsOf(c)] \in ChangeRecord
  BY DEF ChangeRecord, RunsOf
\* PrepareAttempt binds a review to its Change.
LEMMA ReviewType ==
    ASSUME NEW ch \in ChangeRecord, NEW k \in Attempts \cup {None}
    PROVE  [ch EXCEPT !.review = k] \in ChangeRecord
  BY DEF ChangeRecord
\* Next marks the Change it selects.
LEMMA StartedType ==
    ASSUME NEW ch \in ChangeRecord
    PROVE  [ch EXCEPT !.state = "RUNNING", !.started = TRUE] \in ChangeRecord
  BY DEF ChangeRecord, States
\* PrepareCI binds a run and drops the review.
LEMMA PreparedType ==
    ASSUME NEW ch \in ChangeRecord, NEW r \in CIRuns \cup {None}
    PROVE  [ch EXCEPT !.ci = r, !.review = None] \in ChangeRecord
  BY DEF ChangeRecord
\* retry and rework of a Change.
LEMMA RetryType ==
    ASSUME NEW ch \in ChangeRecord, NEW r \in CIRuns \cup {None}, NEW c
    PROVE  [ch EXCEPT !.ci = r, !.review = None, !.resetAt = RunsOf(c)]
              \in ChangeRecord
  <1> DEFINE prepared == [ch EXCEPT !.ci = r, !.review = None]
  <1>1. prepared \in ChangeRecord
    BY PreparedType
  <1>2. [prepared EXCEPT !.resetAt = RunsOf(c)] \in ChangeRecord
    <2> HIDE DEF prepared
    <2> QED BY <1>1, ResetType
  <1> QED BY <1>2
\* A captured Artifact replaces the evidence.
LEMMA CapturedType ==
    ASSUME NEW ch \in ChangeRecord, NEW a \in Artifacts
    PROVE  Captured(ch, a) \in ChangeRecord
  BY DEF Captured, ChangeRecord
\* Replacing one Change keeps the table typed.
LEMMA ChangeType ==
    ASSUME change \in [Changes -> ChangeRecord], NEW c, NEW ch,
           c \in Changes => ch \in ChangeRecord
    PROVE  [change EXCEPT ![c] = ch] \in [Changes -> ChangeRecord]
  OBVIOUS
\* Pausing every Change keeps the table typed.
LEMMA PausedAllType ==
    change \in [Changes -> ChangeRecord] =>
        PausedAll \in [Changes -> ChangeRecord]
  BY KeepStage DEF PausedAll, States

-----------------------------------------------------------------------------
(* What leaves a group of variables alone keeps their types.               *)

\* The durable document.
LEMMA DocumentFrame == DocumentOK /\ UNCHANGED document => DocumentOK'
  BY DEF DocumentOK, document, evidence, work, activity, task
\* The ref, run.lock and the gate.
LEMMA OutsideFrame == OutsideOK /\ UNCHANGED <<git, locks>> => OutsideOK'
  BY DEF OutsideOK, git, locks
\* The local variables of the schedulers.
LEMMA SchedulersFrame ==
    SchedulersOK /\ UNCHANGED schedVars => SchedulersOK'
  BY DEF SchedulersOK, schedVars
\* The waiting command and recovery.
LEMMA OthersFrame == OthersOK /\ UNCHANGED others => OthersOK'
  BY DEF OthersOK, others
\* What locals hold survives as long as no journal is unwritten.
LEMMA LocalsFrame ==
    LocalsOK /\ UNCHANGED schedVars /\ Kept => LocalsOK'
  BY DEF LocalsOK, Local, schedVars, Kept
\* Journals, command and recovery.
LEMMA JournalsFrame ==
    Shape /\ UNCHANGED <<others, journal>> =>
        JournalsOK' /\ ControlOK' /\ RecoveryOK'
  BY DEF Shape, JournalsOK, ControlOK, RecoveryOK, others
\* A step that changes neither the journals nor anything outside the document.
LEMMA OutsideUnchanged ==
    ASSUME Typed, UNCHANGED <<outside, journal>>, DocumentOK'
    PROVE Typed'
  <1>1. OutsideOK' /\ SchedulersOK' /\ OthersOK'
    BY OutsideFrame, SchedulersFrame, OthersFrame
    DEF Typed, TypeOK, outside, processes
  <1>2. LocalsOK'
    BY LocalsFrame DEF Typed, Shape, outside, processes, Kept
  <1>3. JournalsOK' /\ ControlOK' /\ RecoveryOK'
    BY JournalsFrame DEF Typed, outside, processes
  <1> QED BY <1>1, <1>2, <1>3 DEF Typed, TypeOK, Shape
\* A step that changes one Change and nothing else.
LEMMA OnlyChangeTyped ==
    ASSUME Typed, OnlyChange, change' \in [Changes -> ChangeRecord]
    PROVE  Typed'
  <1>1. DocumentOK'
    BY DEF Typed, TypeOK, DocumentOK, OnlyChange, evidence, work, activity,
           task
  <1> QED BY <1>1, OutsideUnchanged DEF OnlyChange
\* A step of a control command: the document, the gate and ctl.
LEMMA ControlTyped ==
    ASSUME Typed, UNCHANGED <<git, runLock, schedVars, rec, crashes, journal>>,
           gate' \in {"free", "control"}, DocumentOK', OthersOK', ControlOK'
    PROVE  Typed'
  <1>1. OutsideOK' /\ SchedulersOK'
    BY SchedulersFrame DEF Typed, TypeOK, OutsideOK, git
  <1>2. LocalsOK'
    BY LocalsFrame DEF Typed, Shape, Kept
  <1>3. JournalsOK' /\ RecoveryOK'
    BY DEF Typed, Shape, JournalsOK, RecoveryOK
  <1> QED BY <1>1, <1>2, <1>3 DEF Typed, TypeOK, Shape
\* A command that ends leaves nothing behind.
LEMMA ControlEnds ==
    ASSUME Typed, ctl' = NoControl, UNCHANGED <<rec, crashes>>
    PROVE  OthersOK' /\ ControlOK'
  BY DEF Typed, TypeOK, OthersOK, ControlOK, NoControl, None

-----------------------------------------------------------------------------
(* The last of a nonempty set of CI runs exists.                           *)

\* A nonempty set of naturals has a least member.
LEMMA Smallest ==
    ASSUME NEW T \in SUBSET Nat, T # {}
    PROVE  \E x \in T : \A y \in T : x <= y
  <1>1. PICK x \in T : \A y \in T : ~ (<<y, x>> \in OpToRel(<, Nat))
    BY NatLessThanWellFounded, WFMin
  <1>2. \A y \in T : ~ (y < x)
    BY <1>1 DEF OpToRel
  <1> QED BY <1>2
\* A nonempty set of bounded naturals has a greatest member.
LEMMA Largest ==
    ASSUME NEW n \in Nat, NEW T \in SUBSET (1..n), T # {}
    PROVE  \E x \in T : \A y \in T : y <= x
  <1> DEFINE U == {n - y : y \in T}
  <1>0. \A y \in T : y \in Int /\ 1 <= y /\ y <= n
    OBVIOUS
  <1>1. U \in SUBSET Nat /\ U # {}
    <2>1. \A u \in U : u \in Nat
      BY <1>0
    <2>2. PICK y \in T : TRUE
      OBVIOUS
    <2>3. n - y \in U
      BY <2>2
    <2> QED BY <2>1, <2>3
  <1>2. PICK u \in U : \A v \in U : u <= v
    BY <1>1, Smallest
  <1>3. PICK x \in T : u = n - x
    BY <1>2
  <1>4. \A y \in T : n - x <= n - y
    BY <1>2, <1>3
  <1> QED BY <1>0, <1>3, <1>4
\* Last picks one of the runs it is given.
LEMMA LastIn ==
    ASSUME NEW ids \in SUBSET CIRuns, ids # {}
    PROVE  Last(ids) \in CIRuns
  <1>1. \E x \in ids : \A y \in ids : y <= x
    BY Largest, BoundsAssumption DEF CIRuns
  <1> QED BY <1>1 DEF Last
-----------------------------------------------------------------------------
(* The operator's commands.                                                *)

\* ReleaseOption keeps the types and what the locals hold.
LEMMA ReleaseOptionTyped ==
    ASSUME Typed, NEW c \in Changes, ReleaseOption(c)
    PROVE  Typed'
  <1>1. change[c] \in ChangeRecord /\ taskSHA \in Commits
    BY DEF Typed, TypeOK, DocumentOK
  <1>2. Set(change[c], "MUTATION", "QUEUED") \in ChangeRecord
    BY <1>1, SetType DEF Stages, States
  <1>3. [Set(change[c], "MUTATION", "QUEUED") EXCEPT !.base = taskSHA]
           \in ChangeRecord
    BY <1>1, <1>2, BaseType
  <1>4. change' \in [Changes -> ChangeRecord]
    BY <1>3, ChangeType DEF Typed, TypeOK, DocumentOK, ReleaseOption
  <1> QED BY <1>4, OnlyChangeTyped DEF ReleaseOption, OnlyChange
\* ChangePromote keeps the types and what the locals hold.
LEMMA ChangePromoteTyped ==
    ASSUME Typed, NEW c \in Changes, ChangePromote(c)
    PROVE  Typed'
  <1>1. Set(change[c], "PROMOTION", "QUEUED") \in ChangeRecord
    BY SetType DEF Typed, TypeOK, DocumentOK, Stages, States
  <1>2. change' \in [Changes -> ChangeRecord]
    BY <1>1, ChangeType DEF Typed, TypeOK, DocumentOK, ChangePromote
  <1> QED BY <1>2, OnlyChangeTyped DEF ChangePromote
\* ChangeResume keeps the types and what the locals hold.
LEMMA ChangeResumeTyped ==
    ASSUME Typed, NEW c \in Changes, ChangeResume(c)
    PROVE  Typed'
  <1>1. Set(change[c], change[c].stage, "QUEUED") \in ChangeRecord
    BY KeepStage DEF Typed, TypeOK, DocumentOK, States
  <1>2. [Set(change[c], change[c].stage, "QUEUED")
            EXCEPT !.resetAt = RunsOf(c)]
           \in ChangeRecord
    BY <1>1, ResetType
  <1>3. change' \in [Changes -> ChangeRecord]
    BY <1>2, ChangeType DEF Typed, TypeOK, DocumentOK, ChangeResume
  <1> QED BY <1>3, OnlyChangeTyped DEF ChangeResume
\* ChangeRetry keeps the types and what the locals hold.
LEMMA ChangeRetryTyped ==
    ASSUME Typed, NEW c \in Changes,
           NEW stage \in {"CI", "REVIEW", "MUTATION"}, ChangeRetry(c, stage)
    PROVE  Typed'
  <1> DEFINE ch == Set(change[c], stage, "QUEUED")
             r == IF stage = "REVIEW" THEN latestCI[change[c].artifact]
                                      ELSE change[c].ci
  <1>1. change[c] \in ChangeRecord /\ ch \in ChangeRecord
    BY SetType DEF Typed, TypeOK, DocumentOK, Stages, States
  <1>2. r \in CIRuns \cup {None}
    <2>1. CASE stage = "REVIEW"
      <3>1. change[c].artifact \in Artifacts
        BY <1>1 DEF ChangeRecord, ChangeRetry
      <3> QED BY <2>1, <3>1 DEF Typed, TypeOK, DocumentOK
    <2>2. CASE stage # "REVIEW"
      BY <1>1, <2>2 DEF ChangeRecord
    <2> QED BY <2>1, <2>2
  <1>3. [ch EXCEPT !.ci = r, !.review = None, !.resetAt = RunsOf(c)]
           \in ChangeRecord
    <2> HIDE DEF ch, r
    <2> QED BY <1>1, <1>2, RetryType
  <1>4. change' = [change EXCEPT ![c] =
             [ch EXCEPT !.ci = r, !.review = None, !.resetAt = RunsOf(c)]]
    BY DEF ChangeRetry
  <1>5. change' \in [Changes -> ChangeRecord]
    <2> HIDE DEF ch, r
    <2> QED BY <1>3, <1>4, ChangeType DEF Typed, TypeOK, DocumentOK
  <1> QED BY <1>5, OnlyChangeTyped DEF ChangeRetry
\* QueueCI keeps the types and what the locals hold.
LEMMA QueueCITyped ==
    ASSUME Typed, NEW a \in Artifacts, NEW r \in CIRuns, QueueCI(a, r)
    PROVE  Typed'
  <1>1. run' \in [CIRuns -> RunRecord]
    BY DEF Typed, TypeOK, DocumentOK, QueueCI, RunRecord
  <1>2. DocumentOK'
    BY <1>1 DEF Typed, TypeOK, DocumentOK, QueueCI, activity, task
  <1> QED BY <1>2, OutsideUnchanged DEF QueueCI
\* Interrupt keeps the types and what the locals hold.
LEMMA InterruptTyped ==
    ASSUME Typed, NEW k \in Attempts, Interrupt(k)
    PROVE  Typed'
  <1>1. DocumentOK'
    BY DEF Typed, TypeOK, DocumentOK, Interrupt, evidence, activity, task
  <1> QED BY <1>1, OutsideUnchanged DEF Interrupt
\* Blockers come and go within the scopes.
LEMMA BlockersTyped ==
    ASSUME Typed, CommandFails \/ \E b \in Scopes : ResolveBlocker(b)
    PROVE  Typed'
  <1>1. DocumentOK' /\ UNCHANGED <<outside, journal>>
    BY DEF Typed, TypeOK, DocumentOK, ResolveBlocker, CommandFails,
           EmergencyBlock, EmergencyBlocked, Scopes, evidence, work,
           activity, task
  <1> QED BY <1>1, OutsideUnchanged
\* ExternalMove keeps the types and what the locals hold.
LEMMA ExternalMoveTyped ==
    ASSUME Typed, NEW new \in Commits, ExternalMove(new)
    PROVE  Typed'
  <1>1. DocumentOK' /\ SchedulersOK' /\ OthersOK'
    BY DocumentFrame, SchedulersFrame, OthersFrame
    DEF Typed, TypeOK, ExternalMove, processes
  <1>2. OutsideOK'
    BY DEF Typed, TypeOK, OutsideOK, ExternalMove, locks
  <1>3. LocalsOK' /\ JournalsOK' /\ ControlOK' /\ RecoveryOK'
    BY LocalsFrame, JournalsFrame
    DEF Typed, Shape, ExternalMove, processes, document, Kept
  <1> QED BY <1>1, <1>2, <1>3 DEF Typed, TypeOK, Shape
\* ChangePause keeps the types and what the locals hold.
LEMMA ChangePauseTyped ==
    ASSUME Typed, NEW c \in Changes, NEW state \in {"PAUSED", "ABORTED"},
           ChangePause(c, state)
    PROVE  Typed'
  <1>1. Set(change[c], change[c].stage, state) \in ChangeRecord
    BY KeepStage DEF Typed, TypeOK, DocumentOK, States
  <1>2. change' \in [Changes -> ChangeRecord]
    BY <1>1, ChangeType DEF Typed, TypeOK, DocumentOK, ChangePause
  <1>3. DocumentOK'
    BY <1>2 DEF Typed, TypeOK, DocumentOK, ChangePause, ActiveAttempts,
                evidence, activity, task
  <1>4. OthersOK' /\ ControlOK'
    BY DEF Typed, TypeOK, OthersOK, ControlOK, ChangePause, NoControl, None
  <1> QED BY <1>3, <1>4, ControlTyped DEF ChangePause
\* requestCancellation keeps the types and what the locals hold.
LEMMA requestCancellationTyped ==
    ASSUME Typed, NEW op \in {"suspend", "close"}, requestCancellation(op)
    PROVE  Typed'
  <1> DEFINE dropped == {r \in requests : run[r].status = "QUEUED"}
             Dropped(a) == {r \in dropped : run[r].artifact = a}
  <1>1. change' \in [Changes -> ChangeRecord]
    BY PausedAllType DEF Typed, TypeOK, DocumentOK, requestCancellation
  <1>2. run' \in [CIRuns -> RunRecord]
    <2>1. \A r \in CIRuns :
             [run[r] EXCEPT !.status = "TERMINATED"] \in RunRecord
      BY DEF Typed, TypeOK, DocumentOK, RunRecord, Outcomes
    <2> QED BY <2>1 DEF Typed, TypeOK, DocumentOK, requestCancellation
  <1>3. latestCI' \in [Artifacts -> CIRuns \cup {None}]
    <2>1. \A a \in Artifacts : Dropped(a) # {} => Last(Dropped(a)) \in CIRuns
      <3> SUFFICES ASSUME NEW a \in Artifacts, Dropped(a) # {}
                   PROVE  Last(Dropped(a)) \in CIRuns
        OBVIOUS
      <3>1. Dropped(a) \subseteq CIRuns
        BY DEF Typed, TypeOK, DocumentOK
      <3> HIDE DEF Dropped
      <3> QED BY <3>1, LastIn
    <2> QED BY <2>1 DEF Typed, TypeOK, DocumentOK, requestCancellation
  <1>4. pending' \in StepRecord
    BY DEF Typed, TypeOK, DocumentOK, requestCancellation, StepRecord, NoStep,
           Operations
  <1>5. DocumentOK'
    BY <1>1, <1>2, <1>3, <1>4
    DEF Typed, TypeOK, DocumentOK, requestCancellation, ActiveAttempts
  <1>6. OthersOK' /\ ControlOK'
    BY DEF Typed, TypeOK, OthersOK, ControlOK, requestCancellation,
           NoControl, None
  <1> QED BY <1>5, <1>6, ControlTyped DEF requestCancellation
\* ControlGivesUp keeps the types and what the locals hold.
LEMMA ControlGivesUpTyped ==
    ASSUME Typed, ChangeSettled \/ LifecycleRefused \/ ControlGivesUp
    PROVE  Typed'
  <1>1. /\ ctl' = NoControl /\ gate' = "free"
        /\ UNCHANGED <<document, git, runLock, schedVars, rec, crashes>>
    BY DEF ChangeSettled, LifecycleRefused, ControlGivesUp
  <1>2. DocumentOK' /\ UNCHANGED journal
    BY <1>1, DocumentFrame DEF Typed, TypeOK, document
  <1> QED BY <1>1, <1>2, ControlEnds, ControlTyped
\* CancellationSettles only marks the command.
LEMMA CancellationSettlesTyped ==
    ASSUME Typed, CancellationSettles
    PROVE  Typed'
  <1>1. DocumentOK' /\ OutsideOK' /\ SchedulersOK'
    BY DocumentFrame, SchedulersFrame
    DEF Typed, TypeOK, OutsideOK, CancellationSettles, git, locks
  <1>2. OthersOK' /\ ControlOK'
    BY DEF Typed, Shape, TypeOK, OthersOK, ControlOK, CancellationSettles
  <1>3. LocalsOK' /\ JournalsOK' /\ RecoveryOK'
    BY LocalsFrame
    DEF Typed, Shape, CancellationSettles, Kept, document, JournalsOK,
        RecoveryOK
  <1> QED BY <1>1, <1>2, <1>3 DEF Typed, TypeOK, Shape
\* finishLifecycle keeps the types and what the locals hold.
LEMMA finishLifecycleTyped ==
    ASSUME Typed, finishLifecycle
    PROVE  Typed'
  <1>1. change' \in [Changes -> ChangeRecord]
    BY PausedAllType DEF Typed, TypeOK, DocumentOK, finishLifecycle
  <1>2. DocumentOK'
    BY <1>1 DEF Typed, TypeOK, DocumentOK, finishLifecycle, evidence, work,
                StepRecord, NoStep, Operations
  <1> QED BY <1>2, ControlEnds, ControlTyped DEF finishLifecycle
\* ResumeTask keeps the types and what the locals hold.
LEMMA ResumeTaskTyped ==
    ASSUME Typed, ResumeTask
    PROVE  Typed'
  <1>1. DocumentOK' /\ UNCHANGED journal
    BY DocumentFrame DEF Typed, TypeOK, ResumeTask, document
  <1>2. OthersOK' /\ ControlOK'
    BY DEF Typed, TypeOK, OutsideOK, OthersOK, ControlOK, ResumeTask,
           NoControl, None
  <1> QED BY <1>1, <1>2, ControlTyped DEF ResumeTask
\* finishResume keeps the types and what the locals hold.
LEMMA finishResumeTyped ==
    ASSUME Typed, finishResume
    PROVE  Typed'
  <1>1. change' \in [Changes -> ChangeRecord]
    <2>1. \A c \in Changes :
             Set(change[c], change[c].stage, "STALE") \in ChangeRecord
      BY KeepStage DEF Typed, TypeOK, DocumentOK, States
    <2> QED BY <2>1 DEF Typed, TypeOK, DocumentOK, finishResume
  <1>2. taskSHA' \in Commits
    BY DEF Typed, Shape, ControlOK, finishResume
  <1>3. DocumentOK'
    BY <1>1, <1>2 DEF Typed, TypeOK, DocumentOK, finishResume, evidence, work,
                      activity
  <1> QED BY <1>3, ControlEnds, ControlTyped DEF finishResume
-----------------------------------------------------------------------------
(* A scheduler's steps: its own locals, and what it writes.                *)

OnlyLocal(s) ==
    \A t \in Scheds \ {s} :
        /\ pc'[t] = pc[t] /\ step'[t] = step[t] /\ act'[t] = act[t]
        /\ sha'[t] = sha[t] /\ err'[t] = err[t]

\* A step of one scheduler, whatever it writes into the document.
LEMMA SchedulerStep ==
    ASSUME Typed, NEW s \in Scheds, UNCHANGED others, Kept, OnlyLocal(s),
           Local(s)', DocumentOK', OutsideOK', SchedulersOK', JournalsOK'
    PROVE  Typed'
  <1>1. \A t \in Scheds : Local(t)'
    BY DEF Typed, Shape, LocalsOK, Local, OnlyLocal, Kept
  <1>2. RecoveryOK' /\ ControlOK'
    BY DEF Typed, TypeOK, OthersOK, Shape, RecoveryOK, ControlOK, Kept, others
  <1>3. OthersOK'
    BY OthersFrame DEF Typed, TypeOK
  <1> QED BY <1>1, <1>2, <1>3 DEF Typed, TypeOK, Shape, LocalsOK
\* A step that writes no journal.
LEMMA DocumentStep ==
    ASSUME Typed, NEW s \in Scheds, UNCHANGED <<others, journal>>,
           OnlyLocal(s), Local(s)', DocumentOK', OutsideOK', SchedulersOK'
    PROVE  Typed'
  <1>1. Kept /\ JournalsOK'
    BY DEF Typed, Shape, JournalsOK, Kept
  <1> QED BY <1>1, SchedulerStep
\* A step that writes nothing into the document.
LEMMA QuietStep ==
    ASSUME Typed, NEW s \in Scheds, UNCHANGED <<document, others>>,
           OnlyLocal(s), Local(s)', OutsideOK', SchedulersOK'
    PROVE  Typed'
  <1>1. DocumentOK' /\ UNCHANGED journal
    BY DocumentFrame DEF Typed, TypeOK, document
  <1> QED BY <1>1, DocumentStep

\* Where a failed or finished activity goes, no local needs a type.
LEMMA Stops ==
    ASSUME SchedulersOK, NEW s \in Scheds,
           pc' \in [Scheds -> Labels],
           pc'[s] \in {"off", "idle", "unwind", "release"}
    PROVE  Local(s)'
  BY DEF Local, Executing
\* Step's error path needs nothing of the locals, except to scope
\* WORKER_UNAVAILABLE.
LEMMA FailsLocally ==
    ASSUME SchedulersOK, NEW s \in Scheds, NEW code \in Codes,
           code # "WORKER_UNAVAILABLE", Fails(s, code)
    PROVE  Local(s)'
  BY DEF SchedulersOK, Local, Executing, Fails
\* An error moves s to its error path.
LEMMA FailsTyped ==
    ASSUME SchedulersOK, NEW s \in Scheds, NEW code \in Codes,
           Fails(s, code), UNCHANGED <<step, act, sha, ctx>>
    PROVE  SchedulersOK' /\ OnlyLocal(s)
  <1>1. pc' \in [Scheds -> Labels]
    BY DEF SchedulersOK, Fails, Labels
  <1> QED BY <1>1 DEF SchedulersOK, Fails, OnlyLocal
\* A success moves s to the deferred calls.
LEMMA ReturnsTyped ==
    ASSUME SchedulersOK, NEW s \in Scheds, Returns(s),
           UNCHANGED <<step, act, sha, ctx>>
    PROVE  SchedulersOK' /\ OnlyLocal(s) /\ Local(s)'
  <1>1. pc' \in [Scheds -> Labels] /\ pc'[s] = "unwind"
    BY DEF SchedulersOK, Returns, Labels
  <1>2. err' \in [Scheds -> Codes]
    BY DEF SchedulersOK, Returns, Codes
  <1> QED BY <1>1, <1>2, Stops DEF SchedulersOK, Returns, OnlyLocal
\* A jump of s moves nobody else.
LEMMA GotoTyped ==
    ASSUME SchedulersOK, NEW s \in Scheds, NEW label \in Labels, Goto(s, label)
    PROVE  /\ pc' \in [Scheds -> Labels] /\ pc'[s] = label
           /\ \A t \in Scheds \ {s} : pc'[t] = pc[t]
  BY DEF SchedulersOK, Goto
\* The gate is freed or left to its holder.
LEMMA UnlockTyped ==
    ASSUME OutsideOK, NEW s \in Scheds, UnlockGate(s),
           UNCHANGED <<git, runLock>>
    PROVE  OutsideOK'
  BY DEF OutsideOK, UnlockGate, git
\* A process that is gone keeps no locals.
LEMMA StoppedTyped ==
    ASSUME SchedulersOK, NEW s \in Scheds, Stopped(s)
    PROVE  SchedulersOK' /\ OnlyLocal(s) /\ Local(s)'
  <1>1. pc' \in [Scheds -> Labels] /\ pc'[s] = "off"
    BY DEF SchedulersOK, Stopped, Labels
  <1>2. SchedulersOK'
    BY <1>1 DEF SchedulersOK, Stopped, StepRecord, NoStep, Operations,
                Codes, None
  <1> QED BY <1>1, <1>2, Stops DEF SchedulersOK, Stopped, OnlyLocal

\* SchedStart keeps the types and what the locals hold.
LEMMA SchedStartTyped ==
    ASSUME Typed, NEW s \in Scheds, SchedStart(s)
    PROVE  Typed'
  <1>1. SchedulersOK' /\ OnlyLocal(s) /\ pc'[s] \in {"off", "idle"}
    BY DEF Typed, TypeOK, SchedulersOK, SchedStart, Goto, OnlyLocal, Labels
  <1>2. Local(s)'
    BY <1>1, Stops DEF Typed, TypeOK, SchedulersOK
  <1>3. OutsideOK'
    BY DEF Typed, TypeOK, OutsideOK, SchedStart, git
  <1> QED BY <1>1, <1>2, <1>3, QuietStep DEF SchedStart
\* Interrupted keeps the types and what the locals hold.
LEMMA InterruptedTyped ==
    ASSUME Typed, NEW s \in Scheds, Interrupted(s)
    PROVE  Typed'
  <1>1. SchedulersOK' /\ OnlyLocal(s)
    BY DEF Typed, TypeOK, SchedulersOK, Interrupted, OnlyLocal
  <1>2. Local(s)'
    BY DEF Typed, Shape, LocalsOK, Local, Interrupted, document
  <1>3. OutsideOK'
    BY OutsideFrame DEF Typed, TypeOK, Interrupted
  <1> QED BY <1>1, <1>2, <1>3, QuietStep DEF Interrupted
\* ResolveRef keeps the types and what the locals hold.
LEMMA ResolveRefTyped ==
    ASSUME Typed, NEW s \in Scheds, ResolveRef(s)
    PROVE  Typed'
  <1>1. SchedulersOK' /\ OnlyLocal(s)
    BY DEF Typed, TypeOK, OutsideOK, SchedulersOK, ResolveRef, OnlyLocal,
           Goto, Labels
  <1>2. Local(s)'
    BY DEF Typed, TypeOK, SchedulersOK, Shape, LocalsOK, Local, ResolveRef,
           Goto, Executing
  <1>3. OutsideOK'
    BY OutsideFrame DEF Typed, TypeOK, ResolveRef
  <1> QED BY <1>1, <1>2, <1>3, QuietStep DEF ResolveRef
\* Materialize keeps the types and what the locals hold.
LEMMA MaterializeTyped ==
    ASSUME Typed, NEW s \in Scheds, Materialize(s)
    PROVE  Typed'
  <1>1. SchedulersOK' /\ OnlyLocal(s)
    BY DEF Typed, TypeOK, OutsideOK, SchedulersOK, Materialize, OnlyLocal,
           Goto, Labels
  <1>2. Local(s)'
    BY DEF Typed, TypeOK, SchedulersOK, Shape, LocalsOK, Local, Materialize,
           Goto, Executing
  <1>3. OutsideOK'
    BY OutsideFrame DEF Typed, TypeOK, Materialize
  <1> QED BY <1>1, <1>2, <1>3, QuietStep DEF Materialize
\* A promotion that gives up without writing anything.
LEMMA QuietFailureTyped ==
    ASSUME Typed, NEW s \in Scheds,
           \/ PromoteBusy(s) \/ ConstructFails(s) \/ PreparePromotionFails(s)
           \/ CASUnexplained(s)
    PROVE  Typed'
  <1>1. \E code \in Codes \ {"WORKER_UNAVAILABLE"} : Fails(s, code)
    BY DEF PromoteBusy, ConstructFails, PreparePromotionFails, CASUnexplained,
           Codes
  <1>2. UNCHANGED <<document, others, step, act, sha, ctx>> /\ OutsideOK'
    BY OutsideFrame, UnlockTyped
    DEF Typed, TypeOK, PromoteBusy, ConstructFails, PreparePromotionFails,
        CASUnexplained
  <1> QED BY <1>1, <1>2, FailsLocally, FailsTyped, QuietStep
          DEF Typed, TypeOK
\* PromoteStart keeps the types and what the locals hold.
LEMMA PromoteStartTyped ==
    ASSUME Typed, NEW s \in Scheds, PromoteStart(s)
    PROVE  Typed'
  <1>1. SchedulersOK' /\ OnlyLocal(s)
    BY DEF Typed, TypeOK, SchedulersOK, PromoteStart, OnlyLocal, Goto, Fails,
           Labels, Codes
  <1>2. Local(s)'
    BY DEF Typed, TypeOK, SchedulersOK, Shape, LocalsOK, Local, PromoteStart,
           Goto, Fails, Executing
  <1>3. OutsideOK'
    BY DEF Typed, TypeOK, OutsideOK, PromoteStart, git
  <1> QED BY <1>1, <1>2, <1>3, QuietStep DEF PromoteStart
\* CASRejected keeps the types and what the locals hold.
LEMMA CASRejectedTyped ==
    ASSUME Typed, NEW s \in Scheds, CASRejected(s)
    PROVE  Typed'
  <1>1. SchedulersOK' /\ OnlyLocal(s)
    BY DEF Typed, TypeOK, SchedulersOK, CASRejected, OnlyLocal, Goto, Labels
  <1>2. Local(s)'
    BY DEF Typed, TypeOK, SchedulersOK, Shape, LocalsOK, Local, CASRejected,
           Goto, Executing, document
  <1>3. OutsideOK'
    BY OutsideFrame DEF Typed, TypeOK, CASRejected
  <1> QED BY <1>1, <1>2, <1>3, QuietStep DEF CASRejected
\* Construct keeps the types and what the locals hold.
LEMMA ConstructTyped ==
    ASSUME Typed, NEW s \in Scheds, Construct(s)
    PROVE  Typed'
  <1>1. OutsideOK' /\ (commits < MaxCommits => commits + 1 \in Commits)
    BY BoundsAssumption DEF Typed, TypeOK, OutsideOK, Construct, locks, Commits
  <1>2. SchedulersOK' /\ OnlyLocal(s)
    BY <1>1 DEF Typed, TypeOK, SchedulersOK, Construct, OnlyLocal, Goto, Labels
  <1>3. Local(s)'
    BY <1>1 DEF Typed, TypeOK, SchedulersOK, Shape, LocalsOK, Local, Construct,
                Goto, Executing
  <1> QED BY <1>1, <1>2, <1>3, QuietStep DEF Construct
\* CAS keeps the types and what the locals hold.
LEMMA CASTyped ==
    ASSUME Typed, NEW s \in Scheds, CAS(s) \/ CASFails(s)
    PROVE  Typed'
  <1>1. act[s] \in Journals /\ journal[act[s]].new \in Commits
    BY DEF Typed, Shape, LocalsOK, Local, JournalsOK, CAS, CASFails
  <1>2. OutsideOK'
    BY <1>1 DEF Typed, TypeOK, OutsideOK, CAS, CASFails, UnlockGate, locks
  <1>3. SchedulersOK' /\ OnlyLocal(s)
    BY DEF Typed, TypeOK, SchedulersOK, CAS, CASFails, OnlyLocal, Goto, Fails,
           Labels, Codes
  <1>4. Local(s)'
    BY DEF Typed, TypeOK, SchedulersOK, Shape, LocalsOK, Local, CAS, CASFails,
           Goto, Fails, Executing, document
  <1> QED BY <1>2, <1>3, <1>4, QuietStep DEF CAS, CASFails
-----------------------------------------------------------------------------
(* The parts steps that write the document are made of.                    *)

\* The empty activity and the idle slot.
LEMMA NoStepType == NoStep \in StepRecord /\ IdleSlot \in SlotRecord
  BY DEF NoStep, StepRecord, Operations, IdleSlot, SlotRecord
\* release requeues at most one Change.
LEMMA ReleasedType ==
    ASSUME NEW chs \in [Changes -> ChangeRecord]
    PROVE  Released(chs) \in [Changes -> ChangeRecord]
  <1>1. \A c \in Changes : [chs[c] EXCEPT !.state = "QUEUED"] \in ChangeRecord
    BY StateType DEF States
  <1>2. [chs EXCEPT ![pending.change].state = "QUEUED"]
           \in [Changes -> ChangeRecord]
    BY <1>1
  <1> QED BY <1>2 DEF Released
\* What release writes.
LEMMA ReleaseType ==
    ASSUME DocumentOK, NEW chs \in [Changes -> ChangeRecord], NEW who,
           release(chs) \/ Release(chs, who)
    PROVE  /\ change' \in [Changes -> ChangeRecord]
           /\ slot' \in SlotRecord /\ pending' \in StepRecord
  BY ReleasedType, NoStepType DEF DocumentOK, release, Release, activity
\* What finishActivity writes.
LEMMA finishActivityType ==
    ASSUME DocumentOK, NEW p, finishActivity(p)
    PROVE  /\ requests' \subseteq CIRuns
           /\ slot' \in SlotRecord /\ pending' \in StepRecord
  BY NoStepType DEF DocumentOK, finishActivity
\* Ending an Attempt.
LEMMA EndedType ==
    ASSUME attempt \in [Attempts -> AttemptRecord], NEW k
    PROVE  [attempt EXCEPT ![k].status = "ENDED"]
              \in [Attempts -> AttemptRecord]
  <1>1. \A x \in Attempts :
           [attempt[x] EXCEPT !.status = "ENDED"] \in AttemptRecord
    BY DEF AttemptRecord
  <1> QED BY <1>1
\* Core.block always finds a scope.
LEMMA ScopeType ==
    ASSUME NEW code \in Codes, NEW op,
           code = "WORKER_UNAVAILABLE" => op \in {"mutation", "review"}
    PROVE  Scope(code, op) \in Scopes
  BY DEF Scope, Scopes
\* The step of a Change that can be selected.
LEMMA ChangeStepType ==
    ASSUME DocumentOK, NEW c \in Changes, change[c].stage # "AWAIT_PROMOTION"
    PROVE  /\ ChangeStep(c) \in StepRecord /\ ChangeStep(c).change = c
           /\ ChangeStep(c).op \in Operations
  <1>1. /\ change[c].stage \in Stages
        /\ change[c].artifact \in Artifacts \cup {None}
    BY DEF DocumentOK, ChangeRecord
  <1>2. StageOperation(change[c].stage) \in Operations
    BY <1>1 DEF Stages, StageOperation, Operations
  <1> QED BY <1>1, <1>2 DEF ChangeStep, StepRecord

\* The ways a process that leaves treats the slot, the blockers and run.lock.
LEMMA LeavesTyped ==
    ASSUME DocumentOK, OutsideOK, NEW s \in Scheds
    PROVE  /\ KeepsSlot(s) => /\ change' \in [Changes -> ChangeRecord]
                              /\ slot' \in SlotRecord /\ pending' \in StepRecord
           /\ EmergencyBlock => blockers' \subseteq Scopes
           /\ KeepsLock(s) => runLock' \in Scheds \cup {"free", "stale"}
           /\ FailStopLock(s) => /\ blockers' \subseteq Scopes
                                 /\ runLock' \in Scheds \cup {"free", "stale"}
  <1>1. KeepsSlot(s) => /\ change' \in [Changes -> ChangeRecord]
                        /\ slot' \in SlotRecord /\ pending' \in StepRecord
    BY DEF DocumentOK, KeepsSlot, SlotRecord
  <1>2. EmergencyBlock => blockers' \subseteq Scopes
    BY DEF DocumentOK, EmergencyBlock, EmergencyBlocked, Scopes
  <1>3. KeepsLock(s) => runLock' \in Scheds \cup {"free", "stale"}
    BY DEF OutsideOK, KeepsLock
  <1>4. FailStopLock(s) => /\ blockers' \subseteq Scopes
                           /\ runLock' \in Scheds \cup {"free", "stale"}
    BY <1>2, <1>3 DEF DocumentOK, FailStopLock, Scopes
  <1> QED BY <1>1, <1>2, <1>3, <1>4
\* SchedStop and IdleFails keep the types and what the locals hold.
LEMMA SchedStopTyped ==
    ASSUME Typed, NEW s \in Scheds, SchedStop(s) \/ IdleFails(s)
    PROVE  Typed'
  <1>1. /\ change' \in [Changes -> ChangeRecord]
        /\ slot' \in SlotRecord /\ pending' \in StepRecord
        /\ blockers' \subseteq Scopes
        /\ runLock' \in Scheds \cup {"free", "stale"}
    BY ReleaseType, LeavesTyped
    DEF Typed, TypeOK, DocumentOK, SchedStop, IdleFails
  <1>2. DocumentOK'
    BY <1>1 DEF Typed, TypeOK, DocumentOK, SchedStop, IdleFails, evidence,
                work, task
  <1>3. OutsideOK'
    BY <1>1 DEF Typed, TypeOK, OutsideOK, SchedStop, IdleFails, git
  <1> QED BY <1>2, <1>3, StoppedTyped, DocumentStep
          DEF Typed, TypeOK, SchedStop, IdleFails
\* Select keeps the types and what the locals hold.
LEMMA SelectTyped ==
    ASSUME Typed, NEW s \in Scheds, NEW p \in StepRecord,
           p.op \in Operations, p.op # "ci" => p.change \in Changes,
           Select(s, p), UNCHANGED <<act, sha, err, ctx>>
    PROVE  /\ slot' \in SlotRecord /\ pending' \in StepRecord
           /\ SchedulersOK' /\ OnlyLocal(s) /\ Local(s)'
  <1>1. slot' \in SlotRecord /\ pending' \in StepRecord
    BY DEF Select, SlotRecord
  <1>2. /\ pc' \in [Scheds -> Labels] /\ step' \in [Scheds -> StepRecord]
        /\ pc'[s] = (IF p.op = "ci" THEN "ciPrepare" ELSE "resolve")
        /\ step'[s] = p /\ OnlyLocal(s)
    BY DEF Typed, TypeOK, SchedulersOK, Select, Goto, Labels, OnlyLocal
  <1>3. SchedulersOK'
    BY <1>2 DEF Typed, TypeOK, SchedulersOK
  <1>4. Local(s)'
    BY <1>2 DEF Local, Executing, Operations
  <1> QED BY <1>1, <1>2, <1>3, <1>4
\* NextRequest keeps the types and what the locals hold.
LEMMA NextRequestTyped ==
    ASSUME Typed, NEW s \in Scheds, NextRequest(s)
    PROVE  Typed'
  <1>1. PICK r \in requests : Select(s, RequestStep(r))
    BY DEF NextRequest
  <1>2. r \in CIRuns /\ run[r].artifact \in Artifacts \cup {None}
    BY DEF Typed, TypeOK, DocumentOK, RunRecord
  <1>3. RequestStep(r) \in StepRecord /\ RequestStep(r).op = "ci"
    BY <1>2 DEF RequestStep, StepRecord, Operations
  <1>4. /\ slot' \in SlotRecord /\ pending' \in StepRecord
        /\ SchedulersOK' /\ OnlyLocal(s) /\ Local(s)'
    BY <1>1, <1>3, SelectTyped DEF NextRequest, Operations
  <1>5. DocumentOK' /\ OutsideOK'
    BY <1>4, OutsideFrame
    DEF Typed, TypeOK, DocumentOK, NextRequest, evidence, work, task
  <1> QED BY <1>4, <1>5, DocumentStep DEF NextRequest
\* NextChange keeps the types and what the locals hold.
LEMMA NextChangeTyped ==
    ASSUME Typed, NEW s \in Scheds, NextChange(s)
    PROVE  Typed'
  <1> DEFINE queue == {c \in Changes : /\ change[c].state = "QUEUED"
                                       /\ change[c].stage # "AWAIT_PROMOTION"}
             Drifted(c) == change[c].base # taskSHA
             ready(poor) == {c \in queue \ poor :
                                ~Drifted(c) /\ runnable(ChangeStep(c))}
             First(c, poor) == \A d \in ready(poor) \ {c} : Before(c, d)
             Passed(d, poor) == \A c \in ready(poor) : Before(d, c)
  <1>1. PICK poor :
          /\ change' = [d \in Changes |->
               IF d \in ready(poor) /\ First(d, poor)
               THEN [change[d] EXCEPT !.state = "RUNNING", !.started = TRUE]
               ELSE IF d \in queue /\ Passed(d, poor) /\ Drifted(d)
               THEN [change[d] EXCEPT !.state = "STALE"]
               ELSE IF d \in poor /\ Passed(d, poor)
               THEN [change[d] EXCEPT !.state = "BLOCKED"]
               ELSE change[d]]
          /\ IF ready(poor) = {} THEN UNCHANGED <<activity, step, pc>>
             ELSE \E c \in ready(poor) :
                     First(c, poor) /\ Select(s, ChangeStep(c))
    BY DEF NextChange
  <1>2. change' \in [Changes -> ChangeRecord]
    <2>1. \A d \in Changes :
             /\ change[d] \in ChangeRecord
             /\ [change[d] EXCEPT !.state = "RUNNING", !.started = TRUE]
                   \in ChangeRecord
             /\ [change[d] EXCEPT !.state = "STALE"] \in ChangeRecord
             /\ [change[d] EXCEPT !.state = "BLOCKED"] \in ChangeRecord
      BY StartedType, StateType DEF Typed, TypeOK, DocumentOK, States
    <2> HIDE DEF queue, ready, First, Passed, Drifted
    <2> QED BY <1>1, <2>1
  <1>3. /\ slot' \in SlotRecord /\ pending' \in StepRecord
        /\ SchedulersOK' /\ OnlyLocal(s) /\ Local(s)'
    <2>1. UNCHANGED <<act, sha, err, ctx, journal>>
      BY DEF NextChange
    <2>2. CASE ready(poor) = {}
      <3>1. UNCHANGED <<slot, pending, step, pc>>
        BY <1>1, <2>2 DEF activity
      <3> QED BY <2>1, <3>1 DEF Typed, TypeOK, DocumentOK, SchedulersOK,
                                OnlyLocal, Shape, LocalsOK, Local
    <2>3. CASE ready(poor) # {}
      <3>1. PICK c \in ready(poor) : Select(s, ChangeStep(c))
        BY <1>1, <2>3
      <3>2. c \in Changes /\ change[c].stage # "AWAIT_PROMOTION"
        BY <3>1
      <3>3. /\ ChangeStep(c) \in StepRecord /\ ChangeStep(c).change = c
            /\ ChangeStep(c).op \in Operations
        BY <3>2, ChangeStepType DEF Typed, TypeOK
      <3> QED BY <2>1, <3>1, <3>2, <3>3, SelectTyped
    <2> QED BY <2>2, <2>3
  <1>4. DocumentOK' /\ OutsideOK'
    BY <1>2, <1>3, OutsideFrame
    DEF Typed, TypeOK, DocumentOK, NextChange, evidence, work, task
  <1> QED BY <1>3, <1>4, DocumentStep DEF NextChange
\* ResolveRefFails keeps the types and what the locals hold.
LEMMA ResolveRefFailsTyped ==
    ASSUME Typed, NEW s \in Scheds, ResolveRefFails(s)
    PROVE  Typed'
  <1>1. DocumentOK'
    BY DEF Typed, TypeOK, DocumentOK, ResolveRefFails, evidence, work,
           activity, task, Scopes, EmergencyBlock, EmergencyBlocked
  <1> QED BY <1>1, FailsTyped, FailsLocally, OutsideFrame, DocumentStep
          DEF Typed, TypeOK, ResolveRefFails, Codes
\* StorageFails keeps the types and what the locals hold.
LEMMA StorageFailsTyped ==
    ASSUME Typed, NEW s \in Scheds, StorageFails(s)
    PROVE  Typed'
  <1>1. DocumentOK'
    BY DEF Typed, TypeOK, DocumentOK, StorageFails, evidence, work,
           activity, task, Scopes, EmergencyBlock, EmergencyBlocked
  <1> QED BY <1>1, FailsTyped, FailsLocally, UnlockTyped, DocumentStep
          DEF Typed, TypeOK, StorageFails, Codes
\* Refused keeps the types and what the locals hold.
LEMMA RefusedTyped ==
    ASSUME Typed, NEW s \in Scheds, Refused(s)
    PROVE  Typed'
  <1>1. DocumentOK'
    BY DEF Typed, TypeOK, DocumentOK, Refused, evidence, work,
           activity, task, Scopes, EmergencyBlock, EmergencyBlocked
  <1>2. AdmissionError(s) \in Codes \ {"WORKER_UNAVAILABLE"}
    BY DEF AdmissionError, Codes
  <1> QED BY <1>1, <1>2, FailsTyped, FailsLocally, OutsideFrame, DocumentStep
          DEF Typed, TypeOK, Refused
\* EndPromotion keeps the types and what the locals hold.
LEMMA EndPromotionTyped ==
    ASSUME Typed, NEW s \in Scheds, EndPromotion(s)
    PROVE  Typed'
  <1> DEFINE c == step[s].change
             ch == Set(change[c], change[c].stage, "STALE")
  <1>1. SchedulersOK' /\ OnlyLocal(s) /\ Local(s)'
    BY FailsTyped, FailsLocally, ReturnsTyped
    DEF Typed, TypeOK, EndPromotion, Codes
  <1>2. change' \in [Changes -> ChangeRecord]
    <2>1. c \in Changes => ch \in ChangeRecord
      BY KeepStage DEF Typed, TypeOK, DocumentOK, States
    <2>2. change' = change \/ change' = [change EXCEPT ![c] = ch]
      BY DEF EndPromotion
    <2> HIDE DEF c, ch
    <2> QED BY <2>1, <2>2, ChangeType DEF Typed, TypeOK, DocumentOK
  <1>3. /\ requests' \subseteq CIRuns
        /\ slot' \in SlotRecord /\ pending' \in StepRecord
    BY finishActivityType DEF Typed, TypeOK, DocumentOK, EndPromotion, activity
  <1>4. taskSHA' \in Commits /\ blockers' \subseteq Scopes
    BY DEF Typed, TypeOK, DocumentOK, SchedulersOK, EndPromotion,
           EmergencyBlock, EmergencyBlocked, Scopes
  <1>5. DocumentOK'
    BY <1>2, <1>3, <1>4 DEF Typed, TypeOK, DocumentOK, EndPromotion, evidence
  <1>6. OutsideOK'
    BY UnlockTyped DEF Typed, TypeOK, EndPromotion
  <1> QED BY <1>1, <1>5, <1>6, DocumentStep DEF EndPromotion
\* PrepareAttempt keeps the types and what the locals hold.
LEMMA PrepareAttemptTyped ==
    ASSUME Typed, NEW s \in Scheds, NEW k \in Attempts, PrepareAttempt(s, k)
    PROVE  Typed'
  <1> DEFINE p == step[s]
  <1>1. p \in StepRecord /\ p.change \in Changes
    BY DEF Typed, TypeOK, SchedulersOK, Shape, LocalsOK, Local, Executing,
           PrepareAttempt
  <1>2. attempt' \in [Attempts -> AttemptRecord]
    BY <1>1 DEF Typed, TypeOK, DocumentOK, PrepareAttempt, AttemptRecord,
                StepRecord
  <1>3. change' \in [Changes -> ChangeRecord]
    <2>1. [change[p.change] EXCEPT !.review = k] \in ChangeRecord
      BY <1>1, ReviewType DEF Typed, TypeOK, DocumentOK
    <2>2. \/ change' = change
          \/ change' = [change EXCEPT ![p.change] =
                           [change[p.change] EXCEPT !.review = k]]
      BY DEF PrepareAttempt
    <2> QED BY <2>1, <2>2, ChangeType DEF Typed, TypeOK, DocumentOK
  <1>4. DocumentOK'
    BY <1>2, <1>3 DEF Typed, TypeOK, DocumentOK, PrepareAttempt, evidence,
                      activity, task
  <1>5. SchedulersOK' /\ OnlyLocal(s)
    BY DEF Typed, TypeOK, SchedulersOK, PrepareAttempt, Goto, Labels,
           OnlyLocal, Attempts
  <1>6. Local(s)'
    BY DEF Typed, TypeOK, SchedulersOK, Shape, LocalsOK, Local, Goto,
           PrepareAttempt, Executing
  <1> QED BY <1>4, <1>5, <1>6, OutsideFrame, DocumentStep
          DEF Typed, TypeOK, PrepareAttempt
\* Complete keeps the types and what the locals hold.
LEMMA CompleteTyped ==
    ASSUME Typed, NEW s \in Scheds, NEW how \in Endings,
           NEW result \in Verdicts, NEW a \in Artifacts \cup {None},
           Complete(s, how, result, a)
    PROVE  Typed'
  <1> DEFINE p == step[s]
             k == act[s]
             c == p.change
             stopped == how = "INTERRUPTED" \/ k \in interrupts \/ cancelled
             ch == IF a # None THEN Captured(change[c], a) ELSE change[c]
             paused == stopped \/ ch.state \in {"PAUSED", "ABORTED"}
             rv == [attempt |-> k, ci |-> ch.ci,
                    verdict |-> IF result = "APPROVE" THEN "APPROVE"
                                                      ELSE "REJECT"]
             rch == [ch EXCEPT !.review = k]
             moved ==
                 IF paused
                 THEN IF ch.state = "ABORTED" THEN ch
                      ELSE Set(ch, ch.stage, "PAUSED")
                 ELSE IF how \in Infrastructure THEN ch
                 ELSE IF how # "RETURNED" THEN Set(ch, ch.stage, "BLOCKED")
                 ELSE IF p.op = "mutation"
                 THEN IF a = None \/ result = "DROP_FINAL"
                      THEN Set(ch, "MUTATION", "BLOCKED")
                      ELSE IF result = "PROMOTE_FINAL"
                      THEN Set(ch, "CI", "QUEUED")
                      ELSE Set(ch, "MUTATION", "QUEUED")
                 ELSE IF PromotionEvidence(c, rch, rv)
                 THEN Set(rch, "AWAIT_PROMOTION", "QUEUED")
                 ELSE IF result = "REJECT_WITH_FINDINGS"
                 THEN Set(rch, "MUTATION", "QUEUED")
                 ELSE Set(rch, "REVIEW", "BLOCKED")
  <1>1. /\ p \in StepRecord /\ c \in Changes /\ k \in Attempts
        /\ p.op \in {"mutation", "review"}
    BY DEF Typed, TypeOK, SchedulersOK, Shape, LocalsOK, Local, Executing,
           Complete
  <1>2. change[c] \in ChangeRecord
    BY <1>1 DEF Typed, TypeOK, DocumentOK
  <1>3. ch \in ChangeRecord
    BY <1>2, CapturedType
  <1>4. rch \in ChangeRecord
    <2> HIDE DEF ch, k
    <2> QED BY <1>1, <1>3, ReviewType
  <1>5. moved \in ChangeRecord
    <2> HIDE DEF ch, rch, rv, k, p, paused
    <2> QED BY <1>3, <1>4, SetType, KeepStage DEF Stages, States
  <1>6. [change EXCEPT ![c] = moved] \in [Changes -> ChangeRecord]
    <2> HIDE DEF moved, c
    <2> QED BY <1>5, ChangeType DEF Typed, TypeOK, DocumentOK
  <1>7. rv \in ReviewRecord
    <2>1. ch.ci \in CIRuns \cup {None}
      <3> HIDE DEF ch
      <3> QED BY <1>3 DEF ChangeRecord
    <2> HIDE DEF ch, k
    <2> QED BY <1>1, <2>1 DEF ReviewRecord
  <1>8. /\ attempt' = [attempt EXCEPT ![k].status = "ENDED"]
        /\ interrupts' = interrupts \ {k}
        /\ owner' = IF a # None THEN [owner EXCEPT ![a] = c] ELSE owner
        /\ review' = review \/ review' = [review EXCEPT ![p.target] = rv]
        /\ \/ /\ release([change EXCEPT ![c] = moved])
              /\ how \in Infrastructure
              /\ blockers' = blockers \cup {Scope(how, p.op)}
              /\ UNCHANGED requests
           \/ /\ change' = [change EXCEPT ![c] = moved]
              /\ finishActivity(p) /\ UNCHANGED blockers
        /\ \/ how \in Infrastructure \cup {"LIMIT_EXCEEDED"} /\ Fails(s, how)
           \/ Returns(s)
        /\ UNCHANGED <<run, latestCI, journal, task, git, locks, step, act,
                       sha, ctx, others>>
    BY Zenon DEF Complete
  <1>9. DocumentOK'
    <2>1. attempt' \in [Attempts -> AttemptRecord]
      BY <1>8, EndedType DEF Typed, TypeOK, DocumentOK
    <2>2. owner' \in [Artifacts -> Changes \cup {None}]
      BY <1>1, <1>8 DEF Typed, TypeOK, DocumentOK
    <2>3. review' \in [Artifacts -> ReviewRecord]
      <3> DEFINE written == [review EXCEPT ![p.target] = rv]
      <3> HIDE DEF rv
      <3>1. review \in [Artifacts -> ReviewRecord]
        BY DEF Typed, TypeOK, DocumentOK
      <3>2. written \in [Artifacts -> ReviewRecord]
        <4> HIDE DEF p
        <4> QED BY <1>7, <3>1
      <3>3. review' = review \/ review' = written
        BY <1>8
      <3> HIDE DEF written
      <3> QED BY <3>1, <3>2, <3>3
    <2>4. /\ change' \in [Changes -> ChangeRecord]
          /\ slot' \in SlotRecord /\ pending' \in StepRecord
          /\ requests' \subseteq CIRuns
      <3> HIDE DEF moved, c, p
      <3> QED BY <1>6, <1>8, ReleaseType, finishActivityType
              DEF Typed, TypeOK, DocumentOK
    <2>5. blockers' \subseteq Scopes
      <3> DEFINE scope == Scope(how, p.op)
      <3>1. how \in Infrastructure => scope \in Scopes
        BY <1>1, ScopeType DEF Infrastructure, Codes
      <3>2. \/ how \in Infrastructure /\ blockers' = blockers \cup {scope}
            \/ blockers' = blockers
        BY <1>8
      <3>3. blockers \subseteq Scopes
        BY DEF Typed, TypeOK, DocumentOK
      <3> HIDE DEF scope
      <3> QED BY <3>1, <3>2, <3>3
    <2>6. UNCHANGED <<run, latestCI, journal, taskStatus, taskSHA, cancelled>>
      BY <1>8 DEF task
    <2> QED BY <2>1, <2>2, <2>3, <2>4, <2>5, <2>6, <1>8
            DEF Typed, TypeOK, DocumentOK
  <1>10. SchedulersOK' /\ OnlyLocal(s) /\ Local(s)'
    <2>1. CASE Returns(s)
      BY <2>1, <1>8, ReturnsTyped DEF Typed, TypeOK
    <2>2. CASE how \in Infrastructure \cup {"LIMIT_EXCEEDED"} /\ Fails(s, how)
      <3>1. how \in Codes
        BY <2>2 DEF Infrastructure, Codes
      <3>2. SchedulersOK' /\ OnlyLocal(s)
        BY <2>2, <3>1, <1>8, FailsTyped DEF Typed, TypeOK
      <3>3. /\ pc'[s] \in {"failed", "unwind"}
            /\ step'[s] = step[s]
        BY <2>2, <1>8 DEF Typed, TypeOK, SchedulersOK, Fails
      <3>4. Local(s)'
        BY <3>3, <1>1 DEF Local, Executing
      <3> QED BY <3>2, <3>4
    <2> QED BY <2>1, <2>2, <1>8
  <1> QED BY <1>8, <1>9, <1>10, OutsideFrame, DocumentStep DEF Typed, TypeOK
\* PrepareCI keeps the types and what the locals hold.
LEMMA PrepareCITyped ==
    ASSUME Typed, NEW s \in Scheds, NEW r \in CIRuns, PrepareCI(s, r)
    PROVE  Typed'
  <1> DEFINE p == step[s]
             ch == [change[p.change] EXCEPT !.ci = r, !.review = None]
  <1>1. p \in StepRecord
    BY DEF Typed, TypeOK, SchedulersOK
  <1>2. run' \in [CIRuns -> RunRecord]
    BY <1>1 DEF Typed, TypeOK, DocumentOK, PrepareCI, RunRecord, StepRecord
  <1>3. change' \in [Changes -> ChangeRecord]
    <2>1. p.change \in Changes => ch \in ChangeRecord
      BY PreparedType DEF Typed, TypeOK, DocumentOK
    <2>2. \/ change' = change
          \/ /\ p.change \in Changes
             /\ change' = [change EXCEPT ![p.change].ci = r,
                                         ![p.change].review = None]
      BY <1>1 DEF PrepareCI, StepRecord
    <2>3. p.change \in Changes =>
             [change EXCEPT ![p.change].ci = r, ![p.change].review = None]
               = [change EXCEPT ![p.change] = ch]
      BY DEF Typed, TypeOK, DocumentOK
    <2> HIDE DEF ch, p
    <2> QED BY <2>1, <2>2, <2>3, ChangeType DEF Typed, TypeOK, DocumentOK
  <1>4. DocumentOK'
    BY <1>2, <1>3 DEF Typed, TypeOK, DocumentOK, PrepareCI, work, activity,
                      task
  <1>5. SchedulersOK' /\ OnlyLocal(s)
    BY DEF Typed, TypeOK, SchedulersOK, PrepareCI, Goto, Labels, OnlyLocal,
           CIRuns
  <1>6. Local(s)'
    BY DEF Typed, TypeOK, SchedulersOK, Local, Goto, PrepareCI, Executing
  <1> QED BY <1>4, <1>5, <1>6, OutsideFrame, DocumentStep
          DEF Typed, TypeOK, PrepareCI
\* OpenLogs keeps the types and what the locals hold.
LEMMA OpenLogsTyped ==
    ASSUME Typed, NEW s \in Scheds, OpenLogs(s)
    PROVE  Typed'
  <1>1. run' \in [CIRuns -> RunRecord]
    <2>1. \A r \in CIRuns : [run[r] EXCEPT !.logs = TRUE] \in RunRecord
      BY DEF Typed, TypeOK, DocumentOK, RunRecord
    <2> QED BY <2>1 DEF Typed, TypeOK, DocumentOK, OpenLogs
  <1>2. DocumentOK'
    BY <1>1 DEF Typed, TypeOK, DocumentOK, OpenLogs, work, activity, task
  <1> QED BY <1>2, OutsideUnchanged DEF OpenLogs
\* Moving a CI run on.
LEMMA RunStatusType ==
    ASSUME DocumentOK, NEW r, NEW status \in Outcomes \cup {"RUNNING"}
    PROVE  [run EXCEPT ![r].status = status] \in [CIRuns -> RunRecord]
  <1>1. \A x \in CIRuns : [run[x] EXCEPT !.status = status] \in RunRecord
    BY DEF DocumentOK, RunRecord, Outcomes
  <1> QED BY <1>1 DEF DocumentOK
\* MarkCIRunning keeps the types and what the locals hold.
LEMMA MarkCIRunningTyped ==
    ASSUME Typed, NEW s \in Scheds, MarkCIRunning(s)
    PROVE  Typed'
  <1>1. run' \in [CIRuns -> RunRecord]
    <2>1. [run EXCEPT ![act[s]].status = "RUNNING"]
             \in [CIRuns -> RunRecord]
      BY RunStatusType DEF Typed, TypeOK
    <2> QED BY <2>1 DEF Typed, TypeOK, DocumentOK, MarkCIRunning
  <1>2. DocumentOK'
    BY <1>1 DEF Typed, TypeOK, DocumentOK, MarkCIRunning, work, activity, task
  <1>3. SchedulersOK' /\ OnlyLocal(s)
    BY DEF Typed, TypeOK, SchedulersOK, MarkCIRunning, Goto, Fails, Labels,
           Codes, OnlyLocal
  <1>4. Local(s)'
    BY DEF Typed, TypeOK, SchedulersOK, Shape, LocalsOK, Local, MarkCIRunning,
           Goto, Fails, Executing
  <1> QED BY <1>2, <1>3, <1>4, OutsideFrame, DocumentStep
          DEF Typed, TypeOK, MarkCIRunning
\* FinishCI keeps the types and what the locals hold.
LEMMA FinishCITyped ==
    ASSUME Typed, NEW s \in Scheds, NEW outcome \in Outcomes,
           NEW code \in CIErrors, FinishCI(s, outcome, code)
    PROVE  Typed'
  <1> DEFINE p == step[s]
             c == p.change
             r == act[s]
             ch == change[c]
             moved == IF ch.state = "ABORTED" THEN ch
                      ELSE IF ch.state = "PAUSED" \/ cancelled
                              \/ outcome = "TERMINATED"
                      THEN Set(ch, ch.stage, "PAUSED")
                      ELSE IF TimeoutStreak(c, run') >= 2
                      THEN Set(ch, "CI", "BLOCKED")
                      ELSE Set(ch, "REVIEW", "QUEUED")
  <1>1. r \in CIRuns
    BY DEF Typed, Shape, LocalsOK, Local, FinishCI
  <1>2. change' \in [Changes -> ChangeRecord]
    <2>1. c \in Changes => ch \in ChangeRecord
      BY DEF Typed, TypeOK, DocumentOK
    <2>2. c \in Changes => moved \in ChangeRecord
      <3> HIDE DEF ch
      <3> QED BY <2>1, SetType, KeepStage DEF Stages, States
    <2>3. change' = change \/ change' = [change EXCEPT ![c] = moved]
      BY DEF FinishCI
    <2> HIDE DEF moved, c
    <2> QED BY <2>2, <2>3, ChangeType DEF Typed, TypeOK, DocumentOK
  <1>3. run' \in [CIRuns -> RunRecord]
    BY RunStatusType DEF Typed, TypeOK, DocumentOK, FinishCI
  <1>4. latestCI' \in [Artifacts -> CIRuns \cup {None}]
    BY <1>1 DEF Typed, TypeOK, DocumentOK, FinishCI
  <1>5. /\ requests' \subseteq CIRuns
        /\ slot' \in SlotRecord /\ pending' \in StepRecord
    BY finishActivityType DEF Typed, TypeOK, FinishCI
  <1>6. DocumentOK'
    BY <1>2, <1>3, <1>4, <1>5 DEF Typed, TypeOK, DocumentOK, FinishCI, task
  <1>7. SchedulersOK' /\ OnlyLocal(s) /\ Local(s)'
    BY FailsTyped, FailsLocally, ReturnsTyped
    DEF Typed, TypeOK, FinishCI, CIErrors, Codes
  <1> QED BY <1>6, <1>7, OutsideFrame, DocumentStep DEF Typed, TypeOK, FinishCI

\* EvidenceChanged keeps the types and what the locals hold.
LEMMA EvidenceChangedTyped ==
    ASSUME Typed, NEW s \in Scheds, EvidenceChanged(s)
    PROVE  Typed'
  <1> DEFINE c == step[s].change
             ch == Set(change[c], "REVIEW", "BLOCKED")
  <1>1. change' \in [Changes -> ChangeRecord]
    <2>1. c \in Changes => ch \in ChangeRecord
      BY SetType DEF Typed, TypeOK, DocumentOK, Stages, States
    <2>2. change' = change \/ change' = [change EXCEPT ![c] = ch]
      BY DEF EvidenceChanged
    <2> HIDE DEF c, ch
    <2> QED BY <2>1, <2>2, ChangeType DEF Typed, TypeOK, DocumentOK
  <1>2. DocumentOK'
    BY <1>1 DEF Typed, TypeOK, DocumentOK, EvidenceChanged, evidence, work,
                activity, task
  <1>3. SchedulersOK' /\ OnlyLocal(s) /\ Local(s)'
    BY FailsTyped, FailsLocally, ReturnsTyped
    DEF Typed, TypeOK, EvidenceChanged, Codes
  <1> QED BY <1>2, <1>3, UnlockTyped, DocumentStep
          DEF Typed, TypeOK, EvidenceChanged
\* PreparePromotion keeps the types and what the locals hold.
LEMMA PreparePromotionTyped ==
    ASSUME Typed, NEW s \in Scheds, NEW j \in Journals, PreparePromotion(s, j)
    PROVE  Typed'
  <1> DEFINE p == step[s]
             prepared == [state |-> "PREPARED", artifact |-> p.target,
                          old |-> change[p.change].base, new |-> sha[s]]
  <1>1. /\ p \in StepRecord /\ p.change \in Changes /\ sha[s] \in Commits
        /\ change[p.change].base \in Commits \cup {None}
    BY DEF Typed, TypeOK, DocumentOK, SchedulersOK, Shape, LocalsOK, Local,
           Executing, PreparePromotion, ChangeRecord
  <1>2. /\ prepared \in JournalRecord /\ prepared.state = "PREPARED"
        /\ prepared.new \in Commits
    BY <1>1 DEF StepRecord, JournalRecord
  <1>3. journal' = [journal EXCEPT ![j] = prepared]
    BY DEF PreparePromotion
  <1>4. journal' \in [Journals -> JournalRecord] /\ Kept /\ JournalsOK'
    <2> HIDE DEF prepared
    <2> QED BY <1>2, <1>3 DEF Typed, TypeOK, DocumentOK, Shape, JournalsOK,
                              Kept
  <1>5. DocumentOK'
    BY <1>4 DEF Typed, TypeOK, DocumentOK, PreparePromotion, evidence, work,
                activity, task
  <1>6. SchedulersOK' /\ OnlyLocal(s)
    BY DEF Typed, TypeOK, SchedulersOK, PreparePromotion, Goto, Labels,
           OnlyLocal, Journals, None
  <1>7. pc'[s] = "cas" /\ act'[s] = j /\ step'[s] = step[s]
    BY DEF Typed, TypeOK, SchedulersOK, PreparePromotion, Goto
  <1>8. journal'[j].state # "NONE"
    <2> HIDE DEF prepared
    <2> QED BY <1>2, <1>3 DEF Typed, TypeOK, DocumentOK
  <1>9. Local(s)'
    BY <1>1, <1>7, <1>8 DEF Local, Executing
  <1> QED BY <1>4, <1>5, <1>6, <1>9, OutsideFrame, SchedulerStep
          DEF Typed, TypeOK, PreparePromotion
\* Settling a journal that was written.
LEMMA JournalStateType ==
    ASSUME Typed, NEW j \in Journals, journal[j].state # "NONE",
           NEW state \in {"APPLIED", "CONFLICT", "NOT_APPLIED"},
           journal' = [journal EXCEPT ![j].state = state]
    PROVE  journal' \in [Journals -> JournalRecord] /\ Kept /\ JournalsOK'
  <1>1. \A i \in Journals :
           /\ [journal[i] EXCEPT !.state = state] \in JournalRecord
           /\ [journal[i] EXCEPT !.state = state].state = state
           /\ [journal[i] EXCEPT !.state = state].new = journal[i].new
    BY DEF Typed, TypeOK, DocumentOK, JournalRecord
  <1>2. journal' \in [Journals -> JournalRecord]
    BY <1>1 DEF Typed, TypeOK, DocumentOK
  <1>3. ASSUME NEW i \in Journals
        PROVE  /\ journal[i].state # "NONE" => journal'[i].state # "NONE"
               /\ journal'[i].new = journal[i].new
               /\ i # j => journal'[i] = journal[i]
    BY <1>1 DEF Typed, TypeOK, DocumentOK
  <1> QED BY <1>2, <1>3 DEF Typed, Shape, JournalsOK, Kept
\* CASConflict keeps the types and what the locals hold.
LEMMA CASConflictTyped ==
    ASSUME Typed, NEW s \in Scheds, CASConflict(s)
    PROVE  Typed'
  <1>1. /\ act[s] \in Journals /\ journal[act[s]].state # "NONE"
        /\ step[s].change \in Changes
    BY DEF Typed, Shape, LocalsOK, Local, Executing, CASConflict
  <1>2. journal' \in [Journals -> JournalRecord] /\ Kept /\ JournalsOK'
    BY <1>1, JournalStateType DEF CASConflict
  <1>3. DocumentOK'
    BY <1>2 DEF Typed, TypeOK, DocumentOK, CASConflict, evidence, work,
                activity, task
  <1>4. SchedulersOK' /\ OnlyLocal(s) /\ pc'[s] = "conflicted"
    BY DEF Typed, TypeOK, SchedulersOK, CASConflict, Goto, Labels, OnlyLocal
  <1>5. Local(s)'
    BY <1>1, <1>4 DEF Local, CASConflict
  <1> QED BY <1>2, <1>3, <1>4, <1>5, OutsideFrame, SchedulerStep
          DEF Typed, TypeOK, CASConflict
\* ApplyPromotion keeps the types and what the locals hold.
LEMMA ApplyPromotionTyped ==
    ASSUME Typed, NEW s \in Scheds, ApplyPromotion(s)
    PROVE  Typed'
  <1> DEFINE j == act[s]
             c == owner[journal[j].artifact]
             ch == Set(change[c], "PROMOTION", "DONE")
  <1>1. /\ j \in Journals /\ journal[j].state # "NONE"
        /\ journal[j].new \in Commits
    BY DEF Typed, Shape, LocalsOK, Local, JournalsOK, ApplyPromotion
  <1>2. journal' \in [Journals -> JournalRecord] /\ Kept /\ JournalsOK'
    <2>1. CASE UNCHANGED journal
      BY <2>1 DEF Typed, TypeOK, DocumentOK, Shape, JournalsOK, Kept
    <2>2. CASE journal' = [journal EXCEPT ![j].state = "APPLIED"]
      <3> HIDE DEF j
      <3> QED BY <2>2, <1>1, JournalStateType
    <2> QED BY <2>1, <2>2 DEF ApplyPromotion
  <1>3. change' \in [Changes -> ChangeRecord]
    <2>1. c \in Changes => ch \in ChangeRecord
      BY SetType DEF Typed, TypeOK, DocumentOK, Stages, States
    <2>2. change' = change \/ change' = [change EXCEPT ![c] = ch]
      BY DEF ApplyPromotion
    <2> HIDE DEF c, ch
    <2> QED BY <2>1, <2>2, ChangeType DEF Typed, TypeOK, DocumentOK
  <1>4. /\ requests' \subseteq CIRuns
        /\ slot' \in SlotRecord /\ pending' \in StepRecord
    BY finishActivityType
    DEF Typed, TypeOK, DocumentOK, ApplyPromotion, activity
  <1>5. taskSHA' \in Commits /\ blockers' \subseteq Scopes
    BY <1>1 DEF Typed, TypeOK, DocumentOK, ApplyPromotion, EmergencyBlock,
                EmergencyBlocked, Scopes
  <1>6. DocumentOK'
    BY <1>2, <1>3, <1>4, <1>5
    DEF Typed, TypeOK, DocumentOK, ApplyPromotion, evidence
  <1>7. SchedulersOK' /\ OnlyLocal(s) /\ Local(s)'
    BY FailsTyped, FailsLocally, ReturnsTyped
    DEF Typed, TypeOK, ApplyPromotion, Codes
  <1> QED BY <1>2, <1>6, <1>7, UnlockTyped, SchedulerStep
          DEF Typed, TypeOK, ApplyPromotion
\* FailedStep keeps the types and what the locals hold.
LEMMA FailedStepTyped ==
    ASSUME Typed, NEW s \in Scheds, FailedStep(s)
    PROVE  Typed'
  <1>1. Scope(err[s], step[s].op) \in Scopes
    <2>1. /\ err[s] \in Codes
          /\ err[s] = "WORKER_UNAVAILABLE" =>
                step[s].op \in {"mutation", "review"}
      BY DEF Typed, TypeOK, SchedulersOK, Shape, LocalsOK, Local, FailedStep
    <2> QED BY <2>1, ScopeType
  <1>2. blockers' \subseteq Scopes
    BY <1>1, LeavesTyped
    DEF Typed, TypeOK, DocumentOK, FailedStep, TryRelease, EmergencyBlocked,
        Scopes
  <1>3. /\ change' \in [Changes -> ChangeRecord]
        /\ slot' \in SlotRecord /\ pending' \in StepRecord
    BY ReleaseType
    DEF Typed, TypeOK, DocumentOK, FailedStep, TryRelease, activity
  <1>4. DocumentOK'
    BY <1>2, <1>3 DEF Typed, TypeOK, DocumentOK, FailedStep, evidence, work,
                      task
  <1>5. SchedulersOK' /\ OnlyLocal(s) /\ pc'[s] = "unwind"
    BY DEF Typed, TypeOK, SchedulersOK, FailedStep, Goto, Labels, Codes,
           OnlyLocal
  <1>6. Local(s)'
    BY <1>5, Stops DEF Typed, TypeOK, SchedulersOK
  <1> QED BY <1>4, <1>5, <1>6, OutsideFrame, DocumentStep
          DEF Typed, TypeOK, FailedStep
\* PauseOnSignal keeps the types and what the locals hold.
LEMMA PauseOnSignalTyped ==
    ASSUME Typed, NEW s \in Scheds, PauseOnSignal(s)
    PROVE  Typed'
  <1> DEFINE c == step[s].change
             ch == Set(change[c], change[c].stage, "PAUSED")
  <1>1. change' \in [Changes -> ChangeRecord]
    <2>1. c \in Changes => ch \in ChangeRecord
      BY KeepStage DEF Typed, TypeOK, DocumentOK, States
    <2>2. change' = change \/ change' = [change EXCEPT ![c] = ch]
      BY DEF PauseOnSignal, AfterSignal
    <2> HIDE DEF c, ch
    <2> QED BY <2>1, <2>2, ChangeType DEF Typed, TypeOK, DocumentOK
  <1>2. DocumentOK'
    BY <1>1, LeavesTyped
    DEF Typed, TypeOK, DocumentOK, PauseOnSignal, evidence, work, activity,
        task
  <1>3. SchedulersOK' /\ OnlyLocal(s) /\ pc'[s] = "release"
    BY DEF Typed, TypeOK, SchedulersOK, PauseOnSignal, Worsened, Goto,
           Labels, Codes, OnlyLocal
  <1>4. Local(s)'
    BY <1>3, Stops DEF Typed, TypeOK, SchedulersOK
  <1> QED BY <1>2, <1>3, <1>4, OutsideFrame, DocumentStep
          DEF Typed, TypeOK, PauseOnSignal
\* EndStep keeps the types and what the locals hold.
LEMMA EndStepTyped ==
    ASSUME Typed, NEW s \in Scheds, EndStep(s)
    PROVE  Typed'
  <1>1. /\ change' \in [Changes -> ChangeRecord]
        /\ slot' \in SlotRecord /\ pending' \in StepRecord
        /\ blockers' \subseteq Scopes
        /\ runLock' \in Scheds \cup {"free", "stale"}
    BY ReleaseType, LeavesTyped
    DEF Typed, TypeOK, DocumentOK, OutsideOK, EndStep, GoesOn, activity
  <1>2. DocumentOK'
    BY <1>1 DEF Typed, TypeOK, DocumentOK, EndStep, evidence, work, task
  <1>3. OutsideOK'
    BY <1>1 DEF Typed, TypeOK, OutsideOK, EndStep, git
  <1>4. SchedulersOK' /\ OnlyLocal(s) /\ Local(s)'
    <2>1. CASE Stopped(s)
      BY <2>1, StoppedTyped DEF Typed, TypeOK
    <2>2. CASE GoesOn(s)
      <3>1. SchedulersOK' /\ OnlyLocal(s) /\ pc'[s] = "idle"
        BY <2>2, NoStepType
        DEF Typed, TypeOK, SchedulersOK, GoesOn, Labels, Codes, OnlyLocal,
            None
      <3> QED BY <3>1, Stops DEF Typed, TypeOK, SchedulersOK
    <2> QED BY <2>1, <2>2 DEF EndStep
  <1> QED BY <1>2, <1>3, <1>4, DocumentStep DEF EndStep
\* Crash keeps the types and what the locals hold.
LEMMA CrashTyped ==
    ASSUME Typed, NEW s \in Scheds, Crash(s)
    PROVE  Typed'
  <1>1. SchedulersOK' /\ OnlyLocal(s) /\ Local(s)'
    BY StoppedTyped DEF Typed, TypeOK, Crash
  <1>2. /\ change' \in [Changes -> ChangeRecord]
        /\ slot' \in SlotRecord /\ pending' \in StepRecord
        /\ runLock' \in Scheds \cup {"free", "stale"}
    BY LeavesTyped DEF Typed, TypeOK, Crash
  <1>3. DocumentOK'
    BY <1>2 DEF Typed, TypeOK, DocumentOK, Crash, evidence, work, task
  <1>4. OutsideOK'
    BY <1>2 DEF Typed, TypeOK, OutsideOK, Crash, UnlockGate, git
  <1>5. OthersOK' /\ ControlOK' /\ RecoveryOK' /\ JournalsOK'
    BY BoundsAssumption DEF Typed, TypeOK, OthersOK, Shape, ControlOK,
           RecoveryOK, JournalsOK, Crash
  <1>6. \A t \in Scheds : Local(t)'
    BY <1>1 DEF Typed, Shape, LocalsOK, Local, OnlyLocal, Crash
  <1> QED BY <1>1, <1>3, <1>4, <1>5, <1>6 DEF Typed, TypeOK, Shape, LocalsOK
-----------------------------------------------------------------------------
(* Recovery.                                                               *)

\* A step of recovery leaves the schedulers, Git and the commands alone.
LEMMA RecoveryStep ==
    ASSUME Typed, UNCHANGED <<git, schedVars, ctl>>, Kept, JournalsOK',
           runLock' \in {runLock, "free"},
           gate' \in {gate, "free", "recovery"}, DocumentOK', OthersOK', RecoveryOK'
    PROVE  Typed'
  <1>1. SchedulersOK' /\ OutsideOK'
    BY SchedulersFrame DEF Typed, TypeOK, OutsideOK, git
  <1>2. LocalsOK' /\ ControlOK'
    BY LocalsFrame DEF Typed, Shape, ControlOK
  <1> QED BY <1>1, <1>2 DEF Typed, TypeOK, Shape
\* It moves to another point, or ends.
LEMMA AtType ==
    ASSUME Typed, UNCHANGED <<ctl, crashes, journal>>,
           \/ rec' = NoRecovery
           \/ \E at \in {"lock", "terminate", "attempts", "final"} :
                 rec' = [rec EXCEPT !.at = at]
    PROVE  OthersOK' /\ RecoveryOK' /\ Kept /\ JournalsOK'
  <1>1. Kept /\ JournalsOK'
    BY DEF Typed, Shape, JournalsOK, Kept
  <1>2. OthersOK' /\ RecoveryOK'
    BY DEF Typed, TypeOK, OthersOK, Shape, RecoveryOK, NoRecovery
  <1> QED BY <1>1, <1>2
\* The steps of recovery that write nothing into the document.
LEMMA RecoverMovesTyped ==
    ASSUME Typed,
           RecoverStart \/ RecoverRefused \/ RecoverTerminate \/ RecoverUnlock
    PROVE  Typed'
  <1>1. /\ UNCHANGED <<document, git, gate, schedVars, ctl, crashes>>
        /\ runLock' \in {runLock, "free"}
        /\ \/ rec' = NoRecovery
           \/ \E at \in {"lock", "terminate", "attempts", "final"} :
                 rec' = [rec EXCEPT !.at = at]
    BY DEF RecoverStart, RecoverRefused, RecoverTerminate, RecoverUnlock, locks
  <1>2. DocumentOK' /\ UNCHANGED journal
    BY <1>1, DocumentFrame DEF Typed, TypeOK, document
  <1> QED BY <1>1, <1>2, AtType, RecoveryStep
\* RecoverSteal keeps the types and what the locals hold.
LEMMA RecoverStealTyped ==
    ASSUME Typed, RecoverSteal
    PROVE  Typed'
  <1>1. DocumentOK'
    BY DEF Typed, TypeOK, DocumentOK, RecoverSteal, SlotRecord, evidence, work,
           task
  <1> QED BY <1>1, AtType, RecoveryStep DEF RecoverSteal
\* A recovery that fails gives the slot back or leaves it BUSY.
LEMMA BailsType ==
    ASSUME DocumentOK, RecoverBails
    PROVE  /\ change' \in [Changes -> ChangeRecord]
           /\ slot' \in SlotRecord /\ pending' \in StepRecord
  <1>1. CASE Release(change, "recovery")
    BY <1>1, ReleaseType DEF DocumentOK
  <1>2. CASE /\ slot' = [slot EXCEPT !.owner = "dead"]
             /\ UNCHANGED <<change, pending>>
    BY <1>2 DEF DocumentOK, SlotRecord
  <1> QED BY <1>1, <1>2 DEF RecoverBails
\* RecoverFails keeps the types and what the locals hold.
LEMMA RecoverFailsTyped ==
    ASSUME Typed, RecoverFails
    PROVE  Typed'
  <1>1. /\ change' \in [Changes -> ChangeRecord]
        /\ slot' \in SlotRecord /\ pending' \in StepRecord
    BY BailsType DEF Typed, TypeOK, RecoverFails
  <1>2. blockers' \subseteq Scopes
    BY DEF Typed, TypeOK, DocumentOK, RecoverFails, Reports, EmergencyBlock,
           EmergencyBlocked, Scopes
  <1>3. DocumentOK'
    BY <1>1, <1>2 DEF Typed, TypeOK, DocumentOK, RecoverFails, evidence, work,
                      task
  <1> QED BY <1>3, AtType, RecoveryStep DEF RecoverFails, RecoverBails
\* RecoverAttempt keeps the types and what the locals hold.
LEMMA RecoverAttemptTyped ==
    ASSUME Typed, NEW k \in Attempts, NEW a \in Artifacts \cup {None},
           RecoverAttempt(k, a)
    PROVE  Typed'
  <1> DEFINE c == attempt[k].change
             ch == IF a # None THEN Captured(change[c], a) ELSE change[c]
             moved == IF Terminal(c) THEN ch ELSE Set(ch, ch.stage, "PAUSED")
  <1>1. c \in Changes \cup {None}
    BY DEF Typed, TypeOK, DocumentOK, AttemptRecord
  <1>2. change' \in [Changes -> ChangeRecord]
    <2>1. c \in Changes => ch \in ChangeRecord
      BY CapturedType DEF Typed, TypeOK, DocumentOK
    <2>2. c \in Changes => moved \in ChangeRecord
      <3> HIDE DEF ch
      <3> QED BY <2>1, KeepStage DEF States
    <2>3. change' = [change EXCEPT ![c] = moved]
      BY DEF RecoverAttempt
    <2> HIDE DEF moved, c
    <2> QED BY <2>2, <2>3, ChangeType DEF Typed, TypeOK, DocumentOK
  <1>3. owner' \in [Artifacts -> Changes \cup {None}]
    BY <1>1 DEF Typed, TypeOK, DocumentOK, RecoverAttempt
  <1>4. attempt' \in [Attempts -> AttemptRecord]
    BY EndedType DEF Typed, TypeOK, DocumentOK, RecoverAttempt
  <1>5. DocumentOK'
    BY <1>2, <1>3, <1>4, NoStepType
    DEF Typed, TypeOK, DocumentOK, RecoverAttempt, task
  <1> QED BY <1>5, OutsideUnchanged DEF RecoverAttempt
\* RecoverLeases keeps the types and what the locals hold.
LEMMA RecoverLeasesTyped ==
    ASSUME Typed, RecoverLeases
    PROVE  Typed'
  <1> DEFINE Ends(a) == {r \in ActiveRuns : run[r].artifact = a}
  <1>1. change' \in [Changes -> ChangeRecord]
    <2>1. \A ch \in ChangeRecord : Restarted(ch) \in ChangeRecord
      BY KeepStage DEF Restarted, States
    <2> QED BY <2>1 DEF Typed, TypeOK, DocumentOK, RecoverLeases
  <1>2. run' \in [CIRuns -> RunRecord]
    <2>1. \A r \in CIRuns :
             [run[r] EXCEPT !.status = "TERMINATED"] \in RunRecord
      BY DEF Typed, TypeOK, DocumentOK, RunRecord, Outcomes
    <2> QED BY <2>1 DEF Typed, TypeOK, DocumentOK, RecoverLeases
  <1>3. latestCI' \in [Artifacts -> CIRuns \cup {None}]
    <2>1. \A a \in Artifacts : Ends(a) # {} => Last(Ends(a)) \in CIRuns
      BY LastIn DEF ActiveRuns
    <2> QED BY <2>1 DEF Typed, TypeOK, DocumentOK, RecoverLeases
  <1>4. DocumentOK'
    BY <1>1, <1>2, <1>3, NoStepType
    DEF Typed, TypeOK, DocumentOK, RecoverLeases, task
  <1>5. OthersOK' /\ RecoveryOK' /\ Kept /\ JournalsOK'
    <2>1. Kept /\ JournalsOK'
      BY DEF Typed, Shape, JournalsOK, Kept, RecoverLeases
    <2>2. OthersOK' /\ RecoveryOK'
      BY DEF Typed, TypeOK, OthersOK, RecoveryOK, RecoverLeases
    <2> QED BY <2>1, <2>2
  <1> QED BY <1>4, <1>5, RecoveryStep DEF RecoverLeases, locks
\* RecoverResolve keeps the types and what the locals hold.
LEMMA RecoverResolveTyped ==
    ASSUME Typed, NEW j \in Journals, RecoverResolve(j)
    PROVE  Typed'
  <1>1. DocumentOK' /\ UNCHANGED journal
    BY DocumentFrame DEF Typed, TypeOK, RecoverResolve, document
  <1>2. Kept /\ JournalsOK'
    BY <1>1 DEF Typed, Shape, JournalsOK, Kept
  <1>3. OthersOK' /\ RecoveryOK'
    BY <1>1 DEF Typed, TypeOK, OutsideOK, OthersOK, Shape, RecoveryOK,
                RecoverResolve
  <1> QED BY <1>1, <1>2, <1>3, RecoveryStep DEF RecoverResolve, locks
\* RecoverJournal keeps the types and what the locals hold.
LEMMA RecoverJournalTyped ==
    ASSUME Typed, RecoverJournal
    PROVE  Typed'
  <1> DEFINE j == rec.journal
             outcome == Outcome(j, rec.sha)
             c == owner[journal[j].artifact]
             ch == CASE outcome = "APPLIED" ->
                           Set(change[c], "PROMOTION", "DONE")
                     [] outcome = "NOT_APPLIED" ->
                           Set(change[c], "AWAIT_PROMOTION", "QUEUED")
                     [] OTHER -> Set(change[c], change[c].stage, "STALE")
  <1>1. /\ j \in Journals /\ journal[j].state # "NONE"
        /\ journal[j].new \in Commits
    BY DEF Typed, Shape, RecoveryOK, JournalsOK, RecoverJournal
  <1>2. outcome \in {"APPLIED", "CONFLICT", "NOT_APPLIED"}
    BY DEF Outcome
  <1>3. c \in Changes => ch \in ChangeRecord
    <2> HIDE DEF outcome, c
    <2> QED BY <1>2, SetType, KeepStage
            DEF Typed, TypeOK, DocumentOK, Stages, States
  <1>4. CASE Immutable(c, ch)
    <2>1. /\ journal' = [journal EXCEPT ![j].state = outcome]
          /\ taskSHA' \in {journal[j].new, taskSHA}
          /\ change' = [change EXCEPT ![c] = ch]
          /\ pending' = NoStep
          /\ rec' = [rec EXCEPT !.at = "journals", !.journal = None,
                                !.sha = None]
          /\ UNCHANGED <<slot, gate, blockers>>
      BY <1>4, Zenon DEF RecoverJournal
    <2>2. journal' \in [Journals -> JournalRecord] /\ Kept /\ JournalsOK'
      <3> HIDE DEF j, outcome
      <3> QED BY <2>1, <1>1, <1>2, JournalStateType
    <2>3. change' \in [Changes -> ChangeRecord]
      <3> HIDE DEF c, ch
      <3> QED BY <2>1, <1>3, ChangeType DEF Typed, TypeOK, DocumentOK
    <2>4. DocumentOK'
      <3>1. UNCHANGED <<evidence, work, taskStatus, cancelled>>
        BY DEF RecoverJournal
      <3> HIDE DEF j, c, ch
      <3> QED BY <2>1, <2>2, <2>3, <3>1, <1>1, NoStepType
              DEF Typed, TypeOK, DocumentOK, evidence, work
    <2>5. OthersOK' /\ RecoveryOK'
      <3>1. UNCHANGED <<ctl, crashes>>
        BY DEF RecoverJournal
      <3> HIDE DEF j, c, ch
      <3> QED BY <2>1, <2>2, <3>1
              DEF Typed, TypeOK, OthersOK, Shape, RecoveryOK, Kept
    <2> QED BY <2>1, <2>2, <2>4, <2>5, RecoveryStep DEF RecoverJournal
  <1>5. CASE ~Immutable(c, ch)
    <2>1. /\ RecoverBails /\ EmergencyBlock
          /\ UNCHANGED <<journal, taskSHA>>
      BY <1>5, Zenon DEF RecoverJournal
    <2>2. /\ change' \in [Changes -> ChangeRecord]
          /\ slot' \in SlotRecord /\ pending' \in StepRecord
      BY <2>1, BailsType DEF Typed, TypeOK
    <2>3. DocumentOK'
      BY <2>1, <2>2 DEF Typed, TypeOK, DocumentOK, RecoverJournal,
                        EmergencyBlock, EmergencyBlocked, Scopes, evidence,
                        work
    <2> QED BY <2>1, <2>3, AtType, RecoveryStep
            DEF RecoverJournal, RecoverBails
  <1> QED BY <1>4, <1>5
\* RecoverDone keeps the types and what the locals hold.
LEMMA RecoverDoneTyped ==
    ASSUME Typed, RecoverDone
    PROVE  Typed'
  <1>1. DocumentOK'
    BY NoStepType DEF Typed, TypeOK, DocumentOK, RecoverDone, evidence, work
  <1> QED BY <1>1, AtType, RecoveryStep DEF RecoverDone
\* RecoverCrash keeps the types and what the locals hold.
LEMMA RecoverCrashTyped ==
    ASSUME Typed, RecoverCrash
    PROVE  Typed'
  <1>1. slot' \in SlotRecord
    BY DEF Typed, TypeOK, DocumentOK, RecoverCrash, SlotRecord
  <1>2. DocumentOK'
    BY <1>1 DEF Typed, TypeOK, DocumentOK, RecoverCrash, evidence, work, task
  <1>3. OthersOK' /\ RecoveryOK' /\ Kept /\ JournalsOK'
    BY BoundsAssumption DEF Typed, TypeOK, OthersOK, Shape, RecoveryOK,
           JournalsOK, Kept, RecoverCrash, NoRecovery, None
  <1> QED BY <1>2, <1>3, RecoveryStep DEF RecoverCrash
-----------------------------------------------------------------------------
(* The invariant and the theorem.                                          *)

\* The initial state.
LEMMA InitTyped == Init => Typed
  <1> SUFFICES ASSUME Init PROVE Typed
    OBVIOUS
  <1>1. /\ NoChange \in ChangeRecord /\ NoRun \in RunRecord
        /\ NoReview \in ReviewRecord /\ NoAttempt \in AttemptRecord
        /\ NoJournal \in JournalRecord
    BY DEF NoChange, ChangeRecord, Stages, States, NoRun, RunRecord, NoReview,
           ReviewRecord, NoAttempt, AttemptRecord, NoJournal, JournalRecord
  <1>2. 1 \in Commits
    BY BoundsAssumption DEF Commits
  <1>3. DocumentOK
    BY <1>1, <1>2, NoStepType DEF Init, DocumentOK
  <1>4. OutsideOK /\ SchedulersOK
    BY <1>2, NoStepType DEF Init, OutsideOK, SchedulersOK, Labels, Codes, None
  <1>5. OthersOK
    BY BoundsAssumption DEF Init, OthersOK, NoControl, NoRecovery
  <1>6. LocalsOK
    BY DEF Init, LocalsOK, Local, Executing
  <1>7. JournalsOK /\ ControlOK /\ RecoveryOK
    BY DEF Init, JournalsOK, ControlOK, RecoveryOK, NoJournal, NoControl,
           NoRecovery
  <1> QED BY <1>3, <1>4, <1>5, <1>6, <1>7 DEF Typed, TypeOK, Shape

\* The operator's commands together.
LEMMA OperatorTyped == ASSUME Typed, Operator PROVE Typed'
  BY ReleaseOptionTyped, ChangePromoteTyped, ChangeResumeTyped,
     ChangeRetryTyped, ChangePauseTyped, QueueCITyped, InterruptTyped,
     BlockersTyped, requestCancellationTyped, ResumeTaskTyped,
     ControlGivesUpTyped, ExternalMoveTyped, InterruptedTyped,
     RecoverMovesTyped
  DEF Operator
\* The waiting commands together.
LEMMA ControlsTyped == ASSUME Typed, Control PROVE Typed'
  BY ControlGivesUpTyped, CancellationSettlesTyped, finishLifecycleTyped,
     finishResumeTyped DEF Control
\* The steps of an activity together.
LEMMA ActivityTyped ==
    ASSUME Typed, NEW s \in Scheds, Activity(s)
    PROVE  Typed'
  BY ResolveRefTyped, ResolveRefFailsTyped, EndPromotionTyped, RefusedTyped,
     PrepareAttemptTyped, MaterializeTyped, StorageFailsTyped, CompleteTyped,
     PrepareCITyped, OpenLogsTyped, MarkCIRunningTyped, FinishCITyped,
     QuietFailureTyped, PromoteStartTyped, EvidenceChangedTyped,
     ConstructTyped, PreparePromotionTyped, CASTyped, CASRejectedTyped,
     CASConflictTyped, ApplyPromotionTyped, FailedStepTyped,
     PauseOnSignalTyped, EndStepTyped
  DEF Activity
\* The steps of a scheduler between activities together.
LEMMA ScheduleTyped ==
    ASSUME Typed, NEW s \in Scheds,
           SchedStart(s) \/ Crash(s) \/ Schedule(s)
    PROVE  Typed'
  BY SchedStartTyped, CrashTyped, SchedStopTyped, NextRequestTyped,
     NextChangeTyped
  DEF Schedule
\* The steps of recovery together.
LEMMA RecoveryTyped ==
    ASSUME Typed, Recovery \/ RecoverFails \/ RecoverCrash
    PROVE  Typed'
  BY RecoverMovesTyped, RecoverStealTyped, RecoverFailsTyped,
     RecoverAttemptTyped, RecoverLeasesTyped, RecoverResolveTyped,
     RecoverJournalTyped, RecoverDoneTyped, RecoverCrashTyped
  DEF Recovery
\* Nothing happens.
LEMMA StutterTyped == ASSUME Typed, UNCHANGED vars PROVE Typed'
  <1>1. DocumentOK' /\ UNCHANGED <<outside, journal>>
    BY DocumentFrame DEF Typed, TypeOK, vars, document
  <1> QED BY <1>1, OutsideUnchanged
\* Typed is inductive.
LEMMA NextTyped == Typed /\ [Next]_vars => Typed'
  BY OperatorTyped, ControlsTyped, ActivityTyped, ScheduleTyped,
     RecoveryTyped, StutterTyped
  DEF Next

\* Every reachable state has the types TypeOK gives, whatever the bounds,
\* schedulers, faults and commands.
THEOREM TypedInvariant == Spec => []Typed
  <1>1. Init => Typed
    BY InitTyped
  <1>2. Typed /\ [Next]_vars => Typed'
    BY NextTyped
  <1> QED BY <1>1, <1>2, PTL DEF Spec
\* Every value the program writes has the type its readers expect: no step of
\* a command, a scheduler or recovery leaves TypeOK.
THEOREM TypeCorrect == Spec => []TypeOK
  <1>1. Typed => TypeOK
    BY DEF Typed
  <1> QED BY <1>1, TypedInvariant, PTL

=============================================================================
