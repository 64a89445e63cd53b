------------------------ MODULE PipelinePublication -------------------------
(***************************************************************************)
(* The pipeline publishes as authorised: it implements Publication, and a  *)
(* Change is DONE exactly if an APPLIED journal of its own names a commit  *)
(* that has been the ref.  The argument is about commits: one that is      *)
(* constructed is new, stays in one journal and becomes the ref at most    *)
(* once through it; and what is read from the ref was once published.      *)
(***************************************************************************)
EXTENDS PipelineChanges

\* Every commit anyone remembers from the ref has been the ref.
Remembered ==
    /\ published \subseteq 1..commits /\ ref \in published
    /\ taskSHA \in published
    /\ ctl.op = "resume" => ctl.sha \in published
    /\ rec.at = "reconcile" => rec.sha \in published
    /\ \A s \in Scheds :
          /\ pc[s] \in {"off", "idle"} => sha[s] = None
          /\ pc[s] \in Executing \ {"journal"} =>
                sha[s] = None \/ sha[s] \in published
          /\ pc[s] = "apply" => journal[act[s]].new \in published

\* A constructed commit is new to the ref and to every other journal, until
\* git update-ref has moved the ref to it.
Distinct ==
    /\ \A j \in Journals :
          /\ journal[j].state = "NONE" => journal[j].new = None
          /\ journal[j].new <= commits
    /\ \A i, j \in Journals : journal[i].state # "NONE"
          /\ journal[i].new = journal[j].new => i = j
    /\ \A s \in Scheds :
          /\ pc[s] = "journal" =>
                /\ sha[s] <= commits /\ sha[s] \notin published
                /\ \A j \in Journals : journal[j].new # sha[s]
          /\ pc[s] = "cas" => journal[act[s]].new \notin published

\* Only PREPARED journals are settled.
Prepared ==
    /\ \A s \in Scheds : pc[s] \in {"cas", "casCheck"} =>
          journal[act[s]].state = "PREPARED"
    /\ rec.at = "reconcile" => /\ journal[rec.journal].state = "PREPARED"
                               /\ rec.journal \notin rec.todo
    /\ \A j \in rec.todo : journal[j].state = "PREPARED"
    /\ rec.todo # {} => rec.at \in {"journals", "reconcile"}

\* A Change is DONE exactly if a journal of its own is APPLIED, and APPLIED
\* journals name commits that were published.
Settled ==
    /\ \A j \in Journals : journal[j].state = "APPLIED" =>
          journal[j].new \in published
    /\ \A c \in Changes : change[c].state = "DONE" <=>
          \E j \in Journals : /\ journal[j].state = "APPLIED"
                              /\ owner[journal[j].artifact] = c

-----------------------------------------------------------------------------
(* Who moves the ref and who remembers it.                                 *)

\* git update-ref of s moves the ref to the commit of its journal.
Lands(s) ==
    /\ pc[s] = "cas" /\ ref = journal[act[s]].old
    /\ ref' = journal[act[s]].new /\ published' = published \cup {ref'}
    /\ pc'[s] # "cas"
    /\ UNCHANGED <<document, commits, step, act, sha, ctl, rec>>

\* The ref is moved by users and by the CAS; only Construct and users create
\* commits.
LEMMA RefWrites ==
    ASSUME Typed, [Next]_vars
    PROVE  \/ UNCHANGED git
           \/ \E s \in Scheds : Construct(s) /\ commits' = commits + 1
           \/ \E new \in Commits : ExternalMove(new)
           \/ \E s \in Scheds : Lands(s)
  <1>1. \/ UNCHANGED git
        \/ \E new \in Commits : ExternalMove(new)
        \/ \E s \in Scheds : Construct(s) \/ CAS(s) \/ CASFails(s)
    <2>1. CASE UNCHANGED vars
      BY <2>1 DEF vars, outside
    <2> QED BY <2>1, OperatorFrame, ControlFrame, ScheduleFrame,
               RecoveryFrame, ActivityFrame
            DEF Next
  <1>2. ASSUME NEW s \in Scheds, Construct(s)
        PROVE  UNCHANGED git \/ commits' = commits + 1
    BY <1>2 DEF Construct, git
  <1>0. pc \in [Scheds -> Labels]
    BY DEF Typed, TypeOK, SchedulersOK
  <1>3. ASSUME NEW s \in Scheds, CAS(s) PROVE Lands(s)
    BY <1>0, <1>3 DEF CAS, Lands, others, Goto
  <1>4. ASSUME NEW s \in Scheds, CASFails(s) PROVE UNCHANGED git \/ Lands(s)
    BY <1>0, <1>4 DEF CASFails, Lands, others, git, Fails
  <1> QED BY <1>1, <1>2, <1>3, <1>4

\* The Task's SHA is what resume, Step or recovery resolved, or what was
\* published.
LEMMA TaskSHAWrites ==
    ASSUME Typed, Remembered, Prepared, [Next]_vars
    PROVE  taskSHA' \in published
  <1>1. \/ UNCHANGED taskSHA \/ finishResume
        \/ \E s \in Scheds : EndPromotion(s) \/ ApplyPromotion(s)
        \/ RecoverJournal
    <2>1. CASE UNCHANGED vars
      BY <2>1 DEF vars, document, task
    <2> QED BY <2>1, OperatorFrame, ControlFrame, ScheduleFrame,
               RecoveryFrame, ActivityFrame
            DEF Next, task
  <1>2. CASE UNCHANGED taskSHA
    BY <1>2 DEF Remembered
  <1>3. CASE finishResume
    BY <1>3 DEF finishResume, Remembered
  <1>4. ASSUME NEW s \in Scheds, EndPromotion(s) PROVE taskSHA' \in published
    BY <1>4, EndPromotionFrame DEF Remembered, Executing
  <1>5. ASSUME NEW s \in Scheds, ApplyPromotion(s)
        PROVE  taskSHA' \in published
    BY <1>5, ApplyFrame DEF Remembered
  <1>6. CASE RecoverJournal
    <2>1. Outcome(rec.journal, rec.sha) = "APPLIED" =>
             journal[rec.journal].new = rec.sha
      BY DEF Outcome
    <2> QED BY <1>6, <2>1, RecoverJournalFrame DEF Remembered
  <1> QED BY <1>1, <1>2, <1>3, <1>4, <1>5, <1>6

\* resume keeps what it resolved.
LEMMA ControlWrites ==
    ASSUME Typed, [Next]_vars, ctl'.op = "resume"
    PROVE  ctl' = ctl \/ ctl'.sha = ref
  <1> USE DEF others, processes, outside, vars, NoControl
  <1>1. CASE Operator
    <2>1. CASE \E op \in {"suspend", "close"} : requestCancellation(op)
      BY <2>1 DEF requestCancellation
    <2>2. ASSUME NEW c, NEW state, ChangePause(c, state) PROVE FALSE
      <3>1. ctl' = [op |-> "pause", change |-> c, sha |-> None,
                    settled |-> FALSE]
        BY <2>2 DEF ChangePause
      <3> QED BY <3>1
    <2>3. CASE ResumeTask
      <3>1. ctl' = [op |-> "resume", change |-> None, sha |-> ref,
                    settled |-> FALSE]
        BY <2>3 DEF ResumeTask
      <3> QED BY <3>1
    <2>5. CASE ControlGivesUp
      BY <2>5 DEF ControlGivesUp
    <2>4. CASE \/ \E c \in Changes :
                     \/ ReleaseOption(c) \/ ChangePromote(c)
                     \/ ChangeResume(c)
                     \/ \E stage \in {"CI", "REVIEW", "MUTATION"} :
                           ChangeRetry(c, stage)
               \/ \E a \in Artifacts, r \in CIRuns : QueueCI(a, r)
               \/ \E k \in Attempts : Interrupt(k)
               \/ \E b \in Scopes : ResolveBlocker(b)
               \/ CommandFails \/ \E new \in Commits : ExternalMove(new)
               \/ \E s \in Scheds : Interrupted(s)
               \/ RecoverStart
      <3>1. UNCHANGED ctl
        BY <2>4, Zenon DEF ReleaseOption, ChangePromote, ChangeResume,
           ChangeRetry, OnlyChange, QueueCI, Interrupt, ResolveBlocker,
           CommandFails, ExternalMove, Interrupted, RecoverStart
      <3> QED BY <3>1
    <2> QED BY <1>1, <2>1, <2>2, <2>3, <2>4, <2>5 DEF Operator
  <1>2. CASE Control
    BY <1>2, WaitFrame DEF Control, ChangeSettled, finishLifecycle,
       LifecycleRefused, finishResume
  <1>3. CASE Recovery \/ RecoverFails \/ RecoverCrash
    BY <1>3, RecoveryFrame
  <1>4. CASE \E s \in Scheds : SchedStart(s) \/ Crash(s) \/ Schedule(s)
    BY <1>4, ScheduleFrame
  <1>5. CASE \E s \in Scheds : Activity(s)
    BY <1>5, ActivityFrame
  <1> QED BY <1>1, <1>2, <1>3, <1>4, <1>5 DEF Next

\* How recovery moves on: it lists the PREPARED journals and takes them one
\* by one.
LEMMA RecoveryWrites ==
    ASSUME Typed, [Next]_vars
    PROVE  \/ UNCHANGED rec \/ rec' = NoRecovery
           \/ /\ rec.at \notin {"journals", "reconcile"}
              /\ rec'.at \notin {"journals", "reconcile"}
              /\ rec'.todo = rec.todo
           \/ /\ rec'.at = "journals" /\ UNCHANGED journal
              /\ rec'.todo = {j \in Journals : journal[j].state = "PREPARED"}
           \/ /\ rec.at = "journals" /\ rec'.at = "reconcile"
              /\ rec'.journal \in rec.todo /\ rec'.sha = ref
              /\ rec'.todo = rec.todo \ {rec'.journal}
              /\ UNCHANGED <<journal, git>>
           \/ /\ RecoverJournal /\ rec.at = "reconcile"
              /\ rec'.at = "journals" /\ rec'.todo = rec.todo
           \/ /\ rec.at = "journals" /\ rec.todo = {} /\ rec'.todo = {}
              /\ rec'.at = "final"
  <1>0. rec \in [at: {"off", "lock", "terminate", "attempts", "journals",
                     "reconcile", "final"},
                todo: SUBSET Journals, journal: Journals \cup {None},
                sha: Commits \cup {None}]
    BY DEF Typed, TypeOK, OthersOK
  <1> USE DEF others, processes, outside
  <1>1. CASE UNCHANGED vars
    BY <1>1 DEF vars
  <1>2. CASE RecoverStart
    BY <1>0, <1>2 DEF RecoverStart
  <1>3. CASE Control \/ Operator
    BY <1>2, <1>3, OperatorFrame, ControlFrame
  <1>4. CASE \E s \in Scheds : SchedStart(s) \/ Crash(s) \/ Schedule(s)
    BY <1>4, ScheduleFrame
  <1>5. CASE \E s \in Scheds : Activity(s)
    BY <1>5, ActivityFrame
  <1>6. CASE RecoverRefused \/ RecoverFails \/ RecoverDone \/ RecoverCrash
    BY <1>6 DEF RecoverRefused, RecoverFails, RecoverBails, RecoverDone,
       RecoverCrash
  <1>7. CASE RecoverSteal \/ RecoverTerminate
    BY <1>0, <1>7 DEF RecoverSteal, RecoverTerminate
  <1>8. CASE \E k \in Attempts, a \in Artifacts \cup {None} :
                RecoverAttempt(k, a)
    <2>1. UNCHANGED rec
      BY <1>8, Zenon DEF RecoverAttempt
    <2> QED BY <2>1
  <1>9. CASE RecoverLeases
    <2>1. /\ rec' = [rec EXCEPT !.at = "journals",
                !.todo = {j \in Journals : journal[j].state = "PREPARED"}]
          /\ UNCHANGED journal
      BY <1>9, Zenon DEF RecoverLeases
    <2> QED BY <1>0, <2>1
  <1>10. CASE \E j \in Journals : RecoverResolve(j)
    BY <1>0, <1>10 DEF RecoverResolve, document
  <1>11. CASE RecoverJournal
    BY <1>0, <1>11, RecoverJournalFrame
  <1>12. CASE RecoverUnlock
    BY <1>0, <1>12 DEF RecoverUnlock
  <1> QED BY <1>1, <1>3, <1>4, <1>5, <1>6, <1>7, <1>8, <1>9, <1>10, <1>11,
             <1>12
          DEF Next, Recovery

\* A scheduler that rests has forgotten what it resolved.
LEMMA Rests ==
    ASSUME Typed, [Next]_vars, NEW s \in Scheds, pc'[s] \in {"off", "idle"}
    PROVE  \/ sha'[s] = None
           \/ pc[s] \in {"off", "idle"} /\ sha'[s] = sha[s]
  <1>0. pc \in [Scheds -> Labels] /\ sha \in [Scheds -> Commits \cup {None}]
        /\ step \in [Scheds -> StepRecord]
    BY DEF Typed, TypeOK, SchedulersOK
  <1>1. CASE Operator \/ Control \/ Recovery \/ RecoverFails \/ RecoverCrash
             \/ UNCHANGED vars
    <2>1. UNCHANGED <<pc, sha>>
      BY <1>1, OperatorFrame, ControlFrame, RecoveryFrame
      DEF schedVars, vars, outside, processes
    <2> QED BY <2>1
  <1>2. ASSUME NEW t \in Scheds, SchedStart(t) \/ Crash(t) \/ Schedule(t)
        PROVE  sha'[s] = None \/ (pc'[s] = pc[s] /\ sha'[s] = sha[s])
               \/ (pc[s] \in {"off", "idle"} /\ sha'[s] = sha[s])
    <2>1. t # s => pc'[s] = pc[s]
      BY <1>0, <1>2, ScheduleMoves
    <2>2. CASE SchedStart(t) \/ NextRequest(t) \/ NextChange(t)
      <3>1. UNCHANGED sha /\ pc[t] \in {"off", "idle"}
        BY <2>2, Zenon DEF SchedStart, NextRequest, NextChange, NextEnabled
      <3> QED BY <2>1, <3>1
    <2>3. CASE Crash(t) \/ SchedStop(t) \/ IdleFails(t)
      BY <1>0, <2>1, <2>3 DEF Crash, SchedStop, IdleFails, Stopped
    <2> QED BY <1>2, <2>2, <2>3 DEF Schedule
  <1>3. ASSUME NEW t \in Scheds, Activity(t), t # s
        PROVE  pc'[s] = pc[s]
    BY <1>0, <1>3, ActivityMoves
  <1>4. ASSUME Activity(s) PROVE sha'[s] = None
    <2>1. ASSUME Returns(s) \/ \E code : Fails(s, code) PROVE FALSE
      <3>1. pc'[s] \in {"unwind", "failed"}
        BY <1>0, <2>1 DEF Returns, Fails
      <3> QED BY <3>1
    <2>2. ASSUME NEW how, NEW result, NEW a, Complete(s, how, result, a)
          PROVE  FALSE
      BY <2>1, <2>2, CompleteFrame
    <2>3. ASSUME NEW outcome, NEW code, FinishCI(s, outcome, code)
          PROVE  FALSE
      BY <2>1, <2>3, FinishCIFrame
    <2>4. CASE \/ ResolveRefFails(s) \/ Refused(s) \/ StorageFails(s)
               \/ PromoteBusy(s) \/ EvidenceChanged(s)
               \/ ConstructFails(s) \/ PreparePromotionFails(s)
               \/ CASFails(s) \/ CASUnexplained(s)
               \/ EndPromotion(s) \/ ApplyPromotion(s)
      <3>1. Returns(s) \/ \E code : Fails(s, code)
        BY <2>4, EndPromotionFrame, ApplyFrame
        DEF ResolveRefFails, Refused, StorageFails, PromoteBusy,
            EvidenceChanged, ConstructFails, PreparePromotionFails, CASFails,
            CASUnexplained
      <3> QED BY <2>1, <3>1
    <2>5. CASE Advances(s)
      BY <1>0, <2>1, <2>5 DEF Advances, ResolveRef, PrepareAttempt,
         Materialize, PrepareCI, MarkCIRunning, PromoteStart, Construct,
         PreparePromotion, CAS, CASRejected, CASConflict, Goto
    <2>6. CASE OpenLogs(s)
      BY <2>6 DEF OpenLogs, outside, processes, schedVars
    <2>7. CASE FailedStep(s) \/ PauseOnSignal(s)
      BY <1>0, <2>7 DEF FailedStep, PauseOnSignal, Goto
    <2>8. CASE EndStep(s)
      BY <1>0, <2>8 DEF EndStep, GoesOn, Stopped
    <2> QED BY <1>4, <2>2, <2>3, <2>4, <2>5, <2>6, <2>7, <2>8
            DEF Activity, Advances
  <1>5. ASSUME NEW t \in Scheds, Activity(t), t # s
        PROVE  sha'[s] = sha[s]
    <2>1. \/ UNCHANGED sha
          \/ \E x : sha' = [sha EXCEPT ![t] = x]
      <3>1. ASSUME NEW how, NEW result, NEW a, Complete(t, how, result, a)
            PROVE  UNCHANGED sha
        BY <3>1, CompleteFrame
      <3>2. ASSUME NEW outcome, NEW code, FinishCI(t, outcome, code)
            PROVE  UNCHANGED sha
        BY <3>2, FinishCIFrame
      <3> QED BY <1>5, <3>1, <3>2, EndPromotionFrame, ApplyFrame
              DEF Activity, ResolveRef, ResolveRefFails, Refused,
                  PrepareAttempt, Materialize, StorageFails, PrepareCI,
                  OpenLogs, MarkCIRunning, PromoteBusy, PromoteStart,
                  EvidenceChanged, Construct, ConstructFails,
                  PreparePromotion, PreparePromotionFails, CAS, CASFails,
                  CASRejected, CASConflict, CASUnexplained, FailedStep,
                  PauseOnSignal, EndStep, GoesOn, Stopped, outside,
                  processes, schedVars
    <2> QED BY <1>0, <1>5, <2>1
  <1> QED BY <1>1, <1>2, <1>3, <1>4, <1>5 DEF Next

-----------------------------------------------------------------------------
(* Remembered, Distinct and Prepared are inductive.                        *)

\* Commits are only added, and so are published ones.
LEMMA PublishedGrows ==
    ASSUME Typed, Remembered, Distinct, [Next]_vars
    PROVE  /\ commits \in Nat /\ commits' \in Nat /\ commits <= commits'
           /\ published \subseteq published'
           /\ published' \subseteq 1..commits' /\ ref' \in published'
           /\ \A x \in published' \ published :
                 \/ x = commits + 1
                 \/ \E s \in Scheds : Lands(s) /\ x = journal[act[s]].new
  <1>0. commits \in Nat /\ commits \in Commits
    BY BoundsAssumption DEF Typed, TypeOK, OutsideOK, Commits
  <1>1. CASE UNCHANGED git
    BY <1>0, <1>1 DEF git, Remembered
  <1>2. ASSUME NEW s \in Scheds, Construct(s), commits' = commits + 1
        PROVE  UNCHANGED <<ref, published>>
    BY <1>2 DEF Construct
  <1>3. CASE \E s \in Scheds : Construct(s) /\ commits' = commits + 1
    <2>1. commits' = commits + 1 /\ UNCHANGED <<ref, published>>
      BY <1>2, <1>3
    <2>2. published \subseteq 1..commits /\ ref \in published
      BY DEF Remembered
    <2> QED BY <1>0, <2>1, <2>2
  <1>4. CASE \E new \in Commits : ExternalMove(new)
    BY <1>0, <1>4 DEF ExternalMove, Remembered
  <1>5. ASSUME NEW s \in Scheds, Lands(s)
        PROVE  journal[act[s]].new \in 1..commits
    <2>1. act[s] \in Journals /\ journal[act[s]].state # "NONE"
      BY <1>5 DEF Lands, Typed, Shape, LocalsOK, Local
    <2> QED BY <1>0, <2>1 DEF Typed, Shape, JournalsOK, Distinct, Commits
  <1>6. CASE \E s \in Scheds : Lands(s)
    <2>1. PICK s \in Scheds : Lands(s)
      BY <1>6
    <2>2. /\ ref' = journal[act[s]].new /\ published' = published \cup {ref'}
          /\ UNCHANGED commits
      BY <2>1 DEF Lands
    <2>3. published \subseteq 1..commits
      BY DEF Remembered
    <2>4. ASSUME NEW x \in published' \ published
          PROVE  \E t \in Scheds : Lands(t) /\ x = journal[act[t]].new
      BY <2>1, <2>2, <2>4, Zenon
    <2>5. journal[act[s]].new \in 1..commits
      BY <1>5, <2>1
    <2>6. /\ published \subseteq published'
          /\ published' \subseteq 1..commits' /\ ref' \in published'
      BY <2>2, <2>3, <2>5, Zenon
    <2>7. commits' \in Nat /\ commits <= commits'
      BY <1>0, <2>2
    <2> QED BY <1>0, <2>4, <2>6, <2>7, Zenon
  <1> QED BY <1>1, <1>3, <1>4, <1>6, RefWrites

\* What a written journal says, it goes on saying.
LEMMA JournalKept ==
    ASSUME Typed, [Next]_vars, NEW j \in Journals, journal[j].state # "NONE"
    PROVE  /\ journal'[j].new = journal[j].new
           /\ journal'[j].artifact = journal[j].artifact
           /\ journal'[j].state # "NONE"
  <1>1. ASSUME NEW s \in Scheds, PreparePromotion(s, j) PROVE FALSE
    BY <1>1 DEF PreparePromotion, Fresh, UnusedJournals
  <1> QED BY <1>1, JournalWrites

\* What a scheduler that goes on has resolved.
LEMMA AdvanceSHA ==
    ASSUME Typed, NEW s \in Scheds, Advances(s),
           pc'[s] \in Executing \ {"journal"}
    PROVE  \/ sha'[s] \in {None, ref}
           \/ sha'[s] = sha[s] /\ pc[s] \in Executing \ {"journal"}
  <1>0. pc \in [Scheds -> Labels] /\ sha \in [Scheds -> Commits \cup {None}]
    BY DEF Typed, TypeOK, SchedulersOK
  <1> USE <1>0 DEF Goto, Executing
  <1>1. CASE ResolveRef(s)
    BY <1>1 DEF ResolveRef
  <1>2. CASE \/ \E k \in Attempts : PrepareAttempt(s, k)
             \/ Materialize(s) \/ \E r \in CIRuns : PrepareCI(s, r)
             \/ MarkCIRunning(s) \/ PromoteStart(s)
             \/ CAS(s) \/ CASRejected(s) \/ CASConflict(s)
    BY <1>2 DEF PrepareAttempt, Materialize, PrepareCI, MarkCIRunning,
       PromoteStart, CAS, CASRejected, CASConflict
  <1>3. CASE Construct(s)
    BY <1>3 DEF Construct
  <1>4. CASE \E j \in Journals : PreparePromotion(s, j)
    BY <1>4 DEF PreparePromotion
  <1> QED BY <1>1, <1>2, <1>3, <1>4 DEF Advances

\* Remembered is inductive.
LEMMA NextRemembered ==
    ASSUME Typed, Remembered, Distinct, Prepared, [Next]_vars
    PROVE  Remembered'
  <1>0. Typed' /\ pc \in [Scheds -> Labels]
    BY NextTyped DEF Typed, TypeOK, SchedulersOK
  <1>1. /\ published \subseteq published' /\ published' \subseteq 1..commits'
        /\ ref' \in published' /\ ref \in published'
    BY PublishedGrows DEF Remembered
  <1>2. taskSHA' \in published'
    BY <1>1, TaskSHAWrites
  <1>3. ctl'.op = "resume" => ctl'.sha \in published'
    BY <1>1, ControlWrites DEF Remembered
  <1>4. rec'.at = "reconcile" => rec'.sha \in published'
    <2>1. rec'.at = "reconcile" => UNCHANGED rec \/ rec'.sha = ref
      BY RecoveryWrites DEF NoRecovery
    <2> QED BY <1>1, <2>1 DEF Remembered
  <1>5. ASSUME NEW s \in Scheds, pc'[s] \in {"off", "idle"}
        PROVE  sha'[s] = None
    BY <1>5, Rests DEF Remembered
  <1>6. ASSUME NEW s \in Scheds, pc'[s] \in Executing \ {"journal"}
        PROVE  sha'[s] = None \/ sha'[s] \in published'
    BY <1>1, <1>6, Enters, AdvanceSHA DEF Remembered
  <1>7. ASSUME NEW s \in Scheds, pc'[s] = "apply"
        PROVE  journal'[act'[s]].new \in published'
    <2>1. CASE pc[s] = "apply" /\ act'[s] = act[s]
      <3>1. act[s] \in Journals /\ journal[act[s]].state # "NONE"
        BY <2>1 DEF Typed, Shape, LocalsOK, Local
      <3> QED BY <1>1, <2>1, <3>1, JournalKept DEF Remembered
    <2>2. CASE Advances(s)
      <3>1. CAS(s)
        BY <1>0, <1>7, <2>2 DEF Advances, ResolveRef, PrepareAttempt,
           Materialize, PrepareCI, MarkCIRunning, PromoteStart, Construct,
           PreparePromotion, CASRejected, CASConflict, Goto, Fails
      <3>2. ref' = journal'[act'[s]].new
        BY <3>1 DEF CAS, document
      <3> QED BY <1>1, <3>2
    <2> QED BY <1>7, <2>1, <2>2, Enters DEF Executing
  <1> QED BY <1>1, <1>2, <1>3, <1>4, <1>5, <1>6, <1>7 DEF Remembered

\* Two schedulers are never both under the gate.
LEMMA OneGated ==
    ASSUME Exclusive, NEW s \in Scheds, NEW t \in Scheds,
           pc[s] \in Gated, pc[t] \in Gated
    PROVE  s = t
  BY DEF Exclusive

\* Distinct is inductive: Construct makes a commit nobody has seen, and only
\* the journal it is written to leads to it.
LEMMA NextDistinct ==
    ASSUME Typed, Exclusive, Remembered, Distinct, [Next]_vars
    PROVE  Distinct'
  <1>0. /\ Typed' /\ pc \in [Scheds -> Labels] /\ act \in [Scheds -> Nat]
        /\ sha \in [Scheds -> Commits \cup {None}]
        /\ journal \in [Journals -> JournalRecord]
        /\ \A j \in Journals : journal[j].new \in Nat
    BY NextTyped DEF Typed, TypeOK, SchedulersOK, DocumentOK, JournalRecord,
       Commits, None
  <1>1. /\ commits \in Nat /\ commits' \in Nat /\ commits <= commits'
        /\ published \subseteq 1..commits
    BY PublishedGrows DEF Remembered
  <1>2. ASSUME NEW s \in Scheds, NEW j \in Journals, PreparePromotion(s, j)
        PROVE  /\ pc[s] = "journal" /\ journal[j].state = "NONE"
               /\ journal'[j].new = sha[s] /\ journal'[j].state = "PREPARED"
               /\ \A i \in Journals \ {j} : journal'[i] = journal[i]
               /\ pc'[s] = "cas" /\ act'[s] = j /\ UNCHANGED git
               /\ sha[s] \in Nat
    BY <1>0, <1>2 DEF PreparePromotion, Fresh, UnusedJournals, Goto, Commits,
       None
  <1>3. \/ \E s \in Scheds, j \in Journals : PreparePromotion(s, j)
        \/ \A j \in Journals :
              /\ journal'[j].new = journal[j].new
              /\ journal'[j].state = "NONE" <=> journal[j].state = "NONE"
    BY JournalWrites
  <1>4. ASSUME NEW j \in Journals
        PROVE  /\ journal'[j].state = "NONE" => journal'[j].new = None
               /\ journal'[j].new <= commits'
    <2>1. ASSUME NEW s \in Scheds, NEW i \in Journals, PreparePromotion(s, i)
          PROVE  /\ journal'[j].state = "NONE" => journal'[j].new = None
                 /\ journal'[j].new <= commits'
      BY <1>0, <1>1, <1>2, <2>1 DEF Distinct
    <2> QED BY <1>0, <1>1, <1>3, <2>1 DEF Distinct
  <1>5. ASSUME NEW i \in Journals, NEW j \in Journals,
               journal'[i].state # "NONE", journal'[i].new = journal'[j].new
        PROVE  i = j
    <2>1. ASSUME NEW s \in Scheds, NEW k \in Journals, PreparePromotion(s, k)
          PROVE  i = j
      BY <1>2, <1>5, <2>1 DEF Distinct
    <2> QED BY <1>3, <1>5, <2>1 DEF Distinct
  <1>6. ASSUME NEW s \in Scheds, pc[s] \in {"journal", "cas"},
               pc'[s] = pc[s], NEW x \in Nat, x <= commits, x \notin published
        PROVE  /\ x \notin published'
               /\ \A j \in Journals : journal'[j].new = journal[j].new
    <2>1. ASSUME NEW t \in Scheds, Lands(t) PROVE FALSE
      <3>1. t = s
        BY <1>6, <2>1, OneGated DEF Lands, Gated
      <3> QED BY <1>6, <2>1, <3>1 DEF Lands
    <2>2. ASSUME NEW t \in Scheds, NEW j \in Journals, PreparePromotion(t, j)
          PROVE  FALSE
      <3>1. t = s
        BY <1>2, <1>6, <2>2, OneGated DEF Gated
      <3> QED BY <1>2, <1>6, <2>2, <3>1
    <2> QED BY <1>1, <1>3, <1>6, <2>1, <2>2, PublishedGrows
  <1>7. ASSUME NEW s \in Scheds, pc'[s] = "journal"
        PROVE  /\ sha'[s] <= commits' /\ sha'[s] \notin published'
               /\ \A j \in Journals : journal'[j].new # sha'[s]
    <2>1. CASE pc[s] = "journal" /\ sha'[s] = sha[s]
      <3>1. sha[s] \in Nat /\ sha[s] <= commits /\ sha[s] \notin published
            /\ \A j \in Journals : journal[j].new # sha[s]
        BY <1>0, <2>1 DEF Distinct, Commits, None
      <3>2. /\ sha[s] \notin published'
            /\ \A j \in Journals : journal'[j].new = journal[j].new
        BY <1>6, <1>7, <2>1, <3>1
      <3> QED BY <1>1, <2>1, <3>1, <3>2
    <2>2. CASE Advances(s)
      <3>1. Construct(s)
        BY <1>0, <1>7, <2>2 DEF Advances, ResolveRef, PrepareAttempt,
           Materialize, PrepareCI, MarkCIRunning, PromoteStart,
           PreparePromotion, CAS, CASRejected, CASConflict, Goto, Fails
      <3>2. /\ commits' = commits + 1 /\ sha'[s] = commits + 1
            /\ UNCHANGED <<published, journal>>
        BY <1>0, <1>7, <3>1 DEF Construct, Goto, document
      <3>3. \A j \in Journals : journal[j].new <= commits
        BY DEF Distinct
      <3> QED BY <1>0, <1>1, <3>2, <3>3
    <2> QED BY <1>7, <2>1, <2>2, Enters DEF Executing
  <1>8. ASSUME NEW s \in Scheds, pc'[s] = "cas"
        PROVE  journal'[act'[s]].new \notin published'
    <2>1. CASE pc[s] = "cas" /\ act'[s] = act[s]
      <3>1. /\ act[s] \in Journals /\ journal[act[s]].new \notin published
            /\ journal[act[s]].new <= commits
        BY <2>1 DEF Distinct, Typed, Shape, LocalsOK, Local
      <3> QED BY <1>0, <1>6, <1>8, <2>1, <3>1
    <2>2. CASE Advances(s)
      <3>1. \E j \in Journals : PreparePromotion(s, j)
        BY <1>0, <1>8, <2>2 DEF Advances, ResolveRef, PrepareAttempt,
           Materialize, PrepareCI, MarkCIRunning, PromoteStart, Construct,
           CAS, CASRejected, CASConflict, Goto, Fails
      <3> QED BY <1>2, <3>1 DEF Distinct, git
    <2> QED BY <1>8, <2>1, <2>2, Enters DEF Executing
  <1> QED BY <1>4, <1>5, <1>7, <1>8 DEF Distinct

\* While recovery works, nobody else settles a journal.
LEMMA RecoveryJournals ==
    ASSUME Typed, Exclusive, Recovering, [Next]_vars, NEW j \in Journals,
           journal'[j] # journal[j]
    PROVE  RecoverJournal /\ j = rec.journal
  <1>1. ASSUME NEW s \in Scheds,
               \/ PreparePromotion(s, j) \/ CASConflict(s)
               \/ ApplyPromotion(s)
        PROVE  FALSE
    <2>1. pc[s] \in Gated
      BY <1>1, ApplyFrame DEF PreparePromotion, CASConflict, Gated
    <2> QED BY <2>1, RecoveringAlone
  <1> QED BY <1>1, JournalWrites

\* Recovery is done with a journal in one transaction.
LEMMA JournalDone ==
    ASSUME Typed, RecoverJournal
    PROVE  rec.at = "reconcile" /\ rec'.at # "reconcile"
  <1>0. rec \in [at: {"off", "lock", "terminate", "attempts", "journals",
                     "reconcile", "final"},
                todo: SUBSET Journals, journal: Journals \cup {None},
                sha: Commits \cup {None}]
    BY DEF Typed, TypeOK, OthersOK
  <1>1. CASE rec' = NoRecovery
    BY <1>1, RecoverJournalFrame DEF NoRecovery
  <1>2. CASE rec' = [rec EXCEPT !.at = "journals", !.journal = None,
                                !.sha = None]
    BY <1>0, <1>2, RecoverJournalFrame
  <1> QED BY <1>1, <1>2, RecoverJournalFrame

\* Prepared is inductive.
LEMMA NextPrepared ==
    ASSUME Typed, Exclusive, Prepared, [Next]_vars
    PROVE  Prepared'
  <1>0. /\ pc \in [Scheds -> Labels] /\ act \in [Scheds -> Nat]
        /\ journal \in [Journals -> JournalRecord]
        /\ rec.todo \subseteq Journals
    BY DEF Typed, TypeOK, SchedulersOK, DocumentOK, OthersOK
  <1>1. ASSUME NEW s \in Scheds, pc'[s] \in {"cas", "casCheck"}
        PROVE  journal'[act'[s]].state = "PREPARED"
    <2>1. CASE /\ pc[s] \in {"cas", "casCheck"} /\ pc'[s] = pc[s]
               /\ act'[s] = act[s]
      <3> DEFINE j == act[s]
      <3>1. /\ j \in Journals /\ journal[j].state = "PREPARED"
            /\ pc[s] \in Gated
        BY <2>1 DEF Prepared, Typed, Shape, LocalsOK, Local, Gated
      <3>2. ASSUME NEW t \in Scheds, CASConflict(t) PROVE FALSE
        <4>1. t = s
          BY <3>1, <3>2, OneGated DEF CASConflict, Gated
        <4> QED BY <1>0, <2>1, <3>2, <4>1 DEF CASConflict, Goto
      <3>3. ASSUME NEW t \in Scheds, ApplyPromotion(t) PROVE FALSE
        <4>1. pc[t] = "apply"
          BY <3>3, ApplyFrame
        <4>2. t = s
          BY <3>1, <4>1, OneGated DEF Gated
        <4> QED BY <2>1, <4>1, <4>2
      <3>4. ASSUME RecoverJournal PROVE FALSE
        BY <3>1, <3>4, RecoverJournalFrame, RecoveringAlone DEF Recovering
      <3>5. ASSUME NEW t \in Scheds, PreparePromotion(t, j) PROVE FALSE
        BY <3>1, <3>5 DEF PreparePromotion, Fresh, UnusedJournals
      <3>6. journal'[j] = journal[j]
        BY <3>1, <3>2, <3>3, <3>4, <3>5, JournalWrites
      <3> QED BY <2>1, <3>1, <3>6
    <2>2. CASE Advances(s)
      <3>1. (\E j \in Journals : PreparePromotion(s, j)) \/ CASRejected(s)
        BY <1>0, <1>1, <2>2 DEF Advances, ResolveRef, PrepareAttempt,
           Materialize, PrepareCI, MarkCIRunning, PromoteStart, Construct,
           CAS, CASConflict, Goto, Fails
      <3>2. CASE \E j \in Journals : PreparePromotion(s, j)
        BY <1>0, <3>2 DEF PreparePromotion
      <3>3. CASE CASRejected(s)
        BY <3>3 DEF CASRejected, Prepared, document
      <3> QED BY <3>1, <3>2, <3>3
    <2> QED BY <1>1, <2>1, <2>2, Enters DEF Executing
  <1>2. ASSUME rec.at \in {"journals", "reconcile"}, NEW j \in Journals
        PROVE  journal'[j] = journal[j] \/ (RecoverJournal /\ j = rec.journal)
    BY <1>2, RecoveryJournals DEF Recovering
  <1>3. CASE rec' = NoRecovery
    BY <1>1, <1>3 DEF Prepared, NoRecovery
  <1>4. CASE UNCHANGED rec
    <2>1. ASSUME RecoverJournal PROVE FALSE
      BY <1>4, <2>1, JournalDone
    <2>2. rec.at = "reconcile" => rec.journal \in Journals
      BY DEF Typed, Shape, RecoveryOK
    <2> QED BY <1>0, <1>1, <1>2, <1>4, <2>1, <2>2 DEF Prepared
  <1>5. CASE /\ rec.at \notin {"journals", "reconcile"}
             /\ rec'.at \notin {"journals", "reconcile"}
             /\ rec'.todo = rec.todo
    BY <1>1, <1>5 DEF Prepared
  <1>6. CASE /\ rec'.at = "journals" /\ UNCHANGED journal
             /\ rec'.todo = {j \in Journals : journal[j].state = "PREPARED"}
    BY <1>1, <1>6 DEF Prepared
  <1>7. CASE /\ rec.at = "journals" /\ rec'.at = "reconcile"
             /\ rec'.journal \in rec.todo
             /\ rec'.todo = rec.todo \ {rec'.journal}
             /\ UNCHANGED journal
    BY <1>1, <1>7 DEF Prepared
  <1>8. CASE /\ RecoverJournal /\ rec.at = "reconcile"
             /\ rec'.at = "journals" /\ rec'.todo = rec.todo
    BY <1>0, <1>1, <1>2, <1>8 DEF Prepared
  <1>9. CASE rec'.todo = {} /\ rec'.at = "final"
    BY <1>1, <1>9 DEF Prepared
  <1> QED BY <1>3, <1>4, <1>5, <1>6, <1>7, <1>8, <1>9, RecoveryWrites

-----------------------------------------------------------------------------
(* DONE and APPLIED go together.                                           *)

\* A journal becomes APPLIED in the transaction that ends its Change, with
\* its commit published.
LEMMA BecomesApplied ==
    ASSUME Typed, Named, Remembered, [Next]_vars, NEW j \in Journals,
           journal'[j].state = "APPLIED", journal[j].state # "APPLIED"
    PROVE  /\ Finishes(j) /\ journal[j].state # "NONE"
           /\ journal[j].new \in published
  <1>0. journal \in [Journals -> JournalRecord]
    BY DEF Typed, TypeOK, DocumentOK
  <1>1. ASSUME NEW s \in Scheds, PreparePromotion(s, j) PROVE FALSE
    BY <1>0, <1>1 DEF PreparePromotion
  <1>2. ASSUME NEW s \in Scheds, act[s] = j, CASConflict(s) PROVE FALSE
    <2>1. journal' = [journal EXCEPT ![j].state = "CONFLICT"]
      BY <1>2 DEF CASConflict
    <2>2. journal'[j].state = "CONFLICT"
      BY <1>0, <2>1, JournalStateType DEF JournalRecord
    <2> QED BY <2>2
  <1>3. ASSUME NEW s \in Scheds, act[s] = j, ApplyPromotion(s)
        PROVE  Finishes(j) /\ journal[j].new \in published
    <2> DEFINE c == owner[journal[j].artifact]
               ch == Set(change[c], "PROMOTION", "DONE")
    <2>1. pc[s] = "apply" /\ journal[j].state # "NONE"
      BY <1>3, ApplyFrame, FinishedJournal
    <2>2. \/ UNCHANGED journal
          \/ /\ journal' = [journal EXCEPT ![j].state = "APPLIED"]
             /\ change' = [change EXCEPT ![c] = ch]
             /\ Immutable(c, ch)
      BY <1>3, Zenon DEF ApplyPromotion
    <2>3. c \in Changes
      BY <2>1 DEF Named, Typed, TypeOK, DocumentOK, JournalRecord
    <2>4. Immutable(c, ch) => /\ change[c].state # "ABORTED"
                              /\ change[c].state = "DONE" =>
                                    change[c].stage = "PROMOTION"
      BY <2>3, ChangeTable, SetFields DEF Immutable, Terminal
    <2> HIDE DEF c, ch
    <2>5. Finishes(j)
      BY <2>2, <2>4 DEF Finishes, c, ch
    <2> QED BY <1>3, <2>1, <2>5 DEF Remembered
  <1>4. ASSUME rec.journal = j, RecoverJournal
        PROVE  Finishes(j) /\ journal[j].new \in published
    <2> DEFINE outcome == Outcome(j, rec.sha)
               c == owner[journal[j].artifact]
               done == Set(change[c], "PROMOTION", "DONE")
               ch == CASE outcome = "APPLIED" -> done
                       [] outcome = "NOT_APPLIED" ->
                             Set(change[c], "AWAIT_PROMOTION", "QUEUED")
                       [] OTHER -> Set(change[c], change[c].stage, "STALE")
    <2>1. \/ UNCHANGED journal
          \/ /\ journal' = [journal EXCEPT ![j].state = outcome]
             /\ change' = [change EXCEPT ![c] = ch]
             /\ Immutable(c, ch)
      BY <1>4, Zenon DEF RecoverJournal
    <2>2. journal' = [journal EXCEPT ![j].state = outcome] =>
             journal'[j].state = outcome
      BY <1>0 DEF JournalRecord
    <2>3. outcome = "APPLIED"
      BY <2>1, <2>2
    <2>4. ch = done
      <3> HIDE DEF outcome, done
      <3> QED BY <2>3
    <2>5. journal[j].state # "NONE" /\ c \in Changes
      BY <1>4, FinishedJournal DEF Named, Typed, TypeOK, DocumentOK,
         JournalRecord
    <2>6. Immutable(c, done) => /\ change[c].state # "ABORTED"
                                /\ change[c].state = "DONE" =>
                                      change[c].stage = "PROMOTION"
      BY <2>5, ChangeTable, SetFields DEF Immutable, Terminal
    <2>7. journal[j].new = rec.sha
      BY <2>3 DEF Outcome
    <2>8. rec.sha \in published
      BY <1>4, RecoverJournalFrame DEF Remembered
    <2> HIDE DEF c, ch, done, outcome
    <2>9. Finishes(j)
      BY <2>1, <2>3, <2>4, <2>6 DEF Finishes, c, done
    <2> QED BY <2>7, <2>8, <2>9
  <1> QED BY <1>1, <1>2, <1>3, <1>4, JournalWrites

\* APPLIED is final.
LEMMA StaysApplied ==
    ASSUME Typed, Prepared, [Next]_vars, NEW j \in Journals,
           journal[j].state = "APPLIED"
    PROVE  journal'[j] = journal[j]
  <1>1. ASSUME NEW s \in Scheds, PreparePromotion(s, j) PROVE FALSE
    BY <1>1 DEF PreparePromotion, Fresh, UnusedJournals
  <1>2. ASSUME NEW s \in Scheds, act[s] = j, CASConflict(s) PROVE FALSE
    BY <1>2 DEF CASConflict, Prepared
  <1>3. ASSUME NEW s \in Scheds, act[s] = j, ApplyPromotion(s)
        PROVE  journal'[j] = journal[j]
    BY <1>3, ApplyFrame
  <1>4. ASSUME rec.journal = j, RecoverJournal PROVE FALSE
    BY <1>4, RecoverJournalFrame DEF Prepared
  <1> QED BY <1>1, <1>2, <1>3, <1>4, JournalWrites

\* The Artifact of a written journal stays with its Change.
LEMMA JournalOwner ==
    ASSUME Typed, Named, Unfinished, [Next]_vars, NEW j \in Journals,
           journal[j].state # "NONE"
    PROVE  /\ owner[journal[j].artifact] \in Changes
           /\ owner'[journal'[j].artifact] = owner[journal[j].artifact]
  <1>1. /\ journal[j].artifact \in Artifacts
        /\ owner[journal[j].artifact] # None
    BY DEF Named, Typed, TypeOK, DocumentOK, JournalRecord
  <1>2. owner'[journal[j].artifact] = owner[journal[j].artifact]
    BY <1>1, OwnerWrites
  <1> QED BY <1>1, <1>2, JournalKept DEF Typed, TypeOK, DocumentOK

\* Settled is inductive.
LEMMA NextSettled ==
    ASSUME Typed, ChangesInv, Remembered, Distinct, Prepared, Settled,
           [Next]_vars
    PROVE  Settled'
  <1>0. Named /\ Unfinished /\ journal \in [Journals -> JournalRecord]
    BY DEF ChangesInv, Typed, TypeOK, DocumentOK
  <1>1. ASSUME NEW j \in Journals, journal'[j].state = "APPLIED"
        PROVE  journal'[j].new \in published'
    <2>1. CASE journal[j].state = "APPLIED"
      BY <2>1, StaysApplied, PublishedGrows DEF Settled
    <2>2. CASE journal[j].state # "APPLIED"
      BY <1>0, <1>1, <2>2, BecomesApplied, JournalKept, PublishedGrows
    <2> QED BY <2>1, <2>2
  <1>2. ASSUME NEW c \in Changes, NEW j \in Journals,
               journal'[j].state = "APPLIED",
               owner'[journal'[j].artifact] = c
        PROVE  change'[c].state = "DONE"
    <2>1. CASE journal[j].state = "APPLIED"
      <3>1. owner[journal[j].artifact] = c
        BY <1>0, <1>2, <2>1, JournalOwner
      <3>2. change[c].state = "DONE"
        BY <2>1, <3>1 DEF Settled
      <3> QED BY <3>2, TerminalStays DEF Terminal
    <2>2. CASE journal[j].state # "APPLIED"
      <3>1. Finishes(j) /\ journal[j].state # "NONE"
        BY <1>0, <1>2, <2>2, BecomesApplied
      <3>2. owner[journal[j].artifact] = c
        BY <1>0, <1>2, <3>1, JournalOwner
      <3> QED BY <1>0, <3>1, <3>2, FinishesWrites
    <2> QED BY <2>1, <2>2
  <1>3. ASSUME NEW c \in Changes, change'[c].state = "DONE"
        PROVE  \E j \in Journals : /\ journal'[j].state = "APPLIED"
                                   /\ owner'[journal'[j].artifact] = c
    <2>1. CASE change[c].state = "DONE"
      <3>1. PICK j \in Journals : /\ journal[j].state = "APPLIED"
                                  /\ owner[journal[j].artifact] = c
        BY <2>1 DEF Settled
      <3> QED BY <1>0, <3>1, StaysApplied, JournalOwner
    <2>2. ASSUME NEW j \in Journals, journal[j].state # "NONE", Finishes(j),
                 change[c].state # "DONE"
          PROVE  \E i \in Journals : /\ journal'[i].state = "APPLIED"
                                     /\ owner'[journal'[i].artifact] = c
      <3>1. owner[journal[j].artifact] = c
        BY <1>0, <1>3, <2>2, FinishesWrites
      <3>2. journal' = [journal EXCEPT ![j].state = "APPLIED"]
        BY <2>2 DEF Finishes
      <3>3. journal'[j].state = "APPLIED"
        BY <1>0, <3>2 DEF JournalRecord
      <3> QED BY <1>0, <2>2, <3>1, <3>3, JournalOwner
    <2>3. ASSUME change[c].state # "DONE", OrdinaryStep PROVE FALSE
      BY <1>3, <2>3 DEF OrdinaryStep, Ordinary
    <2>4. ASSUME change[c].state # "DONE", NEW d \in Changes,
                 ReleaseOption(d) \/ ChangePromote(d)
          PROVE  FALSE
      BY <1>3, <2>4, ReleaseOptionWrites, ChangePromoteWrites
    <2> QED BY <1>0, <2>1, <2>2, <2>3, <2>4, ChangeSteps, FinishedJournal
  <1> QED BY <1>1, <1>2, <1>3 DEF Settled

\* The inductive invariant of this module.
PublicationInv == ChangesInv /\ Remembered /\ Distinct /\ Prepared /\ Settled
\* Initially nothing but the first commit has been published.
LEMMA InitPublication == Init => PublicationInv
  <1> SUFFICES ASSUME Init PROVE PublicationInv
    OBVIOUS
  <1>1. Remembered
    BY DEF Init, Remembered, NoControl, NoRecovery, None, Executing
  <1>2. Distinct
    BY DEF Init, Distinct, NoJournal, None
  <1>3. Prepared
    BY DEF Init, Prepared, NoRecovery
  <1>4. Settled
    BY DEF Init, Settled, NoJournal, NoChange
  <1> QED BY <1>1, <1>2, <1>3, <1>4, InitChanges DEF PublicationInv
\* Every step keeps it.
LEMMA NextPublication ==
    Typed /\ PublicationInv /\ [Next]_vars => PublicationInv'
  <1> SUFFICES ASSUME Typed, PublicationInv, [Next]_vars
               PROVE  PublicationInv'
    OBVIOUS
  <1>1. /\ ChangesInv /\ Exclusive /\ Remembered /\ Distinct /\ Prepared
        /\ Settled
    BY DEF PublicationInv, ChangesInv
  <1> QED BY <1>1, NextChanges, NextRemembered, NextDistinct, NextPrepared,
             NextSettled
          DEF PublicationInv
\* So it always holds.
LEMMA PublicationInvariant == Spec => []PublicationInv
  BY InitPublication, NextPublication, TypedInvariant, PTL DEF Spec

\* A Change is DONE exactly if one of its journals is APPLIED and the commit
\* that journal names has been the value of the ref: neither a crash between
\* git update-ref and the transaction that follows, nor a recovery, nor a
\* second promotion of the same Change can make one true without the other.
THEOREM DoneInvariant == Spec => []DoneIsPublished
  <1>1. PublicationInv => DoneIsPublished
    BY DEF PublicationInv, Settled, DoneIsPublished
  <1> QED BY <1>1, PublicationInvariant, PTL

-----------------------------------------------------------------------------
(* The pipeline implements Publication.                                    *)

\* The part of Publication's state that the records of the Changes map to.
Bases == [c \in Changes |-> change[c].base]
DoneChanges == {c \in Changes : change[c].state = "DONE"}

\* Which Changes have landed depends on the published commits alone.
LEMMA LandedStays ==
    ASSUME Typed, PublicationInv, [Next]_vars, NEW j \in Journals
    PROVE  /\ journal'[j].new \in published <=> journal[j].new \in published
           /\ journal[j].new \in published =>
                 owner'[journal'[j].artifact] = owner[journal[j].artifact]
  <1>0. Named /\ Unfinished /\ Remembered /\ Distinct
    BY DEF PublicationInv, ChangesInv
  <1>1. None \notin published
    BY <1>0, PublishedGrows DEF Remembered, None
  <1>2. CASE journal[j].state # "NONE"
    BY <1>0, <1>2, JournalKept, JournalOwner
  <1>3. CASE journal[j].state = "NONE"
    <2>1. journal[j].new \notin published
      BY <1>0, <1>1, <1>3 DEF Distinct
    <2>2. ASSUME NEW s \in Scheds, PreparePromotion(s, j)
          PROVE  journal'[j].new \notin published
      <3>1. pc[s] = "journal" /\ journal'[j].new = sha[s]
        BY <2>2 DEF PreparePromotion, Typed, TypeOK, DocumentOK
      <3> QED BY <1>0, <3>1 DEF Distinct
    <2> QED BY <1>3, <2>1, <2>2, JournalWrites
  <1> QED BY <1>2, <1>3

\* So they stay the same while the ref gets no new value of a journal.
LEMMA LandedSame ==
    ASSUME Typed, PublicationInv, [Next]_vars,
           \A j \in Journals : journal[j].new \in published' =>
                                  journal[j].new \in published,
           UNCHANGED published \/ UNCHANGED document
    PROVE  LandedChanges' = LandedChanges
  <1>1. published \subseteq published'
    BY PublishedGrows DEF PublicationInv
  <1>2. ASSUME NEW j \in Journals
        PROVE  /\ journal'[j].new \in published' <=>
                     journal[j].new \in published
               /\ journal[j].new \in published =>
                     owner'[journal'[j].artifact] = owner[journal[j].artifact]
    <2>1. CASE UNCHANGED published
      BY <2>1, LandedStays
    <2>2. CASE UNCHANGED document
      BY <1>1, <2>2 DEF document, evidence
    <2> QED BY <2>1, <2>2
  <1> QED BY <1>2 DEF LandedChanges

\* A step that leaves the ref alone lets Changes be released, authorised,
\* confirmed, or loses authorisations.
LEMMA ChangesMap ==
    ASSUME Typed, PublicationInv, [Next]_vars
    PROVE  \/ /\ UNCHANGED <<Bases, DoneChanges>>
              /\ AuthorisedChanges' \subseteq AuthorisedChanges
           \/ \E c \in Changes :
                 \/ /\ Bases[c] = None /\ taskSHA \in published
                    /\ Bases' = [Bases EXCEPT ![c] = taskSHA]
                    /\ UNCHANGED <<AuthorisedChanges, DoneChanges>>
                    /\ UNCHANGED git
                 \/ /\ Bases[c] # None
                    /\ c \notin DoneChanges \cup AuthorisedChanges
                    /\ AuthorisedChanges' = AuthorisedChanges \cup {c}
                    /\ UNCHANGED <<Bases, DoneChanges>>
                    /\ UNCHANGED git
                 \/ /\ c \in LandedChanges \ DoneChanges
                    /\ DoneChanges' = DoneChanges \cup {c}
                    /\ AuthorisedChanges' = AuthorisedChanges \ {c}
                    /\ UNCHANGED Bases /\ UNCHANGED git
  <1>0. /\ Named /\ Unfinished /\ Remembered /\ Settled /\ ChangesInv
        /\ Prepared /\ journal \in [Journals -> JournalRecord]
    BY DEF PublicationInv, ChangesInv, Typed, TypeOK, DocumentOK
  <1>1. CASE OrdinaryStep
    <2>1. \A c \in Changes : /\ change'[c].base = change[c].base
                             /\ change'[c].state = "DONE" <=>
                                   change[c].state = "DONE"
      BY <1>1 DEF OrdinaryStep, Ordinary
    <2>2. AuthorisedChanges' \subseteq AuthorisedChanges
      BY <1>1 DEF OrdinaryStep, Ordinary, AuthorisedChanges, Terminal
    <2> QED BY <2>1, <2>2 DEF Bases, DoneChanges
  <1>2. ASSUME NEW c \in Changes, ReleaseOption(c)
        PROVE  /\ Bases[c] = None /\ taskSHA \in published
               /\ Bases' = [Bases EXCEPT ![c] = taskSHA]
               /\ UNCHANGED <<AuthorisedChanges, DoneChanges>>
               /\ UNCHANGED git
    <2>1. /\ change[c].state = "ABSENT" /\ change[c].base = None
          /\ change[c].stage = "MUTATION"
          /\ change'[c].state = "QUEUED" /\ change'[c].stage = "MUTATION"
          /\ change'[c].base = taskSHA
          /\ \A d \in Changes \ {c} : change'[d] = change[d]
      BY <1>0, <1>2, ReleaseOptionWrites DEF Named, Present
    <2>2. UNCHANGED git /\ taskSHA \in published
      BY <1>0, <1>2 DEF ReleaseOption, outside, Remembered
    <2>3. Bases' = [Bases EXCEPT ![c] = taskSHA]
      BY <2>1 DEF Bases
    <2>4. UNCHANGED AuthorisedChanges
      BY <2>1 DEF AuthorisedChanges, Terminal
    <2>5. UNCHANGED DoneChanges
      BY <2>1 DEF DoneChanges
    <2> QED BY <2>1, <2>2, <2>3, <2>4, <2>5 DEF Bases
  <1>3. ASSUME NEW c \in Changes, ChangePromote(c)
        PROVE  /\ Bases[c] # None
               /\ c \notin DoneChanges \cup AuthorisedChanges
               /\ AuthorisedChanges' = AuthorisedChanges \cup {c}
               /\ UNCHANGED <<Bases, DoneChanges>>
               /\ UNCHANGED git
    <2>1. /\ change[c].state = "QUEUED" /\ change[c].stage = "AWAIT_PROMOTION"
          /\ change'[c].state = "QUEUED" /\ change'[c].stage = "PROMOTION"
          /\ change'[c].base = change[c].base /\ change[c].base # None
          /\ \A d \in Changes \ {c} : change'[d] = change[d]
      BY <1>0, <1>3, ChangePromoteWrites DEF Named, Present
    <2>2. UNCHANGED git
      BY <1>3 DEF ChangePromote, OnlyChange, outside
    <2>3. UNCHANGED Bases /\ Bases[c] # None
      BY <2>1 DEF Bases
    <2>4. UNCHANGED DoneChanges /\ c \notin DoneChanges
      BY <2>1 DEF DoneChanges
    <2>5. /\ AuthorisedChanges' = AuthorisedChanges \cup {c}
          /\ c \notin AuthorisedChanges
      BY <2>1 DEF AuthorisedChanges, Terminal
    <2> QED BY <2>2, <2>3, <2>4, <2>5
  <1>4. ASSUME NEW j \in Journals, journal[j].state # "NONE", Finishes(j),
               UNCHANGED git
        PROVE  \/ /\ UNCHANGED <<Bases, DoneChanges>>
                  /\ AuthorisedChanges' \subseteq AuthorisedChanges
               \/ LET c == owner[journal[j].artifact] IN
                  /\ c \in Changes /\ c \in LandedChanges \ DoneChanges
                  /\ DoneChanges' = DoneChanges \cup {c}
                  /\ AuthorisedChanges' = AuthorisedChanges \ {c}
                  /\ UNCHANGED Bases
    <2> DEFINE c == owner[journal[j].artifact]
    <2>1. /\ c \in Changes
          /\ change'[c].state = "DONE" /\ change'[c].base = change[c].base
          /\ \A d \in Changes \ {c} : change'[d] = change[d]
      BY <1>0, <1>4, FinishesWrites
    <2>2. journal'[j].state = "APPLIED"
      <3>1. journal' = [journal EXCEPT ![j].state = "APPLIED"]
        BY <1>4 DEF Finishes
      <3> QED BY <1>0, <3>1 DEF JournalRecord
    <2>3. journal[j].new \in published
      BY <1>0, <1>4, <2>2, BecomesApplied DEF Settled
    <2>4. c \in LandedChanges
      BY <2>3 DEF LandedChanges
    <2> HIDE DEF c
    <2>5. UNCHANGED Bases
      BY <2>1 DEF Bases
    <2>6. DoneChanges' = DoneChanges \cup {c}
      BY <2>1 DEF DoneChanges
    <2>7. AuthorisedChanges' = AuthorisedChanges \ {c}
      BY <2>1 DEF AuthorisedChanges, Terminal
    <2>8. CASE c \in DoneChanges
      BY <2>5, <2>6, <2>7, <2>8
    <2> QED BY <2>1, <2>4, <2>5, <2>6, <2>7, <2>8 DEF c
  <1>5. ASSUME NEW s \in Scheds, ApplyPromotion(s) PROVE UNCHANGED git
    BY <1>5, ApplyFrame
  <1>6. ASSUME RecoverJournal PROVE UNCHANGED git
    BY <1>6, RecoverJournalFrame
  <1> QED BY <1>0, <1>1, <1>2, <1>3, <1>4, <1>5, <1>6, ChangeSteps,
             FinishedJournal

\* The CAS publishes the commit of a Change that is authorised, from its base.
LEMMA LandsMap ==
    ASSUME Typed, PublicationInv, PromotionAuthorised, [Next]_vars,
           NEW s \in Scheds, Lands(s)
    PROVE  LET c == step[s].change IN
           /\ c \in Changes /\ c \in AuthorisedChanges /\ ref = Bases[c]
           /\ ref' \in Commits \ published
           /\ published' = published \cup {ref'}
           /\ LandedChanges' = LandedChanges \cup {c}
           /\ UNCHANGED <<Bases, AuthorisedChanges, DoneChanges>>
  <1> DEFINE c == step[s].change
             j == act[s]
  <1>0. Remembered /\ Distinct
    BY DEF PublicationInv
  <1>1. /\ pc[s] = "cas" /\ ref = journal[j].old /\ ref' = journal[j].new
        /\ published' = published \cup {ref'}
        /\ UNCHANGED <<change, owner, journal>>
    BY DEF Lands, document, evidence
  <1>2. c \in Changes /\ j \in Journals /\ journal[j].state # "NONE"
    BY <1>1 DEF Typed, Shape, LocalsOK, Local, Executing
  <1>3. /\ change[c].stage = "PROMOTION" /\ ~Terminal(c)
        /\ owner[change[c].artifact] = c
        /\ journal[j].artifact = change[c].artifact
        /\ journal[j].old = change[c].base
    BY <1>1 DEF PromotionAuthorised, Authorised, Approved
  <1>4. c \in AuthorisedChanges /\ ref = Bases[c]
    BY <1>1, <1>2, <1>3 DEF AuthorisedChanges, Bases
  <1>5. ref' \in Commits \ published
    BY <1>0, <1>1, <1>2 DEF Typed, Shape, JournalsOK, Distinct
  <1>6. UNCHANGED <<Bases, AuthorisedChanges, DoneChanges>>
    BY <1>1 DEF Bases, AuthorisedChanges, DoneChanges, Terminal
  <1>7. /\ owner[journal[j].artifact] = c
        /\ \A i \in Journals : journal[i].new \in published' <=>
              journal[i].new \in published \/ i = j
    BY <1>0, <1>1, <1>2, <1>3 DEF Distinct
  <1> HIDE DEF c, j
  <1>8. LandedChanges' = LandedChanges \cup {c}
    <2>1. LandedChanges' = {owner[journal[i].artifact] : i \in
             {i \in Journals : journal[i].new \in published'}}
      BY <1>1 DEF LandedChanges
    <2> QED BY <1>2, <1>7, <2>1 DEF LandedChanges
  <1> QED BY <1>1, <1>2, <1>4, <1>5, <1>6, <1>8 DEF c

\* Every step of the pipeline is one of Publication's or changes nothing it
\* has.
LEMMA StepMaps ==
    ASSUME Typed, PublicationInv, PromotionAuthorised, [Next]_vars
    PROVE  [Abstract!Next]_(Abstract!vars)
  <1>0. Remembered /\ Distinct
    BY DEF PublicationInv
  <1>1. CASE UNCHANGED git \/ \E s \in Scheds : Construct(s)
    <2>1. UNCHANGED <<ref, published>>
      BY <1>1 DEF git, Construct
    <2>2. UNCHANGED LandedChanges
      BY <2>1, LandedSame
    <2>3. CASE /\ UNCHANGED <<Bases, DoneChanges>>
               /\ AuthorisedChanges' \subseteq AuthorisedChanges
      <3>1. Abstract!Withdraw
        BY <2>1, <2>2, <2>3 DEF Abstract!Withdraw, Bases, DoneChanges
      <3> QED BY <3>1 DEF Abstract!Next
    <2>4. ASSUME NEW c \in Changes, Bases[c] = None, taskSHA \in published,
                 Bases' = [Bases EXCEPT ![c] = taskSHA],
                 UNCHANGED <<AuthorisedChanges, DoneChanges>>
          PROVE  Abstract!Release(c)
      BY <2>1, <2>2, <2>4 DEF Abstract!Release, Bases, DoneChanges, None
    <2>5. ASSUME NEW c \in Changes, Bases[c] # None,
                 c \notin DoneChanges \cup AuthorisedChanges,
                 AuthorisedChanges' = AuthorisedChanges \cup {c},
                 UNCHANGED <<Bases, DoneChanges>>
          PROVE  Abstract!Authorise(c)
      BY <2>1, <2>2, <2>5 DEF Abstract!Authorise, Bases, DoneChanges, None
    <2>6. ASSUME NEW c \in Changes, c \in LandedChanges \ DoneChanges,
                 DoneChanges' = DoneChanges \cup {c},
                 AuthorisedChanges' = AuthorisedChanges \ {c},
                 UNCHANGED Bases
          PROVE  Abstract!Confirm(c)
      BY <2>1, <2>2, <2>6 DEF Abstract!Confirm, Bases, DoneChanges
    <2>7. ASSUME NEW c \in Changes, \/ Abstract!Release(c)
                                    \/ Abstract!Authorise(c)
                                    \/ Abstract!Confirm(c)
          PROVE  Abstract!Next
      BY <2>7 DEF Abstract!Next
    <2> QED BY <2>3, <2>4, <2>5, <2>6, <2>7, ChangesMap
  <1>2. ASSUME NEW new \in Commits, ExternalMove(new)
        PROVE  Abstract!UserMoves
    <2>1. /\ ref' = new /\ published' = published \cup {new}
          /\ UNCHANGED document
          /\ new = commits + 1 \/ new \in published
      BY <1>2 DEF ExternalMove
    <2>2. ASSUME NEW j \in Journals, journal[j].new \in published'
          PROVE  journal[j].new \in published
      <3>1. journal[j].new <= commits /\ commits \in Nat
        BY <1>0, PublishedGrows DEF Distinct
      <3> QED BY <2>1, <2>2, <3>1
    <2>3. UNCHANGED LandedChanges
      BY <2>1, <2>2, LandedSame
    <2>4. UNCHANGED <<Bases, AuthorisedChanges, DoneChanges>>
      BY <2>1 DEF document, Bases, AuthorisedChanges, DoneChanges, Terminal
    <2> QED BY <2>1, <2>3, <2>4
            DEF Abstract!UserMoves, Bases, DoneChanges
  <1>3. ASSUME NEW s \in Scheds, Lands(s)
        PROVE  Abstract!Land(step[s].change)
    BY <1>3, LandsMap DEF Abstract!Land, Bases, DoneChanges
  <1>4. ASSUME NEW s \in Scheds, Lands(s) PROVE step[s].change \in Changes
    BY <1>4, LandsMap
  <1> QED BY <1>1, <1>2, <1>3, <1>4, RefWrites DEF Abstract!Next

\* The pipeline starts as Publication does.
LEMMA InitMaps == Init => Abstract!Init
  <1> SUFFICES ASSUME Init PROVE Abstract!Init
    OBVIOUS
  <1>1. ref \in Commits /\ published = {ref}
    BY BoundsAssumption DEF Init, Commits
  <1>2. [c \in Changes |-> change[c].base] = [c \in Changes |-> 0]
    BY DEF Init, NoChange, None
  <1>3. AuthorisedChanges = {}
    BY DEF Init, AuthorisedChanges, NoChange
  <1>4. LandedChanges = {}
    BY DEF Init, LandedChanges, NoJournal, None
  <1>5. {c \in Changes : change[c].state = "DONE"} = {}
    BY DEF Init, NoChange
  <1> QED BY <1>1, <1>2, <1>3, <1>4, <1>5 DEF Abstract!Init

\* The pipeline implements Publication: whatever schedulers, commands, users,
\* crashes and recoveries do, the harness moves the ref only for a Change with
\* a standing authorisation, only from that Change's base and only to a new
\* commit, and a Change is reported DONE only once it has landed.
THEOREM Refinement == Spec => PublishesAsAuthorised
  <1>1. Typed /\ PublicationInv /\ PromotionAuthorised /\ [Next]_vars =>
           [Abstract!Next]_(Abstract!vars)
    BY StepMaps
  <1> QED BY <1>1, InitMaps, TypedInvariant, PublicationInvariant,
             AuthorisedInvariant, PTL
          DEF Spec, PublishesAsAuthorised, Abstract!Spec

=============================================================================
