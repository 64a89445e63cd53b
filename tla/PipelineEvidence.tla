-------------------------- MODULE PipelineEvidence --------------------------
(***************************************************************************)
(* The evidence of a Change belongs together, whatever retries, reworks,   *)
(* operator requests, crashes and recoveries lie between its parts; and no *)
(* work begins once it may not.  Runs and Attempts never change what they  *)
(* are about, and what is executed is about the current Artifact.  Nor     *)
(* does a Change go on after two timeouts in a row: nothing but an         *)
(* operator begins another epoch of its runs.                              *)
(***************************************************************************)
EXTENDS PipelinePublication, FiniteSetTheorems

\* The labels at which an activity may be a mutation.
MayMutate == {"resolve", "drifted", "prepare", "context", "working",
              "starved"}
AtCI == {"ciSetup", "ciRun"}

\* What a scheduler executes is about the current Artifact of its Change, and
\* so is the Attempt or CI run it has started.
Current ==
    \A s \in Scheds : pc[s] \in Executing =>
        /\ step[s].change # None =>
              step[s].target = change[step[s].change].artifact
        /\ step[s].op # "mutation" => step[s].target # None
        /\ pc[s] \notin MayMutate => step[s].op # "mutation"
        /\ step[s].request # None =>
              /\ run[step[s].request].status # "NONE"
              /\ run[step[s].request].artifact = step[s].target
        /\ pc[s] \in AtWork => /\ attempt[act[s]].status = "ACTIVE"
                               /\ attempt[act[s]].target = step[s].target
        /\ pc[s] \in AtCI => /\ ActiveRun(act[s])
                             /\ run[act[s]].artifact = step[s].target

\* Whatever is named as evidence exists, and a Change that ever had an
\* Artifact has one.
Used ==
    /\ \A c \in Changes :
          /\ change[c].ci # None => run[change[c].ci].status # "NONE"
          /\ change[c].review # None =>
                attempt[change[c].review].status # "NONE"
    /\ \A a \in Artifacts :
          /\ latestCI[a] # None => run[latestCI[a]].status # "NONE"
          /\ review[a].attempt # None =>
                attempt[review[a].attempt].status # "NONE"
          /\ owner[a] # None => change[owner[a]].artifact # None
    /\ \A r \in requests :
          run[r].status # "NONE" /\ run[r].artifact # None

-----------------------------------------------------------------------------
(* Runs and Attempts keep what they are about.                             *)

\* The tables of runs and Attempts.
LEMMA WorkTables ==
    ASSUME Typed
    PROVE  /\ run \in [CIRuns -> RunRecord]
           /\ attempt \in [Attempts -> AttemptRecord]
           /\ latestCI \in [Artifacts -> CIRuns \cup {None}]
           /\ review \in [Artifacts -> ReviewRecord]
           /\ owner \in [Artifacts -> Changes \cup {None}]
           /\ requests \subseteq CIRuns
           /\ \A s \in Scheds : step[s] \in StepRecord
  BY DEF Typed, TypeOK, DocumentOK, SchedulersOK
\* A run that ends or is started keeps its Artifact and its Change.
LEMMA RunFields ==
    ASSUME NEW r \in RunRecord, NEW x
    PROVE  /\ [r EXCEPT !.status = x].artifact = r.artifact
           /\ [r EXCEPT !.status = x].change = r.change
           /\ [r EXCEPT !.status = x].status = x
           /\ [r EXCEPT !.logs = x].artifact = r.artifact
           /\ [r EXCEPT !.logs = x].change = r.change
           /\ [r EXCEPT !.logs = x].status = r.status
  BY DEF RunRecord

\* Run r goes on: it keeps its Artifact and its Change and does not become
\* active.
GoesOnRun(r) ==
    /\ run'[r].artifact = run[r].artifact
    /\ run'[r].change = run[r].change
    /\ run'[r].status = "NONE" <=> run[r].status = "NONE"
    /\ ActiveRun(r)' => ActiveRun(r)
\* A run is queued, prepared, or goes on.
LEMMA RunWrites ==
    ASSUME Typed, Current, [Next]_vars, NEW r \in CIRuns
    PROVE  \/ GoesOnRun(r)
           \/ \E a \in Artifacts : QueueCI(a, r)
           \/ \E s \in Scheds : PrepareCI(s, r)
  <1>0. run \in [CIRuns -> RunRecord] /\ run[r] \in RunRecord
    BY WorkTables
  <1>1. ASSUME NEW x \in CIRuns, NEW status, status # "NONE",
               run[x].status # "NONE",
               status \in {"PREPARING", "RUNNING"} => ActiveRun(x),
               run' = [run EXCEPT ![x].status = status]
        PROVE  GoesOnRun(r)
    <2>1. r # x => run'[r] = run[r]
      BY <1>0, <1>1
    <2>2. r = x => run'[r] = [run[r] EXCEPT !.status = status]
      BY <1>0, <1>1
    <2> QED BY <1>0, <1>1, <2>1, <2>2, RunFields DEF GoesOnRun, ActiveRun
  <1>2. ASSUME NEW x, run' = [run EXCEPT ![x].logs = TRUE]
        PROVE  GoesOnRun(r)
    <2> DEFINE n == [run[r] EXCEPT !.logs = TRUE]
    <2>1. run'[r] = run[r] \/ run'[r] = n
      BY <1>0, <1>2
    <2>2. /\ n.artifact = run[r].artifact /\ n.change = run[r].change
          /\ n.status = run[r].status
      BY <1>0, RunFields
    <2> HIDE DEF n
    <2> QED BY <2>1, <2>2 DEF GoesOnRun, ActiveRun
  <1>3. ASSUME run'[r] = run[r] \/
               (run[r].status # "NONE" /\
                run'[r] = [run[r] EXCEPT !.status = "TERMINATED"])
        PROVE  GoesOnRun(r)
    <2> DEFINE n == [run[r] EXCEPT !.status = "TERMINATED"]
    <2>1. /\ n.artifact = run[r].artifact /\ n.change = run[r].change
          /\ n.status = "TERMINATED"
      BY <1>0, RunFields
    <2>2. run'[r] = run[r] \/ (run[r].status # "NONE" /\ run'[r] = n)
      BY <1>3
    <2> HIDE DEF n
    <2> QED BY <2>1, <2>2 DEF GoesOnRun, ActiveRun
  <1>4. CASE \E op \in {"suspend", "close"} : requestCancellation(op)
    <2>1. run'[r] = run[r] \/
          (run[r].status = "QUEUED" /\
           run'[r] = [run[r] EXCEPT !.status = "TERMINATED"])
      BY <1>4 DEF requestCancellation
    <2> QED BY <1>3, <2>1
  <1>5. CASE RecoverLeases
    <2>1. run'[r] = run[r] \/
          (ActiveRun(r) /\
           run'[r] = [run[r] EXCEPT !.status = "TERMINATED"])
      BY <1>5 DEF RecoverLeases
    <2> QED BY <1>3, <2>1 DEF ActiveRun
  <1>6. ASSUME UNCHANGED run PROVE GoesOnRun(r)
    BY <1>3, <1>6
  <1>7. ASSUME NEW a \in Artifacts, NEW x \in CIRuns, QueueCI(a, x)
        PROVE  GoesOnRun(r) \/ QueueCI(a, r)
    <2>1. r # x => run'[r] = run[r]
      BY <1>0, <1>7 DEF QueueCI
    <2> QED BY <1>3, <1>7, <2>1
  <1>8. ASSUME NEW s \in Scheds, NEW x \in CIRuns, PrepareCI(s, x)
        PROVE  GoesOnRun(r) \/ PrepareCI(s, r)
    <2>1. r # x => run'[r] = run[r]
      BY <1>0, <1>8 DEF PrepareCI
    <2> QED BY <1>3, <1>8, <2>1
  <1>9. ASSUME NEW s \in Scheds, OpenLogs(s) PROVE GoesOnRun(r)
    BY <1>2, <1>9 DEF OpenLogs
  <1>10. ASSUME NEW s \in Scheds, pc[s] \in AtCI
         PROVE  act[s] \in CIRuns /\ ActiveRun(act[s])
    BY <1>10 DEF Current, AtCI, Executing, Typed, Shape, LocalsOK, Local
  <1>11. ASSUME NEW s \in Scheds, MarkCIRunning(s) PROVE GoesOnRun(r)
    <2>1. /\ pc[s] \in AtCI
          /\ \/ UNCHANGED run
             \/ run' = [run EXCEPT ![act[s]].status = "RUNNING"]
      BY <1>11 DEF MarkCIRunning, AtCI
    <2>2. CASE UNCHANGED run
      BY <1>6, <2>2
    <2>3. CASE run' = [run EXCEPT ![act[s]].status = "RUNNING"]
      <3>1. act[s] \in CIRuns /\ ActiveRun(act[s])
        BY <1>10, <2>1
      <3>2. run[act[s]].status # "NONE"
        BY <3>1 DEF ActiveRun
      <3> QED BY <1>1, <2>3, <3>1, <3>2
    <2> QED BY <2>1, <2>2, <2>3
  <1>12. ASSUME NEW s \in Scheds, NEW outcome \in Outcomes, NEW code,
                FinishCI(s, outcome, code)
         PROVE  GoesOnRun(r)
    <2>1. /\ pc[s] \in AtCI
          /\ run' = [run EXCEPT ![act[s]].status = outcome]
      BY <1>12, FinishCIFrame DEF AtCI
    <2>2. outcome \notin {"NONE", "PREPARING", "RUNNING"}
      BY DEF Outcomes
    <2> QED BY <1>1, <1>10, <2>1, <2>2 DEF ActiveRun
  <1>13. ASSUME NEW s \in Scheds, Activity(s)
         PROVE  GoesOnRun(r) \/ PrepareCI(s, r)
    <2>1. \/ UNCHANGED run
          \/ \E x \in CIRuns : PrepareCI(s, x)
          \/ OpenLogs(s) \/ MarkCIRunning(s)
          \/ \E outcome \in Outcomes, code \in CIErrors :
                FinishCI(s, outcome, code)
      BY <1>13, ActivityFrame
    <2>2. CASE UNCHANGED run
      BY <1>6, <2>2
    <2> QED BY <1>8, <1>9, <1>11, <1>12, <2>1, <2>2
  <1>14. CASE \/ Control \/ UNCHANGED vars
              \/ \E s \in Scheds : SchedStart(s) \/ Crash(s) \/ Schedule(s)
    BY <1>6, <1>14, ControlFrame, ScheduleFrame DEF evidence, vars, document
  <1>15. CASE Operator
    BY <1>4, <1>6, <1>7, <1>15, OperatorFrame
  <1>16. CASE Recovery \/ RecoverFails \/ RecoverCrash
    BY <1>5, <1>6, <1>16, RecoveryFrame
  <1> QED BY <1>13, <1>14, <1>15, <1>16 DEF Next

\* A run that exists keeps its Artifact.
LEMMA RunKept ==
    ASSUME Typed, Current, [Next]_vars, NEW r \in CIRuns,
           run[r].status # "NONE"
    PROVE  run'[r].artifact = run[r].artifact /\ run'[r].status # "NONE"
  <1>0. run \in [CIRuns -> RunRecord]
    BY WorkTables
  <1>1. ASSUME NEW a \in Artifacts, QueueCI(a, r) PROVE FALSE
    BY <1>1 DEF QueueCI, Fresh, UnusedRuns
  <1>2. ASSUME NEW s \in Scheds, PrepareCI(s, r)
        PROVE  run'[r].artifact = run[r].artifact /\ run'[r].status # "NONE"
    <2>1. /\ run'[r].artifact = step[s].target /\ run'[r].status # "NONE"
          /\ step[s].request # None => r = step[s].request
          /\ step[s].request = None => Fresh(r, UnusedRuns)
          /\ pc[s] \in Executing
      BY <1>0, <1>2 DEF PrepareCI, Executing
    <2> QED BY <2>1 DEF Current, Fresh, UnusedRuns
  <1> QED BY <1>1, <1>2, RunWrites DEF GoesOnRun

\* An Attempt that exists keeps what it is about.
LEMMA AttemptKept ==
    ASSUME Typed, [Next]_vars, NEW k \in Attempts,
           attempt[k].status # "NONE"
    PROVE  attempt'[k].target = attempt[k].target
           /\ attempt'[k].status # "NONE"
  <1>0. attempt \in [Attempts -> AttemptRecord]
    BY WorkTables
  <1>1. ASSUME NEW s \in Scheds, PrepareAttempt(s, k) PROVE FALSE
    BY <1>1 DEF PrepareAttempt, Fresh, UnusedAttempts
  <1>2. CASE attempt'[k] = [attempt[k] EXCEPT !.status = "ENDED"]
    BY <1>0, <1>2 DEF AttemptRecord
  <1> QED BY <1>1, <1>2, AttemptWrites

\* The last of a set of runs is one of them.
LEMMA LastOf ==
    ASSUME NEW ids, ids \subseteq CIRuns, ids # {}
    PROVE  Last(ids) \in ids
  <1>1. ids \subseteq 1..MaxCIRuns /\ MaxCIRuns \in Nat
    BY BoundsAssumption DEF CIRuns
  <1>2. \E id \in ids : \A other \in ids : other <= id
    BY <1>1, Largest
  <1> QED BY <1>2 DEF Last

\* The latest run of an Artifact is one of its own.
LEMMA LatestWrites ==
    ASSUME Typed, Current, Used, [Next]_vars, NEW a \in Artifacts
    PROVE  \/ latestCI'[a] = latestCI[a]
           \/ /\ latestCI'[a] \in CIRuns /\ run[latestCI'[a]].artifact = a
              /\ run[latestCI'[a]].status # "NONE"
  <1>0. latestCI \in [Artifacts -> CIRuns \cup {None}] /\ requests \subseteq CIRuns
    BY WorkTables
  <1>1. ASSUME NEW s \in Scheds, NEW outcome, NEW code,
               FinishCI(s, outcome, code)
        PROVE  \/ latestCI'[a] = latestCI[a]
               \/ /\ latestCI'[a] \in CIRuns /\ run[latestCI'[a]].artifact = a
                  /\ run[latestCI'[a]].status # "NONE"
    <2>1. /\ pc[s] \in AtCI
          /\ latestCI' = [latestCI EXCEPT ![step[s].target] = act[s]]
      BY <1>1, FinishCIFrame DEF AtCI
    <2>2. /\ act[s] \in CIRuns /\ run[act[s]].artifact = step[s].target
          /\ run[act[s]].status # "NONE"
      BY <2>1 DEF Current, AtCI, Executing, Typed, Shape, LocalsOK, Local,
         ActiveRun
    <2> QED BY <1>0, <2>1, <2>2
  <1>2. CASE \E op \in {"suspend", "close"} : requestCancellation(op)
    <2> DEFINE D == {r \in {q \in requests : run[q].status = "QUEUED"} :
                        run[r].artifact = a}
    <2>1. latestCI'[a] = IF D = {} THEN latestCI[a] ELSE Last(D)
      BY <1>2 DEF requestCancellation
    <2>2. D \subseteq CIRuns
      BY <1>0
    <2>3. D # {} => Last(D) \in D
      <3> HIDE DEF D
      <3> QED BY <2>2, LastOf
    <2> QED BY <2>1, <2>2, <2>3
  <1>3. CASE RecoverLeases
    <2> DEFINE E == {r \in ActiveRuns : run[r].artifact = a}
    <2>1. latestCI'[a] = IF E = {} THEN latestCI[a] ELSE Last(E)
      BY <1>3 DEF RecoverLeases
    <2>2. E \subseteq CIRuns
      BY DEF ActiveRuns
    <2>3. E # {} => Last(E) \in E
      <3> HIDE DEF E
      <3> QED BY <2>2, LastOf
    <2> QED BY <2>1, <2>2, <2>3 DEF ActiveRuns, ActiveRun
  <1>4. ASSUME NEW s \in Scheds, Activity(s)
        PROVE  \/ UNCHANGED latestCI
               \/ \E outcome \in Outcomes, code \in CIErrors :
                     FinishCI(s, outcome, code)
    <2>1. ASSUME (\E r \in CIRuns : PrepareCI(s, r)) \/ OpenLogs(s)
                 \/ MarkCIRunning(s)
          PROVE  UNCHANGED latestCI
      BY <2>1 DEF PrepareCI, OpenLogs, MarkCIRunning
    <2> QED BY <1>4, <2>1, ActivityFrame
  <1>5. CASE Operator
    <2>1. ASSUME NEW b \in Artifacts, NEW r \in CIRuns, QueueCI(b, r)
          PROVE  UNCHANGED latestCI
      BY <2>1 DEF QueueCI
    <2> QED BY <1>2, <1>5, <2>1, OperatorFrame
  <1>6. CASE \/ Control \/ UNCHANGED vars
             \/ \E s \in Scheds : SchedStart(s) \/ Crash(s) \/ Schedule(s)
    BY <1>6, ControlFrame, ScheduleFrame DEF evidence, vars, document
  <1> QED BY <1>1, <1>3, <1>4, <1>5, <1>6, RecoveryFrame DEF Next

\* A review is written by the Attempt that reviewed the Artifact.
LEMMA ReviewWrites ==
    ASSUME Typed, [Next]_vars, NEW a \in Artifacts
    PROVE  \/ review'[a] = review[a]
           \/ \E s \in Scheds : /\ pc[s] \in AtWork /\ step[s].target = a
                                /\ review'[a].attempt = act[s]
  <1>0. review \in [Artifacts -> ReviewRecord]
    BY WorkTables
  <1>1. ASSUME NEW s \in Scheds, NEW how, NEW result, NEW b,
               Complete(s, how, result, b)
        PROVE  \/ review'[a] = review[a]
               \/ /\ pc[s] \in AtWork /\ step[s].target = a
                  /\ review'[a].attempt = act[s]
    <2>1. \/ review' = review
          \/ \E ci, verdict :
                review' = [review EXCEPT ![step[s].target] =
                   [attempt |-> act[s], ci |-> ci, verdict |-> verdict]]
      BY <1>1, Zenon DEF Complete
    <2>2. pc[s] \in AtWork
      BY <1>1, CompleteFrame DEF AtWork
    <2>3. CASE review' = review
      BY <2>3
    <2>4. ASSUME NEW ci, NEW verdict,
                 review' = [review EXCEPT ![step[s].target] =
                    [attempt |-> act[s], ci |-> ci, verdict |-> verdict]]
          PROVE  \/ review'[a] = review[a]
                 \/ step[s].target = a /\ review'[a].attempt = act[s]
      BY <1>0, <2>4
    <2>5. CASE review' # review
      <3>1. PICK ci, verdict :
               review' = [review EXCEPT ![step[s].target] =
                  [attempt |-> act[s], ci |-> ci, verdict |-> verdict]]
        BY <2>1, <2>5, Zenon
      <3> QED BY <2>2, <2>4, <3>1
    <2> QED BY <2>3, <2>5
  <1>2. CASE Operator \/ Control \/ UNCHANGED vars
             \/ \E s \in Scheds : SchedStart(s) \/ Crash(s) \/ Schedule(s)
    BY <1>2, OperatorFrame, ControlFrame, ScheduleFrame
    DEF evidence, vars, document
  <1> QED BY <1>1, <1>2, ActivityFrame, RecoveryFrame DEF Next

-----------------------------------------------------------------------------
(* What a step may do to the evidence a Change names.                      *)

\* From the record of Change c to record n: an Artifact captured just now,
\* without evidence, or the same Artifact with the run or the review it had,
\* none, or one the Artifact has.
CIFrom(c, n) ==
    \/ n.ci \in {change[c].ci, None}
    \/ change[c].artifact # None /\ n.ci = latestCI[change[c].artifact]
    \/ \E s \in Scheds, r \in CIRuns :
          step[s].change = c /\ PrepareCI(s, r) /\ n.ci = r
ReviewFrom(c, n) ==
    \/ n.review \in {change[c].review, None}
    \/ \E s \in Scheds, k \in Attempts :
          step[s].change = c /\ PrepareAttempt(s, k) /\ n.review = k
    \/ \E s \in Scheds :
          step[s].change = c /\ pc[s] \in AtWork /\ n.review = act[s]
CapturedNow(c, n) ==
    \E a \in Artifacts : /\ owner[a] = None /\ owner'[a] = c
                         /\ n.artifact = a /\ n.ci = None /\ n.review = None
SameArtifact(c, n) ==
    /\ n.artifact = change[c].artifact
    /\ \A a \in Artifacts : owner'[a] = c => owner[a] = c
    /\ CIFrom(c, n) /\ ReviewFrom(c, n)
Evident(c, n) ==
    /\ n.stage \in {change[c].stage, "MUTATION"} \/ n.artifact # None
    /\ CapturedNow(c, n) \/ SameArtifact(c, n)
EvidentStep == \A c \in Changes : Evident(c, change'[c])

\* The record n names the evidence that o names.
Alike(o, n) == /\ n.artifact = o.artifact
               /\ n.ci = o.ci /\ n.review = o.review
\* Only these fields and the stage matter.
LEMMA AlikeEvident ==
    ASSUME NEW c, NEW m, NEW n, Evident(c, m), Alike(m, n),
           n.stage \in {m.stage, "MUTATION"} \/ n.artifact # None
    PROVE  Evident(c, n)
  BY DEF Evident, Alike, CapturedNow, SameArtifact, CIFrom, ReviewFrom
\* The record as it is.
LEMMA SameEvident ==
    ASSUME UNCHANGED owner, NEW c
    PROVE  Evident(c, change[c])
  BY DEF Evident, SameArtifact, CIFrom, ReviewFrom
\* A step that leaves the Changes alone.
LEMMA UnchangedEvident ==
    ASSUME UNCHANGED <<change, owner>>
    PROVE  EvidentStep
  BY SameEvident DEF EvidentStep
\* Set on a Change that has what its stage needs.
LEMMA SetEvident ==
    ASSUME NEW c, NEW ch \in ChangeRecord, NEW stage, NEW state,
           Evident(c, ch),
           stage \in {ch.stage, "MUTATION"} \/ ch.artifact # None
    PROVE  Evident(c, Set(ch, stage, state))
  <1> DEFINE n == Set(ch, stage, state)
  <1>1. Alike(ch, n) /\ n.stage = stage
    BY SetFields DEF Alike
  <1>2. n.stage \in {ch.stage, "MUTATION"} \/ n.artifact # None
    BY <1>1 DEF Alike
  <1> HIDE DEF n
  <1> QED BY <1>1, <1>2, AlikeEvident DEF n
\* A step that moves one Change and captures nothing.
LEMMA UpdateEvident ==
    ASSUME Typed, UNCHANGED owner, NEW c, NEW ch,
           change' = [change EXCEPT ![c] = ch],
           c \in Changes => Evident(c, ch)
    PROVE  EvidentStep
  <1>1. ASSUME NEW d \in Changes PROVE Evident(d, change'[d])
    <2>1. CASE d = c
      BY <2>1, ChangeTable
    <2>2. CASE d # c
      BY <2>2, ChangeTable, SameEvident
    <2> QED BY <2>1, <2>2
  <1> QED BY <1>1 DEF EvidentStep
\* A step that writes stages and states as Set does.
LEMMA SetAllEvident ==
    ASSUME Typed, UNCHANGED owner,
           \A c \in Changes : \/ change'[c] = change[c]
                              \/ \E state : change'[c] =
                                    Set(change[c], change[c].stage, state)
    PROVE  EvidentStep
  <1>1. ASSUME NEW c \in Changes PROVE Evident(c, change'[c])
    <2>1. change[c] \in ChangeRecord /\ Evident(c, change[c])
      BY ChangeTable, SameEvident
    <2>2. \A state : Evident(c, Set(change[c], change[c].stage, state))
      BY <2>1, SetEvident
    <2> QED BY <2>1, <2>2
  <1> QED BY <1>1 DEF EvidentStep
\* release after other writes.
LEMMA ReleasedEvident ==
    ASSUME NEW chs \in [Changes -> ChangeRecord],
           \A c \in Changes : Evident(c, chs[c])
    PROVE  \A c \in Changes : Evident(c, Released(chs)[c])
  <1>1. ASSUME NEW c \in Changes
        PROVE  \/ Released(chs)[c] = chs[c]
               \/ Released(chs)[c] = [chs[c] EXCEPT !.state = "QUEUED"]
    BY DEF Released
  <1>2. ASSUME NEW c \in Changes
        PROVE  Evident(c, [chs[c] EXCEPT !.state = "QUEUED"])
    <2> DEFINE n == [chs[c] EXCEPT !.state = "QUEUED"]
    <2>1. chs[c] \in ChangeRecord /\ Evident(c, chs[c])
      OBVIOUS
    <2>2. Alike(chs[c], n) /\ n.stage = chs[c].stage
      BY <2>1, StateFields DEF Alike
    <2> HIDE DEF n
    <2>3. Evident(c, n)
      BY <2>1, <2>2, AlikeEvident
    <2> QED BY <2>3 DEF n
  <1> QED BY <1>1, <1>2
\* release and Release after other writes.
LEMMA ReleaseEvident ==
    ASSUME NEW chs \in [Changes -> ChangeRecord], NEW who,
           \A c \in Changes : Evident(c, chs[c]),
           release(chs) \/ Release(chs, who)
    PROVE  EvidentStep
  BY ReleasedEvident DEF EvidentStep, release, Release
\* release and Release alone.
LEMMA OnlyReleaseEvident ==
    ASSUME Typed, UNCHANGED owner, NEW who,
           release(change) \/ Release(change, who)
    PROVE  EvidentStep
  BY SameEvident, ChangeTable, ReleaseEvident

-----------------------------------------------------------------------------
(* The evidence of a Change, by who takes the step.                        *)

\* Commands: retry drops the review and may choose the latest run.
LEMMA OperatorEvident ==
    ASSUME Typed, Operator
    PROVE  EvidentStep
  <1>0. UNCHANGED owner
    BY OperatorFrame
  <1>1. ASSUME NEW c \in Changes, ReleaseOption(c) PROVE EvidentStep
    <2> DEFINE ch == Set(change[c], "MUTATION", "QUEUED")
               n == [ch EXCEPT !.base = taskSHA]
    <2>1. ch \in ChangeRecord
      BY ChangeTable, SetType DEF Stages, States
    <2>2. Evident(c, ch)
      BY <1>0, ChangeTable, SameEvident, SetEvident
    <2>3. change' = [change EXCEPT ![c] = n]
      BY <1>1 DEF ReleaseOption
    <2>4. Alike(ch, n) /\ n.stage = ch.stage
      <3> HIDE DEF ch
      <3> QED BY <2>1, BaseFields DEF Alike
    <2> HIDE DEF n, ch
    <2>5. Evident(c, n)
      BY <2>2, <2>4, AlikeEvident
    <2> QED BY <1>0, <2>3, <2>5, UpdateEvident
  <1>2. ASSUME NEW c \in Changes, ChangePromote(c) PROVE EvidentStep
    <2> DEFINE ch == Set(change[c], "PROMOTION", "QUEUED")
    <2>1. change[c].artifact # None /\ change' = [change EXCEPT ![c] = ch]
      BY <1>2 DEF ChangePromote, HasEvidence
    <2>2. Evident(c, ch)
      BY <1>0, <2>1, ChangeTable, SameEvident, SetEvident
    <2> HIDE DEF ch
    <2> QED BY <1>0, <2>1, <2>2, UpdateEvident
  <1>3. ASSUME NEW c \in Changes, ChangeResume(c) PROVE EvidentStep
    <2> DEFINE ch == Set(change[c], change[c].stage, "QUEUED")
               n == [ch EXCEPT !.resetAt = RunsOf(c)]
    <2>1. ch \in ChangeRecord
      BY ChangeTable, KeepStage DEF States
    <2>2. Evident(c, ch)
      BY <1>0, ChangeTable, SameEvident, SetEvident
    <2>3. change' = [change EXCEPT ![c] = n]
      BY <1>3 DEF ChangeResume
    <2>4. Alike(ch, n) /\ n.stage = ch.stage
      <3> HIDE DEF ch
      <3> QED BY <2>1, ResetFields DEF Alike
    <2> HIDE DEF n, ch
    <2>5. Evident(c, n)
      BY <2>2, <2>4, AlikeEvident
    <2> QED BY <1>0, <2>3, <2>5, UpdateEvident
  <1>4. ASSUME NEW c \in Changes, NEW stage \in {"CI", "REVIEW", "MUTATION"},
               ChangeRetry(c, stage)
        PROVE  EvidentStep
    <2> DEFINE ch == Set(change[c], stage, "QUEUED")
               r == IF stage = "REVIEW" THEN latestCI[change[c].artifact]
                                        ELSE change[c].ci
               n == [ch EXCEPT !.ci = r, !.review = None,
                               !.resetAt = RunsOf(c)]
    <2>1. ch \in ChangeRecord /\ ch.artifact = change[c].artifact
      BY ChangeTable, SetType, SetFields DEF Stages, States
    <2>2. /\ change' = [change EXCEPT ![c] = n]
          /\ change[c].artifact # None
      BY <1>4 DEF ChangeRetry
    <2>3. /\ n.artifact = change[c].artifact /\ n.ci = r /\ n.review = None
      <3> HIDE DEF ch, r
      <3> QED BY <2>1, RetryFields
    <2>4. r = change[c].ci \/ r = latestCI[change[c].artifact]
      OBVIOUS
    <2> HIDE DEF n, ch, r
    <2>5. Evident(c, n)
      BY <1>0, <2>2, <2>3, <2>4
      DEF Evident, SameArtifact, CIFrom, ReviewFrom
    <2> QED BY <1>0, <2>2, <2>5, UpdateEvident
  <1>5. ASSUME NEW c \in Changes, NEW state \in {"PAUSED", "ABORTED"},
               ChangePause(c, state)
        PROVE  EvidentStep
    <2> DEFINE ch == Set(change[c], change[c].stage, state)
    <2>1. Evident(c, ch)
      BY <1>0, ChangeTable, SameEvident, SetEvident
    <2>2. change' = [change EXCEPT ![c] = ch]
      BY <1>5 DEF ChangePause
    <2> HIDE DEF ch
    <2> QED BY <1>0, <2>1, <2>2, UpdateEvident
  <1>6. ASSUME NEW op, requestCancellation(op) PROVE EvidentStep
    <2>1. change' = PausedAll
      BY <1>6 DEF requestCancellation
    <2> QED BY <1>0, <2>1, SetAllEvident DEF PausedAll
  <1>7. CASE \/ \E a \in Artifacts, r \in CIRuns : QueueCI(a, r)
             \/ \E k \in Attempts : Interrupt(k)
             \/ \E b \in Scopes : ResolveBlocker(b)
             \/ ResumeTask \/ ControlGivesUp \/ CommandFails
             \/ \E new \in Commits : ExternalMove(new)
             \/ \E s \in Scheds : Interrupted(s)
             \/ RecoverStart
    <2>1. UNCHANGED change
      BY <1>7 DEF QueueCI, Interrupt, ResolveBlocker, ResumeTask,
         ControlGivesUp, CommandFails, ExternalMove, Interrupted,
         RecoverStart, document
    <2> QED BY <1>0, <2>1, UnchangedEvident
  <1> QED BY <1>1, <1>2, <1>3, <1>4, <1>5, <1>6, <1>7 DEF Operator

\* Commands that waited.
LEMMA ControlEvident ==
    ASSUME Typed, Control
    PROVE  EvidentStep
  <1>0. UNCHANGED owner
    BY ControlFrame DEF evidence
  <1>1. CASE finishResume
    BY <1>0, <1>1, SetAllEvident DEF finishResume
  <1>2. CASE ChangeSettled \/ CancellationSettles \/ finishLifecycle \/ LifecycleRefused
    <2>1. UNCHANGED change \/ change' = PausedAll
      BY <1>2 DEF ChangeSettled, CancellationSettles, finishLifecycle, LifecycleRefused, document
    <2>2. CASE change' = PausedAll
      BY <1>0, <2>2, SetAllEvident DEF PausedAll
    <2> QED BY <1>0, <2>1, <2>2, UnchangedEvident
  <1> QED BY <1>1, <1>2 DEF Control

\* PrepareAttempt and PrepareCI bind the review and the run they start.
LEMMA PrepareEvident ==
    ASSUME Typed, NEW s \in Scheds,
           \/ \E k \in Attempts : PrepareAttempt(s, k)
           \/ \E r \in CIRuns : PrepareCI(s, r)
    PROVE  EvidentStep
  <1> DEFINE c == step[s].change
  <1>1. ASSUME NEW k \in Attempts, PrepareAttempt(s, k) PROVE EvidentStep
    <2> DEFINE n == [change[c] EXCEPT !.review = k]
    <2>0. UNCHANGED owner
      BY <1>1 DEF PrepareAttempt, evidence
    <2>1. change' = change \/ change' = [change EXCEPT ![c] = n]
      BY <1>1 DEF PrepareAttempt
    <2>2. c \in Changes => /\ n.artifact = change[c].artifact
                           /\ n.ci = change[c].ci /\ n.review = k
                           /\ n.stage = change[c].stage
      BY ChangeTable, ReviewFields
    <2> HIDE DEF n
    <2>3. c \in Changes => Evident(c, n)
      BY <1>1, <2>0, <2>2 DEF Evident, SameArtifact, CIFrom, ReviewFrom
    <2> HIDE DEF c
    <2> QED BY <2>0, <2>1, <2>3, UpdateEvident, UnchangedEvident
  <1>2. ASSUME NEW r \in CIRuns, PrepareCI(s, r) PROVE EvidentStep
    <2> DEFINE n == [change[c] EXCEPT !.ci = r, !.review = None]
    <2>0. UNCHANGED owner
      BY <1>2 DEF PrepareCI
    <2>1. \/ change' = change
          \/ change' = [change EXCEPT ![c].ci = r, ![c].review = None]
      BY <1>2 DEF PrepareCI
    <2>2. /\ c \in Changes => [change EXCEPT ![c].ci = r, ![c].review = None]
                                 = [change EXCEPT ![c] = n]
          /\ c \notin Changes =>
                [change EXCEPT ![c].ci = r, ![c].review = None] = change
      BY ChangeTable
    <2>3. c \in Changes => /\ n.artifact = change[c].artifact
                           /\ n.ci = r /\ n.review = None
                           /\ n.stage = change[c].stage
      BY ChangeTable, PreparedFields
    <2> HIDE DEF n
    <2>4. c \in Changes => Evident(c, n)
      BY <1>2, <2>0, <2>3 DEF Evident, SameArtifact, CIFrom, ReviewFrom
    <2> HIDE DEF c
    <2> QED BY <2>0, <2>1, <2>2, <2>4, UpdateEvident, UnchangedEvident
  <1> QED BY <1>1, <1>2

\* An Artifact captured for Change c leaves the other Changes alone.
LEMMA CaptureEvident ==
    ASSUME Typed, NEW c \in Changes, NEW a \in Artifacts \cup {None},
           a # None => Fresh(a, UnusedArtifacts),
           owner' = IF a # None THEN [owner EXCEPT ![a] = c] ELSE owner
    PROVE  /\ \A d \in Changes \ {c} : Evident(d, change[d])
           /\ Evident(c, IF a # None THEN Captured(change[c], a)
                                     ELSE change[c])
  <1>0. owner \in [Artifacts -> Changes \cup {None}]
        /\ change[c] \in ChangeRecord
    BY WorkTables, ChangeTable
  <1>1. ASSUME NEW d \in Changes \ {c} PROVE Evident(d, change[d])
    <2>1. \A x \in Artifacts : owner'[x] = d => owner[x] = d
      BY <1>0
    <2> QED BY <2>1 DEF Evident, SameArtifact, CIFrom, ReviewFrom
  <1>2. CASE a = None
    BY <1>1, <1>2, SameEvident
  <1>3. CASE a # None
    <2> DEFINE n == Captured(change[c], a)
    <2>1. a \in Artifacts /\ owner[a] = None /\ owner'[a] = c
      BY <1>0, <1>3 DEF Fresh, UnusedArtifacts
    <2>2. /\ n.artifact = a /\ n.ci = None /\ n.review = None
          /\ n.stage = change[c].stage
      BY <1>0, CapturedFields
    <2> HIDE DEF n
    <2>3. Evident(c, n)
      BY <1>3, <2>1, <2>2 DEF Evident, CapturedNow
    <2> QED BY <1>1, <1>3, <2>3 DEF n
  <1> QED BY <1>2, <1>3

\* Complete: a reviewed Change keeps its Artifact and names this Attempt, a
\* mutated one has a new Artifact or none.
LEMMA CompleteEvident ==
    ASSUME Typed, Named, Unfinished, Current, NEW s \in Scheds,
           NEW how \in Endings, NEW result \in Verdicts,
           NEW a \in Artifacts \cup {None}, Complete(s, how, result, a)
    PROVE  EvidentStep
  <1> DEFINE p == step[s]
             k == act[s]
             c == p.change
             stopped == how = "INTERRUPTED" \/ k \in interrupts \/ cancelled
             ch == IF a # None THEN Captured(change[c], a) ELSE change[c]
             paused == stopped \/ ch.state \in {"PAUSED", "ABORTED"}
             rv == [attempt |-> k, ci |-> ch.ci,
                    verdict |-> IF result = "APPROVE" THEN "APPROVE"
                                                      ELSE "REJECT"]
             rch == [ch EXCEPT !.review = k]
             moved ==
                 IF paused
                 THEN IF ch.state = "ABORTED" THEN ch
                      ELSE Set(ch, ch.stage, "PAUSED")
                 ELSE IF how \in Infrastructure THEN ch
                 ELSE IF how # "RETURNED" THEN Set(ch, ch.stage, "BLOCKED")
                 ELSE IF p.op = "mutation"
                 THEN IF a = None \/ result = "DROP_FINAL"
                      THEN Set(ch, "MUTATION", "BLOCKED")
                      ELSE IF result = "PROMOTE_FINAL"
                      THEN Set(ch, "CI", "QUEUED")
                      ELSE Set(ch, "MUTATION", "QUEUED")
                 ELSE IF PromotionEvidence(c, rch, rv)
                 THEN Set(rch, "AWAIT_PROMOTION", "QUEUED")
                 ELSE IF result = "REJECT_WITH_FINDINGS"
                 THEN Set(rch, "MUTATION", "QUEUED")
                 ELSE Set(rch, "REVIEW", "BLOCKED")
  <1>0. pc[s] \in AtWork
    BY CompleteFrame DEF AtWork
  <1>1. c \in Changes /\ change[c] \in ChangeRecord /\ k \in Attempts
    BY <1>0, StepChange DEF Typed, Shape, LocalsOK, Local, Executing, AtWork
  <1>2. ch \in ChangeRecord
    BY <1>1, CapturedType
  <1>3. rch \in ChangeRecord
    <2> HIDE DEF ch, k
    <2> QED BY <1>1, <1>2, ReviewType
  <1>4. /\ a # None => p.op = "mutation" /\ Fresh(a, UnusedArtifacts)
        /\ owner' = IF a # None THEN [owner EXCEPT ![a] = c] ELSE owner
    BY Zenon DEF Complete
  <1>5. Evident(c, ch) /\ \A d \in Changes \ {c} : Evident(d, change[d])
    BY <1>1, <1>4, CaptureEvident
  <1>6. a # None => ch.artifact # None
    BY <1>1, CapturedFields DEF Artifacts, None
  <1>7. p.op # "mutation" => /\ Evident(c, rch) /\ rch.artifact # None
                             /\ rch.stage = ch.stage
    <2> SUFFICES ASSUME p.op # "mutation"
                 PROVE  /\ Evident(c, rch) /\ rch.artifact # None
                        /\ rch.stage = ch.stage
      OBVIOUS
    <2>1. a = None /\ UNCHANGED owner /\ ch = change[c]
      BY <1>4
    <2>2. change[c].artifact # None
      BY <1>0, <1>1 DEF Current, AtWork, Executing, Changes, None
    <2>3. /\ rch.artifact = change[c].artifact /\ rch.ci = change[c].ci
          /\ rch.review = k /\ rch.stage = change[c].stage
      BY <1>1, <2>1, ReviewFields
    <2> HIDE DEF rch, ch
    <2>4. Evident(c, rch)
      BY <1>0, <2>1, <2>2, <2>3 DEF Evident, SameArtifact, CIFrom, ReviewFrom
    <2> QED BY <2>1, <2>2, <2>3, <2>4
  <1>8. moved \in ChangeRecord
    <2> HIDE DEF ch, rch, rv, k, p, paused
    <2> QED BY <1>2, <1>3, SetType, KeepStage DEF Stages, States
  <1>9. Evident(c, moved)
    <2> HIDE DEF ch, rch, rv, k, p, c, paused, PromotionEvidence
    <2> QED BY <1>2, <1>3, <1>5, <1>6, <1>7, SetEvident
  <1>10. \/ release([change EXCEPT ![c] = moved])
         \/ change' = [change EXCEPT ![c] = moved]
    BY Zenon DEF Complete
  <1> DEFINE chs == [change EXCEPT ![c] = moved]
  <1> HIDE DEF moved, c
  <1>11. chs \in [Changes -> ChangeRecord]
    BY <1>8, ChangeTable, ChangeType
  <1>12. \A d \in Changes : Evident(d, chs[d])
    BY <1>5, <1>9, ChangeTable
  <1> HIDE DEF chs
  <1>13. release(chs) => EvidentStep
    BY <1>11, <1>12, ReleaseEvident
  <1>14. change' = chs => EvidentStep
    BY <1>12 DEF EvidentStep
  <1> QED BY <1>10, <1>13, <1>14 DEF chs

\* FinishCI and the end of a promotion move a Change that has an Artifact.
LEMMA FinishCIEvident ==
    ASSUME Typed, Current, NEW s \in Scheds, NEW outcome \in Outcomes,
           NEW code \in CIErrors, FinishCI(s, outcome, code)
    PROVE  EvidentStep
  <1> DEFINE c == step[s].change
             ch == change[c]
             moved == IF ch.state = "ABORTED" THEN ch
                      ELSE IF ch.state = "PAUSED" \/ cancelled
                              \/ outcome = "TERMINATED"
                      THEN Set(ch, ch.stage, "PAUSED")
                      ELSE IF TimeoutStreak(c, run') >= 2
                      THEN Set(ch, "CI", "BLOCKED")
                      ELSE Set(ch, "REVIEW", "QUEUED")
  <1>0. UNCHANGED owner /\ pc[s] \in AtCI
    BY FinishCIFrame DEF AtCI
  <1>1. \/ change' = change
        \/ c # None /\ change' = [change EXCEPT ![c] = moved]
    BY DEF FinishCI
  <1>2. c # None => c \in Changes /\ ch \in ChangeRecord
    BY WorkTables, ChangeTable DEF StepRecord
  <1>3. c # None => ch.artifact # None
    BY <1>0 DEF Current, AtCI, Executing, MayMutate
  <1>4. Evident(c, ch)
    BY <1>0, SameEvident
  <1>5. c # None => Evident(c, moved)
    <2> HIDE DEF ch, c
    <2> QED BY <1>2, <1>3, <1>4, SetEvident
  <1> HIDE DEF moved, c
  <1> QED BY <1>0, <1>1, <1>5, UpdateEvident, UnchangedEvident

\* The end of a promotion that is not applied.
LEMMA EndPromotionEvident ==
    ASSUME Typed, Named, Unfinished, Current, NEW s \in Scheds,
           EvidenceChanged(s) \/ EndPromotion(s)
    PROVE  EvidentStep
  <1> DEFINE c == step[s].change
  <1>1. /\ pc[s] \in {"evidence", "drifted", "conflicted"}
        /\ UNCHANGED owner
    BY EndPromotionFrame DEF EvidenceChanged, evidence
  <1>2. c \in Changes /\ change[c] \in ChangeRecord
    BY <1>1, StepChange DEF Executing
  <1>3. Evident(c, change[c])
    BY <1>1, SameEvident
  <1>4. CASE EvidenceChanged(s)
    <2> DEFINE ch == Set(change[c], "REVIEW", "BLOCKED")
    <2>1. /\ change' = change \/ change' = [change EXCEPT ![c] = ch]
          /\ pc[s] = "evidence"
      BY <1>4 DEF EvidenceChanged
    <2>2. change[c].artifact # None
      BY <1>2, <2>1 DEF Current, Executing, MayMutate, Changes, None
    <2>3. Evident(c, ch)
      BY <1>2, <1>3, <2>2, SetEvident
    <2> HIDE DEF ch, c
    <2> QED BY <1>1, <2>1, <2>3, UpdateEvident, UnchangedEvident
  <1>5. CASE EndPromotion(s)
    <2> DEFINE ch == Set(change[c], change[c].stage, "STALE")
    <2>1. change' = change \/ change' = [change EXCEPT ![c] = ch]
      BY <1>5, Zenon DEF EndPromotion
    <2>2. Evident(c, ch)
      BY <1>2, <1>3, SetEvident
    <2> HIDE DEF ch, c
    <2> QED BY <1>1, <2>1, <2>2, UpdateEvident, UnchangedEvident
  <1> QED BY <1>4, <1>5

\* The end of a step.
LEMMA EndOfStepEvident ==
    ASSUME Typed, NEW s \in Scheds,
           FailedStep(s) \/ PauseOnSignal(s) \/ EndStep(s)
    PROVE  EvidentStep
  <1>0. UNCHANGED owner
    BY DEF FailedStep, PauseOnSignal, EndStep, evidence
  <1>1. CASE FailedStep(s) \/ EndStep(s)
    <2>1. Release(change, s) \/ UNCHANGED change
      BY <1>1 DEF FailedStep, EndStep, TryRelease, KeepsSlot
    <2> QED BY <1>0, <2>1, OnlyReleaseEvident, UnchangedEvident
  <1>2. CASE PauseOnSignal(s)
    <2> DEFINE c == step[s].change
               ch == Set(change[c], change[c].stage, "PAUSED")
    <2>1. UNCHANGED change \/ change' = [change EXCEPT ![c] = ch]
      BY <1>2 DEF PauseOnSignal, AfterSignal
    <2>2. c \in Changes => Evident(c, ch)
      <3> HIDE DEF c
      <3> QED BY <1>0, ChangeTable, SameEvident, SetEvident
    <2> HIDE DEF c, ch
    <2> QED BY <1>0, <2>1, <2>2, UpdateEvident, UnchangedEvident
  <1> QED BY <1>1, <1>2

\* Every step of an activity.
LEMMA ActivityEvident ==
    ASSUME Typed, Named, Unfinished, Current, Used, NEW s \in Scheds,
           Activity(s)
    PROVE  EvidentStep
  <1>1. CASE \/ ResolveRef(s) \/ ResolveRefFails(s) \/ Refused(s)
             \/ Materialize(s) \/ StorageFails(s) \/ OpenLogs(s)
             \/ MarkCIRunning(s) \/ PromoteBusy(s) \/ PromoteStart(s)
             \/ Construct(s) \/ ConstructFails(s)
             \/ \E j \in Journals : PreparePromotion(s, j)
             \/ PreparePromotionFails(s)
             \/ CAS(s) \/ CASFails(s) \/ CASRejected(s) \/ CASConflict(s)
             \/ CASUnexplained(s)
    <2>1. UNCHANGED change
      BY <1>1, QuietSteps
    <2>2. UNCHANGED owner
      BY <1>1 DEF ResolveRef, ResolveRefFails, Refused, Materialize,
         StorageFails, OpenLogs, MarkCIRunning, PromoteBusy, PromoteStart,
         Construct, ConstructFails, PreparePromotion, PreparePromotionFails,
         CAS, CASFails, CASRejected, CASConflict, CASUnexplained, document,
         evidence
    <2> QED BY <2>1, <2>2, UnchangedEvident
  <1>2. CASE ApplyPromotion(s)
    <2>1. /\ UNCHANGED owner
          /\ act[s] \in Journals /\ journal[act[s]].state # "NONE"
      BY <1>2, ApplyFrame, FinishedJournal DEF evidence
    <2> DEFINE c == owner[journal[act[s]].artifact]
               ch == Set(change[c], "PROMOTION", "DONE")
    <2>2. change' = change \/ change' = [change EXCEPT ![c] = ch]
      BY <1>2, Zenon DEF ApplyPromotion
    <2>3. journal[act[s]].artifact \in Artifacts /\ c # None /\ c \in Changes
      BY <2>1 DEF Named, Typed, TypeOK, DocumentOK, JournalRecord
    <2>4. change[c].artifact # None /\ change[c] \in ChangeRecord
      BY <2>3, ChangeTable DEF Used
    <2>5. Evident(c, ch)
      <3> HIDE DEF c
      <3> QED BY <2>1, <2>4, SameEvident, SetEvident
    <2> HIDE DEF c, ch
    <2> QED BY <2>1, <2>2, <2>5, UpdateEvident, UnchangedEvident
  <1> QED BY <1>1, <1>2, PrepareEvident, CompleteEvident, FinishCIEvident,
             EndPromotionEvident, EndOfStepEvident
          DEF Activity

\* Schedulers between two activities, or killed.
LEMMA ScheduleEvident ==
    ASSUME Typed, NEW s \in Scheds,
           SchedStart(s) \/ Crash(s) \/ Schedule(s)
    PROVE  EvidentStep
  <1>0. UNCHANGED owner
    BY ScheduleFrame DEF evidence
  <1>1. CASE SchedStart(s) \/ Crash(s) \/ NextRequest(s) \/ IdleFails(s)
    <2>1. UNCHANGED change
      BY <1>1 DEF SchedStart, Crash, NextRequest, IdleFails, KeepsSlot,
                  document
    <2> QED BY <1>0, <2>1, UnchangedEvident
  <1>2. CASE SchedStop(s)
    <2>1. Release(change, s) \/ UNCHANGED change
      BY <1>2 DEF SchedStop, KeepsSlot
    <2> QED BY <1>0, <2>1, OnlyReleaseEvident, UnchangedEvident
  <1>3. CASE NextChange(s)
    <2>1. ASSUME NEW d \in Changes PROVE Evident(d, change'[d])
      <3> DEFINE n1 == [change[d] EXCEPT !.state = "RUNNING",
                                         !.started = TRUE]
                 n2 == [change[d] EXCEPT !.state = "STALE"]
                 n3 == [change[d] EXCEPT !.state = "BLOCKED"]
      <3>1. change'[d] \in {change[d], n1, n2, n3}
        BY <1>3 DEF NextChange
      <3>2. /\ Alike(change[d], n1) /\ n1.stage = change[d].stage
            /\ Alike(change[d], n2) /\ n2.stage = change[d].stage
            /\ Alike(change[d], n3) /\ n3.stage = change[d].stage
        BY ChangeTable, StartedFields, StateFields DEF Alike
      <3> HIDE DEF n1, n2, n3
      <3>3. Evident(d, change[d])
        BY <1>0, SameEvident
      <3>4. Evident(d, n1) /\ Evident(d, n2) /\ Evident(d, n3)
        BY <3>2, <3>3, AlikeEvident
      <3> QED BY <3>1, <3>3, <3>4
    <2> QED BY <2>1 DEF EvidentStep
  <1> QED BY <1>1, <1>2, <1>3 DEF Schedule

\* Recovery.
LEMMA RecoveryEvident ==
    ASSUME Typed, Named, Used, Recovery \/ RecoverFails \/ RecoverCrash
    PROVE  EvidentStep
  <1>1. CASE \/ RecoverRefused \/ RecoverSteal \/ RecoverTerminate
             \/ \E j \in Journals : RecoverResolve(j)
             \/ RecoverUnlock \/ RecoverDone \/ RecoverCrash
    <2>1. UNCHANGED <<change, owner>>
      BY <1>1 DEF RecoverRefused, RecoverSteal, RecoverTerminate,
         RecoverResolve, RecoverUnlock, RecoverDone, RecoverCrash, document,
         evidence
    <2> QED BY <2>1, UnchangedEvident
  <1>2. ASSUME RecoverBails, UNCHANGED owner PROVE EvidentStep
    BY <1>2, OnlyReleaseEvident, UnchangedEvident DEF RecoverBails
  <1>3. CASE RecoverFails
    BY <1>2, <1>3 DEF RecoverFails, evidence
  <1>4. ASSUME NEW k \in Attempts, NEW a \in Artifacts \cup {None},
               RecoverAttempt(k, a)
        PROVE  EvidentStep
    <2> DEFINE c == attempt[k].change
               ch == IF a # None THEN Captured(change[c], a) ELSE change[c]
               moved == IF Terminal(c) THEN ch
                        ELSE Set(ch, ch.stage, "PAUSED")
    <2>1. c \in Changes /\ change[c] \in ChangeRecord
      BY <1>4, ChangeTable DEF Typed, TypeOK, DocumentOK, AttemptRecord,
         RecoverAttempt, ActiveAttempts, Named
    <2>2. ch \in ChangeRecord
      BY <2>1, CapturedType
    <2>3. /\ a # None => Fresh(a, UnusedArtifacts)
          /\ owner' = IF a # None THEN [owner EXCEPT ![a] = c] ELSE owner
      BY <1>4, Zenon DEF RecoverAttempt
    <2>4. Evident(c, ch) /\ \A d \in Changes \ {c} : Evident(d, change[d])
      BY <2>1, <2>3, CaptureEvident
    <2>5. Evident(c, moved)
      <3> HIDE DEF ch, c
      <3> QED BY <2>2, <2>4, SetEvident
    <2>6. change' = [change EXCEPT ![c] = moved]
      BY <1>4 DEF RecoverAttempt
    <2> HIDE DEF moved, c, ch
    <2> QED BY <2>4, <2>5, <2>6, ChangeTable DEF EvidentStep
  <1>5. CASE RecoverLeases
    <2>1. UNCHANGED owner
      BY <1>5 DEF RecoverLeases
    <2>2. \A c \in Changes : change'[c] = Restarted(change[c])
      BY <1>5 DEF RecoverLeases
    <2> QED BY <2>1, <2>2, SetAllEvident DEF Restarted
  <1>6. CASE RecoverJournal
    <2> DEFINE j == rec.journal
               c == owner[journal[j].artifact]
    <2>1. UNCHANGED owner /\ j \in Journals /\ journal[j].state # "NONE"
      BY <1>6, RecoverJournalFrame, FinishedJournal DEF evidence
    <2>2. journal[j].artifact \in Artifacts /\ c # None /\ c \in Changes
      BY <2>1 DEF Named, Typed, TypeOK, DocumentOK, JournalRecord
    <2>3. change[c].artifact # None /\ change[c] \in ChangeRecord
      BY <2>2, ChangeTable DEF Used
    <2>4. \/ RecoverBails
          \/ \E stage, state : change' =
                [change EXCEPT ![c] = Set(change[c], stage, state)]
      <3>1. \/ RecoverBails
            \/ change' = [change EXCEPT ![c] =
                  CASE Outcome(j, rec.sha) = "APPLIED" ->
                          Set(change[c], "PROMOTION", "DONE")
                    [] Outcome(j, rec.sha) = "NOT_APPLIED" ->
                          Set(change[c], "AWAIT_PROMOTION", "QUEUED")
                    [] OTHER -> Set(change[c], change[c].stage, "STALE")]
        BY <1>6, Zenon DEF RecoverJournal
      <3>2. Outcome(j, rec.sha) \in {"APPLIED", "NOT_APPLIED", "CONFLICT"}
        BY DEF Outcome
      <3> HIDE DEF c, j
      <3> QED BY <3>1, <3>2
    <2>5. ASSUME NEW stage, NEW state,
                 change' = [change EXCEPT ![c] = Set(change[c], stage, state)]
          PROVE  EvidentStep
      <3> HIDE DEF c
      <3>1. Evident(c, Set(change[c], stage, state))
        BY <2>1, <2>3, SameEvident, SetEvident
      <3> QED BY <2>1, <2>5, <3>1, UpdateEvident
    <2> QED BY <1>2, <2>1, <2>4, <2>5
  <1> QED BY <1>1, <1>3, <1>4, <1>5, <1>6 DEF Recovery

\* Every step.
LEMMA StepEvident ==
    ASSUME Typed, Named, Unfinished, Current, Used, [Next]_vars
    PROVE  EvidentStep
  <1>1. CASE UNCHANGED vars
    BY <1>1, UnchangedEvident DEF vars, document, evidence
  <1> QED BY <1>1, OperatorEvident, ControlEvident, ActivityEvident,
             ScheduleEvident, RecoveryEvident
          DEF Next

-----------------------------------------------------------------------------
(* EvidenceBelongs and Used are inductive.                                 *)

\* A run is prepared for the Artifact its Change has.
LEMMA PreparedRun ==
    ASSUME Typed, Current, NEW s \in Scheds, NEW r \in CIRuns,
           PrepareCI(s, r)
    PROVE  /\ run'[r].status = "PREPARING"
           /\ run'[r].artifact = step[s].target
           /\ step[s].target # None
           /\ step[s].change # None =>
                 step[s].target = change[step[s].change].artifact
  <1>1. run \in [CIRuns -> RunRecord]
    BY WorkTables
  <1>2. pc[s] = "ciPrepare"
    BY DEF PrepareCI
  <1>3. run'[r].status = "PREPARING" /\ run'[r].artifact = step[s].target
    BY <1>1 DEF PrepareCI
  <1> QED BY <1>2, <1>3 DEF Current, Executing, MayMutate
\* And so is an Attempt.
LEMMA PreparedAttempt ==
    ASSUME Typed, Current, NEW s \in Scheds, NEW k \in Attempts,
           PrepareAttempt(s, k)
    PROVE  /\ attempt'[k].status = "ACTIVE"
           /\ attempt'[k].target = step[s].target
           /\ step[s].target = change[step[s].change].artifact
  <1>1. attempt \in [Attempts -> AttemptRecord]
    BY WorkTables
  <1>2. pc[s] = "prepare"
    BY DEF PrepareAttempt
  <1>3. /\ attempt'[k].status = "ACTIVE"
        /\ attempt'[k].target = step[s].target
    BY <1>1 DEF PrepareAttempt
  <1>4. step[s].change # None
    BY <1>2 DEF Typed, Shape, LocalsOK, Local, Executing, Changes, None
  <1> QED BY <1>2, <1>3, <1>4 DEF Current, Executing

\* The run a Change names afterwards exists and is of its Artifact.
LEMMA NextRunBelongs ==
    ASSUME Typed, Named, Unfinished, Current, Used, EvidenceBelongs,
           [Next]_vars, NEW c \in Changes, change'[c].ci # None
    PROVE  /\ run'[change'[c].ci].status # "NONE"
           /\ run'[change'[c].ci].artifact = change'[c].artifact
  <1> DEFINE n == change'[c]
  <1>0. Evident(c, n)
    BY StepEvident DEF EvidentStep
  <1>1. n.ci \in CIRuns
    BY NextTyped, ChangeTable DEF Typed, TypeOK, DocumentOK, ChangeRecord
  <1>2. change[c].ci # None =>
           /\ run[change[c].ci].status # "NONE"
           /\ run[change[c].ci].artifact = change[c].artifact
    BY DEF Used, EvidenceBelongs
  <1>3. ASSUME NEW a \in Artifacts, latestCI[a] # None
        PROVE  /\ run[latestCI[a]].status # "NONE"
               /\ run[latestCI[a]].artifact = a
    BY <1>3 DEF Used, EvidenceBelongs
  <1>4. change[c].artifact # None => change[c].artifact \in Artifacts
    BY ChangeTable DEF ChangeRecord
  <1> HIDE DEF n
  <1>5. CASE SameArtifact(c, n) /\ n.ci \in {change[c].ci, None}
    BY <1>1, <1>2, <1>5, RunKept DEF SameArtifact, n
  <1>6. CASE /\ SameArtifact(c, n) /\ change[c].artifact # None
             /\ n.ci = latestCI[change[c].artifact]
    BY <1>1, <1>3, <1>4, <1>6, RunKept DEF SameArtifact, n
  <1>7. ASSUME NEW s \in Scheds, NEW r \in CIRuns, SameArtifact(c, n),
               step[s].change = c, PrepareCI(s, r), n.ci = r
        PROVE  run'[n.ci].status # "NONE" /\ run'[n.ci].artifact = n.artifact
    <2>1. c # None
      BY DEF Changes, None
    <2>2. /\ run'[r].status = "PREPARING"
          /\ run'[r].artifact = change[c].artifact
      BY <1>7, <2>1, PreparedRun
    <2> QED BY <1>7, <2>2 DEF SameArtifact
  <1>8. CASE CapturedNow(c, n)
    BY <1>8 DEF CapturedNow, n
  <1> QED BY <1>0, <1>5, <1>6, <1>7, <1>8 DEF Evident, SameArtifact, CIFrom, n

\* So is the review.
LEMMA NextReviewBelongs ==
    ASSUME Typed, Named, Unfinished, Current, Used, EvidenceBelongs,
           [Next]_vars, NEW c \in Changes, change'[c].review # None
    PROVE  /\ attempt'[change'[c].review].status # "NONE"
           /\ attempt'[change'[c].review].target = change'[c].artifact
  <1> DEFINE n == change'[c]
  <1>0. Evident(c, n)
    BY StepEvident DEF EvidentStep
  <1>1. n.review \in Attempts
    BY NextTyped, ChangeTable DEF Typed, TypeOK, DocumentOK, ChangeRecord
  <1>2. change[c].review # None =>
           /\ attempt[change[c].review].status # "NONE"
           /\ attempt[change[c].review].target = change[c].artifact
    BY DEF Used, EvidenceBelongs
  <1> HIDE DEF n
  <1>3. CASE SameArtifact(c, n) /\ n.review \in {change[c].review, None}
    BY <1>1, <1>2, <1>3, AttemptKept DEF SameArtifact, n
  <1>4. ASSUME NEW s \in Scheds, NEW k \in Attempts, SameArtifact(c, n),
               step[s].change = c, PrepareAttempt(s, k), n.review = k
        PROVE  /\ attempt'[n.review].status # "NONE"
               /\ attempt'[n.review].target = n.artifact
    <2>1. /\ attempt'[k].status = "ACTIVE"
          /\ attempt'[k].target = change[c].artifact
      BY <1>4, PreparedAttempt
    <2> QED BY <1>4, <2>1 DEF SameArtifact
  <1>5. ASSUME NEW s \in Scheds, SameArtifact(c, n), step[s].change = c,
               pc[s] \in AtWork, n.review = act[s]
        PROVE  /\ attempt'[n.review].status # "NONE"
               /\ attempt'[n.review].target = n.artifact
    <2>1. c # None /\ pc[s] \in Executing
      BY <1>5 DEF Changes, None, AtWork, Executing
    <2>2. /\ attempt[act[s]].status = "ACTIVE"
          /\ attempt[act[s]].target = change[c].artifact
      BY <1>5, <2>1 DEF Current
    <2> QED BY <1>1, <1>5, <2>2, AttemptKept DEF SameArtifact
  <1>6. CASE CapturedNow(c, n)
    BY <1>6 DEF CapturedNow, n
  <1> QED BY <1>0, <1>3, <1>4, <1>5, <1>6
          DEF Evident, SameArtifact, ReviewFrom, n

\* The latest run and the review of an Artifact.
LEMMA NextLatestBelongs ==
    ASSUME Typed, Current, Used, EvidenceBelongs, [Next]_vars,
           NEW a \in Artifacts
    PROVE  /\ latestCI'[a] # None =>
                 /\ run'[latestCI'[a]].status # "NONE"
                 /\ run'[latestCI'[a]].artifact = a
           /\ review'[a].attempt # None =>
                 /\ attempt'[review'[a].attempt].status # "NONE"
                 /\ attempt'[review'[a].attempt].target = a
  <1>0. /\ latestCI \in [Artifacts -> CIRuns \cup {None}]
        /\ review \in [Artifacts -> ReviewRecord]
    BY WorkTables
  <1>1. ASSUME latestCI'[a] # None
        PROVE  /\ run'[latestCI'[a]].status # "NONE"
               /\ run'[latestCI'[a]].artifact = a
    <2>1. /\ latestCI'[a] \in CIRuns /\ run[latestCI'[a]].artifact = a
          /\ run[latestCI'[a]].status # "NONE"
      BY <1>0, <1>1, LatestWrites DEF Used, EvidenceBelongs
    <2> QED BY <2>1, RunKept
  <1>2. ASSUME review'[a].attempt # None
        PROVE  /\ attempt'[review'[a].attempt].status # "NONE"
               /\ attempt'[review'[a].attempt].target = a
    <2>1. CASE review'[a] = review[a]
      <3>1. /\ review[a].attempt \in Attempts
            /\ attempt[review[a].attempt].status # "NONE"
            /\ attempt[review[a].attempt].target = a
        BY <1>0, <1>2, <2>1 DEF Used, EvidenceBelongs, ReviewRecord
      <3> QED BY <2>1, <3>1, AttemptKept
    <2>2. ASSUME NEW s \in Scheds, pc[s] \in AtWork, step[s].target = a,
                 review'[a].attempt = act[s]
          PROVE  /\ attempt'[review'[a].attempt].status # "NONE"
                 /\ attempt'[review'[a].attempt].target = a
      <3>1. /\ act[s] \in Attempts /\ attempt[act[s]].status = "ACTIVE"
            /\ attempt[act[s]].target = a
        BY <2>2 DEF Current, AtWork, Executing, Typed, Shape, LocalsOK, Local
      <3> QED BY <2>2, <3>1, AttemptKept
    <2> QED BY <2>1, <2>2, ReviewWrites
  <1> QED BY <1>1, <1>2

\* A run is requested by QueueCI only.
LEMMA RequestWrites ==
    ASSUME Typed, [Next]_vars, NEW r \in requests'
    PROVE  r \in requests \/ \E a \in Artifacts : QueueCI(a, r)
  <1>1. ASSUME NEW p, finishActivity(p) PROVE r \in requests
    BY <1>1 DEF finishActivity
  <1>2. ASSUME NEW s \in Scheds, NEW how, NEW result, NEW a,
               Complete(s, how, result, a)
        PROVE  r \in requests
    <2>1. finishActivity(step[s]) \/ UNCHANGED requests
      BY <1>2, Zenon DEF Complete
    <2> QED BY <1>1, <2>1
  <1>3. ASSUME NEW s \in Scheds, NEW outcome, NEW code,
               FinishCI(s, outcome, code)
        PROVE  r \in requests
    <2>1. finishActivity(step[s])
      BY <1>3, Zenon DEF FinishCI
    <2> QED BY <1>1, <2>1
  <1>4. ASSUME NEW s \in Scheds, EndPromotion(s) \/ ApplyPromotion(s)
        PROVE  r \in requests
    <2>1. \/ finishActivity(step[s]) \/ finishActivity(pending)
          \/ UNCHANGED requests
      BY <1>4, Zenon DEF EndPromotion, ApplyPromotion
    <2> QED BY <1>1, <2>1
  <1>5. ASSUME NEW s \in Scheds, Activity(s) PROVE r \in requests
    <2>1. CASE \/ ResolveRef(s) \/ ResolveRefFails(s) \/ Refused(s)
               \/ \E k \in Attempts : PrepareAttempt(s, k)
               \/ Materialize(s) \/ StorageFails(s)
               \/ \E x \in CIRuns : PrepareCI(s, x)
               \/ OpenLogs(s) \/ MarkCIRunning(s)
               \/ PromoteBusy(s) \/ PromoteStart(s) \/ EvidenceChanged(s)
               \/ Construct(s) \/ ConstructFails(s)
               \/ \E j \in Journals : PreparePromotion(s, j)
               \/ PreparePromotionFails(s)
               \/ CAS(s) \/ CASFails(s) \/ CASRejected(s) \/ CASConflict(s)
               \/ CASUnexplained(s)
               \/ FailedStep(s) \/ PauseOnSignal(s) \/ EndStep(s)
      <3>1. UNCHANGED requests
        BY <2>1 DEF ResolveRef, ResolveRefFails, Refused, PrepareAttempt,
           Materialize, StorageFails, PrepareCI, OpenLogs, MarkCIRunning,
           PromoteBusy, PromoteStart, EvidenceChanged, Construct,
           ConstructFails, PreparePromotion, PreparePromotionFails, CAS,
           CASFails, CASRejected, CASConflict, CASUnexplained, FailedStep,
           PauseOnSignal, EndStep, document, work
      <3> QED BY <3>1
    <2> QED BY <1>2, <1>3, <1>4, <1>5, <2>1 DEF Activity
  <1>6. CASE Operator
    <2>1. \/ UNCHANGED requests \/ requests' = {}
          \/ \E a \in Artifacts, x \in CIRuns : QueueCI(a, x)
      BY <1>6 DEF Operator, ReleaseOption, ChangePromote, ChangeResume,
         ChangeRetry, OnlyChange, ChangePause, Interrupt, ResolveBlocker,
         requestCancellation, ResumeTask, ControlGivesUp, CommandFails,
         ExternalMove, Interrupted, RecoverStart, document, work
    <2>2. ASSUME NEW a \in Artifacts, NEW x \in CIRuns, QueueCI(a, x)
          PROVE  r \in requests \/ QueueCI(a, r)
      <3>1. r \in requests \cup {x}
        BY <2>2 DEF QueueCI
      <3> QED BY <2>2, <3>1
    <2> QED BY <2>1, <2>2
  <1>7. CASE Recovery \/ RecoverFails \/ RecoverCrash
    <2>1. ASSUME NEW k, NEW a, RecoverAttempt(k, a) PROVE r \in requests
      <3>1. requests' = requests \ {pending.request}
        BY <2>1, Zenon DEF RecoverAttempt
      <3> QED BY <3>1
    <2>2. CASE RecoverJournal
      BY <2>2, RecoverJournalFrame DEF work
    <2> QED BY <1>7, <2>1, <2>2 DEF Recovery, RecoverRefused, RecoverSteal,
            RecoverTerminate, RecoverLeases, RecoverResolve, RecoverUnlock,
            RecoverDone, RecoverFails, RecoverCrash, document, work
  <1>8. CASE \/ Control \/ UNCHANGED vars
             \/ \E s \in Scheds : SchedStart(s) \/ Crash(s) \/ Schedule(s)
    BY <1>8, ControlFrame, ScheduleFrame DEF vars, document, work
  <1> QED BY <1>5, <1>6, <1>7, <1>8 DEF Next

\* A Change keeps an Artifact once it has one.
LEMMA ArtifactStays ==
    ASSUME Typed, Named, Unfinished, Current, Used, [Next]_vars,
           NEW c \in Changes
    PROVE  /\ change[c].artifact # None => change'[c].artifact # None
           /\ \A a \in Artifacts : owner[a] = None /\ owner'[a] = c =>
                 change'[c].artifact # None
  <1> DEFINE n == change'[c]
  <1>1. Evident(c, n)
    BY StepEvident DEF EvidentStep
  <1>2. c # None /\ None \notin Artifacts
    BY DEF Changes, Artifacts, None
  <1> HIDE DEF n
  <1>3. CASE CapturedNow(c, n)
    BY <1>2, <1>3 DEF CapturedNow, n
  <1>4. CASE SameArtifact(c, n)
    BY <1>2, <1>4 DEF SameArtifact, n
  <1> QED BY <1>1, <1>3, <1>4 DEF Evident

\* Used is inductive.
LEMMA NextUsed ==
    ASSUME Typed, Named, Unfinished, Current, Used, EvidenceBelongs,
           [Next]_vars
    PROVE  Used'
  <1>1. ASSUME NEW a \in Artifacts, owner'[a] # None
        PROVE  change'[owner'[a]].artifact # None
    <2>1. CASE owner'[a] = owner[a]
      <3>1. owner[a] \in Changes /\ change[owner[a]].artifact # None
        BY <1>1, <2>1, WorkTables DEF Used
      <3> QED BY <2>1, <3>1, ArtifactStays
    <2>2. CASE owner[a] = None /\ owner'[a] \in Changes
      BY <2>2, ArtifactStays
    <2> QED BY <2>1, <2>2, OwnerWrites
  <1>2. ASSUME NEW r \in requests'
        PROVE  run'[r].status # "NONE" /\ run'[r].artifact # None
    <2>1. CASE r \in requests
      BY <2>1, RunKept, WorkTables DEF Used
    <2>2. ASSUME NEW a \in Artifacts, QueueCI(a, r)
          PROVE  run'[r].status # "NONE" /\ run'[r].artifact # None
      <3>1. r \in CIRuns /\ run \in [CIRuns -> RunRecord]
        BY <2>2, WorkTables DEF QueueCI, Fresh, UnusedRuns
      <3>2. run'[r].status = "QUEUED" /\ run'[r].artifact = a
        BY <2>2, <3>1 DEF QueueCI
      <3> QED BY <3>2 DEF Artifacts, None
    <2> QED BY <2>1, <2>2, RequestWrites
  <1> QED BY <1>1, <1>2, NextRunBelongs, NextReviewBelongs,
             NextLatestBelongs
          DEF Used

\* EvidenceBelongs is inductive.
LEMMA NextEvidenceBelongs ==
    ASSUME Typed, Named, Unfinished, Current, Used, EvidenceBelongs,
           [Next]_vars
    PROVE  EvidenceBelongs'
  <1>1. ASSUME NEW c \in Changes
        PROVE  /\ change'[c].stage # "MUTATION" => change'[c].artifact # None
               /\ change'[c].artifact # None =>
                     owner'[change'[c].artifact] = c
    <2> DEFINE n == change'[c]
    <2>1. Evident(c, n)
      BY StepEvident DEF EvidentStep
    <2>2. /\ change[c].stage # "MUTATION" => change[c].artifact # None
          /\ change[c].artifact # None =>
                /\ change[c].artifact \in Artifacts
                /\ owner[change[c].artifact] = c
      BY ChangeTable DEF EvidenceBelongs, ChangeRecord
    <2>3. c # None /\ None \notin Artifacts
      BY DEF Changes, Artifacts, None
    <2> HIDE DEF n
    <2>4. CASE CapturedNow(c, n)
      BY <2>3, <2>4 DEF CapturedNow, n
    <2>5. CASE SameArtifact(c, n)
      <3>1. change[c].artifact # None => owner'[change[c].artifact] = c
        BY <2>2, <2>3, OwnerWrites
      <3> QED BY <2>1, <2>2, <2>5, <3>1 DEF SameArtifact, Evident, n
    <2> QED BY <2>1, <2>4, <2>5 DEF Evident
  <1> QED BY <1>1, NextRunBelongs, NextReviewBelongs, NextLatestBelongs
          DEF EvidenceBelongs

-----------------------------------------------------------------------------
(* Current is inductive.                                                   *)

\* While one scheduler executes and goes on, no Attempt or run ends and
\* nothing is captured: whoever did that would have the slot.
LEMMA Undisputed ==
    ASSUME Typed, Exclusive, [Next]_vars, NEW s \in Scheds,
           pc[s] \in Executing, pc'[s] \in Executing
    PROVE  /\ UNCHANGED owner
           /\ UNCHANGED attempt \/ \E k \in Attempts : PrepareAttempt(s, k)
           /\ \/ UNCHANGED run
              \/ \E r \in CIRuns : PrepareCI(s, r)
              \/ OpenLogs(s) \/ MarkCIRunning(s)
              \/ \E a \in Artifacts, r \in CIRuns : QueueCI(a, r)
              \/ \E op \in {"suspend", "close"} : requestCancellation(op)
  <1>0. pc \in [Scheds -> Labels]
    BY DEF Typed, TypeOK, SchedulersOK
  <1>1. ASSUME NEW t \in Scheds, pc[t] \in Executing PROVE t = s
    BY <1>1 DEF Exclusive
  <1>2. ASSUME Returns(s) \/ \E code : Fails(s, code) PROVE FALSE
    BY <1>0, <1>2, Ends
  <1>3. ASSUME NEW t \in Scheds, NEW how, NEW result, NEW a,
               Complete(t, how, result, a)
        PROVE  FALSE
    <2>1. t = s
      BY <1>1, <1>3, CompleteFrame DEF Executing
    <2> QED BY <1>2, <1>3, <2>1, CompleteFrame
  <1>4. ASSUME NEW t \in Scheds, NEW outcome, NEW code,
               FinishCI(t, outcome, code)
        PROVE  FALSE
    <2>1. t = s
      BY <1>1, <1>4, FinishCIFrame DEF Executing
    <2> QED BY <1>2, <1>4, <2>1, FinishCIFrame
  <1>5. ~Recovering
    BY RecoveringAlone
  <1>6. ASSUME NEW k, NEW a, RecoverAttempt(k, a) PROVE FALSE
    <2>1. rec.at = "attempts"
      BY <1>6, Zenon DEF RecoverAttempt
    <2> QED BY <1>5, <2>1 DEF Recovering
  <1>7. ASSUME RecoverLeases PROVE FALSE
    BY <1>5, <1>7 DEF RecoverLeases, Recovering
  <1>8. ASSUME NEW t \in Scheds,
               \/ \E k \in Attempts : PrepareAttempt(t, k)
               \/ \E r \in CIRuns : PrepareCI(t, r)
               \/ OpenLogs(t) \/ MarkCIRunning(t)
        PROVE  t = s
    BY <1>1, <1>8 DEF PrepareAttempt, PrepareCI, OpenLogs, MarkCIRunning,
       Executing
  <1>9. ASSUME NEW t \in Scheds, Activity(t)
        PROVE  /\ UNCHANGED owner
               /\ UNCHANGED attempt \/ \E k \in Attempts : PrepareAttempt(s, k)
               /\ \/ UNCHANGED run
                  \/ \E r \in CIRuns : PrepareCI(s, r)
                  \/ OpenLogs(s) \/ MarkCIRunning(s)
    <2>1. UNCHANGED owner
      BY <1>3, <1>9, ActivityFrame
    <2>2. UNCHANGED attempt \/ \E k \in Attempts : PrepareAttempt(s, k)
      BY <1>3, <1>8, <1>9, ActivityFrame
    <2>3. \/ UNCHANGED run
          \/ \E r \in CIRuns : PrepareCI(s, r)
          \/ OpenLogs(s) \/ MarkCIRunning(s)
      BY <1>4, <1>8, <1>9, ActivityFrame
    <2> QED BY <2>1, <2>2, <2>3
  <1>10. CASE Operator
    BY <1>10, OperatorFrame
  <1>11. CASE Recovery \/ RecoverFails \/ RecoverCrash
    BY <1>6, <1>7, <1>11, RecoveryFrame
  <1>12. CASE \/ Control \/ UNCHANGED vars
              \/ \E t \in Scheds : SchedStart(t) \/ Crash(t) \/ Schedule(t)
    BY <1>12, ControlFrame, ScheduleFrame DEF vars, document, evidence, work
  <1> QED BY <1>9, <1>10, <1>11, <1>12 DEF Next

\* So an active Attempt or run stays active.
LEMMA ActiveStays ==
    ASSUME Typed, Exclusive, Current, [Next]_vars, NEW s \in Scheds,
           pc[s] \in Executing, pc'[s] \in Executing
    PROVE  /\ \A k \in Attempts : attempt[k].status = "ACTIVE" =>
                 attempt'[k] = attempt[k]
           /\ \A r \in CIRuns : ActiveRun(r) /\ pc[s] # "ciPrepare" =>
                 ActiveRun(r)'
  <1>0. run \in [CIRuns -> RunRecord] /\ attempt \in [Attempts -> AttemptRecord]
    BY WorkTables
  <1>1. ASSUME NEW k \in Attempts, attempt[k].status = "ACTIVE"
        PROVE  attempt'[k] = attempt[k]
    <2>1. ASSUME NEW x \in Attempts, PrepareAttempt(s, x)
          PROVE  attempt'[k] = attempt[k]
      <3>1. x # k
        BY <1>1, <2>1 DEF PrepareAttempt, Fresh, UnusedAttempts
      <3> QED BY <1>0, <2>1, <3>1 DEF PrepareAttempt
    <2> QED BY <2>1, Undisputed
  <1>2. ASSUME NEW r \in CIRuns, ActiveRun(r), pc[s] # "ciPrepare"
        PROVE  run'[r].status \in {"PREPARING", "RUNNING"}
    <2>0. run[r] \in RunRecord /\ run[r].status \in {"PREPARING", "RUNNING"}
      BY <1>0, <1>2 DEF ActiveRun
    <2>1. ASSUME NEW x \in CIRuns, PrepareCI(s, x) PROVE FALSE
      BY <1>2, <2>1 DEF PrepareCI
    <2>2. CASE OpenLogs(s)
      <3> DEFINE n == [run[r] EXCEPT !.logs = TRUE]
      <3>1. run'[r] = run[r] \/ run'[r] = n
        BY <1>0, <2>2 DEF OpenLogs
      <3>2. n.status = run[r].status
        BY <2>0, RunFields
      <3> HIDE DEF n
      <3> QED BY <2>0, <3>1, <3>2
    <2>3. CASE MarkCIRunning(s)
      <3> DEFINE n == [run[r] EXCEPT !.status = "RUNNING"]
      <3>1. run'[r] = run[r] \/ run'[r] = n
        BY <1>0, <2>3 DEF MarkCIRunning
      <3>2. n.status = "RUNNING"
        BY <2>0, RunFields
      <3> HIDE DEF n
      <3> QED BY <2>0, <3>1, <3>2
    <2>4. CASE \E a \in Artifacts, x \in CIRuns : QueueCI(a, x)
      <3>1. PICK a \in Artifacts, x \in CIRuns : QueueCI(a, x)
        BY <2>4
      <3>2. x # r
        BY <2>0, <3>1 DEF QueueCI, Fresh, UnusedRuns
      <3>3. run'[r] = run[r]
        BY <1>0, <3>1, <3>2 DEF QueueCI
      <3> QED BY <2>0, <3>3
    <2>5. CASE \E op \in {"suspend", "close"} : requestCancellation(op)
      <3>1. run'[r] = run[r]
        BY <2>0, <2>5 DEF requestCancellation
      <3> QED BY <2>0, <3>1
    <2> QED BY <2>0, <2>1, <2>2, <2>3, <2>4, <2>5, Undisputed
  <1> QED BY <1>1, <1>2 DEF ActiveRun

\* What is handed out is about the current Artifact.
LEMMA SelectedCurrent ==
    ASSUME Typed, Named, Unfinished, Current, Used, EvidenceBelongs,
           [Next]_vars, NEW s \in Scheds, NextRequest(s) \/ NextChange(s),
           pc[s] = "idle", pc'[s] \in {"resolve", "ciPrepare"}
    PROVE  /\ step'[s].change # None =>
                 step'[s].target = change'[step'[s].change].artifact
           /\ step'[s].op # "mutation" => step'[s].target # None
           /\ pc'[s] = "ciPrepare" => step'[s].op # "mutation"
           /\ step'[s].request # None =>
                 /\ run'[step'[s].request].status # "NONE"
                 /\ run'[step'[s].request].artifact = step'[s].target
  <1>1. ASSUME NEW r \in requests, step'[s] = RequestStep(r)
        PROVE  /\ step'[s].change = None /\ step'[s].target # None
               /\ step'[s].op = "ci" /\ step'[s].request = r
               /\ run'[r].status # "NONE"
               /\ run'[r].artifact = step'[s].target
    <2>1. r \in CIRuns /\ run[r].status # "NONE" /\ run[r].artifact # None
      BY WorkTables DEF Used
    <2>2. /\ step'[s].change = None /\ step'[s].target = run[r].artifact
          /\ step'[s].op = "ci" /\ step'[s].request = r
      BY <1>1 DEF RequestStep
    <2> QED BY <2>1, <2>2, RunKept
  <1>2. ASSUME NEW c \in Changes, step'[s] = ChangeStep(c),
               pc'[s] = IF ChangeStep(c).op = "ci" THEN "ciPrepare"
                                                  ELSE "resolve"
        PROVE  /\ step'[s].change = c /\ step'[s].request = None
               /\ step'[s].target = change'[c].artifact
               /\ step'[s].op # "mutation" => step'[s].target # None
               /\ pc'[s] = "ciPrepare" => step'[s].op # "mutation"
    <2>1. /\ step'[s].change = c /\ step'[s].request = None
          /\ step'[s].target = change[c].artifact
          /\ step'[s].op = StageOperation(change[c].stage)
          /\ ChangeStep(c).op = step'[s].op
      BY <1>2 DEF ChangeStep
    <2>2. change'[c].artifact = change[c].artifact
      <3>1. UNCHANGED owner
        BY ScheduleFrame DEF Schedule, evidence
      <3>2. Evident(c, change'[c])
        BY StepEvident DEF EvidentStep
      <3>3. ~CapturedNow(c, change'[c])
        BY <3>1 DEF CapturedNow, Changes, None
      <3> QED BY <3>2, <3>3 DEF Evident, SameArtifact
    <2>3. step'[s].op # "mutation" => change[c].artifact # None
      BY <2>1 DEF StageOperation, EvidenceBelongs
    <2>4. pc'[s] = "ciPrepare" => step'[s].op = "ci"
      BY <1>2, <2>1
    <2> QED BY <2>1, <2>2, <2>3, <2>4
  <1>3. ~UNCHANGED pc
    OBVIOUS
  <1> QED BY <1>1, <1>2, <1>3, Selected DEF Changes, None

\* An activity that advances stops being a mutation no later than its worker,
\* and gets its Attempt or its run on the way.
LEMMA AdvancesTo ==
    ASSUME Typed, Current, NEW s \in Scheds, pc[s] \in Executing, Advances(s)
    PROVE  /\ pc'[s] \notin MayMutate /\ pc'[s] \in Executing =>
                 step[s].op # "mutation"
           /\ pc'[s] \in AtWork =>
                 \/ pc[s] \in AtWork /\ act'[s] = act[s]
                 \/ \E k \in Attempts : PrepareAttempt(s, k) /\ act'[s] = k
           /\ pc'[s] \in AtCI =>
                 \/ pc[s] \in AtCI /\ act'[s] = act[s]
                 \/ \E r \in CIRuns : PrepareCI(s, r) /\ act'[s] = r
  <1>0. pc \in [Scheds -> Labels] /\ act \in [Scheds -> Nat]
    BY DEF Typed, TypeOK, SchedulersOK
  <1>1. pc[s] \notin MayMutate => step[s].op # "mutation"
    BY DEF Current
  <1>2. CASE ResolveRef(s)
    <2>1. \/ pc'[s] \in {"prepare", "drifted"}
          \/ pc'[s] = "promote" /\ step[s].op = "promotion"
      BY <1>0, <1>2 DEF ResolveRef, Goto
    <2> QED BY <2>1 DEF MayMutate, AtWork, AtCI
  <1>3. CASE \E k \in Attempts : PrepareAttempt(s, k)
    <2>1. PICK k \in Attempts : PrepareAttempt(s, k)
      BY <1>3
    <2>2. pc'[s] = "context" /\ act'[s] = k
      BY <1>0, <2>1 DEF PrepareAttempt, Goto
    <2> QED BY <2>1, <2>2 DEF MayMutate, AtCI
  <1>4. CASE \E r \in CIRuns : PrepareCI(s, r)
    <2>1. PICK r \in CIRuns : PrepareCI(s, r)
      BY <1>4
    <2>2. pc'[s] = "ciSetup" /\ act'[s] = r /\ pc[s] = "ciPrepare"
      BY <1>0, <2>1 DEF PrepareCI, Goto
    <2> QED BY <1>1, <2>1, <2>2 DEF MayMutate, AtWork
  <1>5. CASE Materialize(s)
    <2>1. /\ pc[s] = "context" /\ pc'[s] \in {"working", "starved"}
          /\ act'[s] = act[s]
      BY <1>0, <1>5 DEF Materialize, Goto
    <2> QED BY <2>1 DEF MayMutate, AtWork, AtCI
  <1>6. CASE MarkCIRunning(s)
    <2>1. /\ pc[s] = "ciSetup" /\ pc'[s] \in {"ciRun", "failed"}
          /\ act'[s] = act[s]
      BY <1>0, <1>6 DEF MarkCIRunning, Goto, Fails
    <2> QED BY <1>1, <2>1 DEF MayMutate, AtWork, AtCI
  <1>7. CASE \/ PromoteStart(s) \/ Construct(s)
             \/ \E j \in Journals : PreparePromotion(s, j)
             \/ CAS(s) \/ CASRejected(s) \/ CASConflict(s)
    <2>1. /\ pc[s] \in {"promote", "construct", "journal", "cas",
                        "casCheck"}
          /\ pc'[s] \in {"failed", "construct", "evidence", "conflicted",
                         "journal", "cas", "casCheck", "apply"}
      BY <1>0, <1>7 DEF PromoteStart, Construct, PreparePromotion, CAS,
         CASRejected, CASConflict, Goto, Fails
    <2> QED BY <1>1, <2>1 DEF MayMutate, AtWork, AtCI
  <1> QED BY <1>2, <1>3, <1>4, <1>5, <1>6, <1>7 DEF Advances

\* Current is inductive.
LEMMA NextCurrent ==
    ASSUME Typed, Exclusive, Named, Unfinished, Current, Used,
           EvidenceBelongs, [Next]_vars
    PROVE  Current'
  <1>0. /\ pc \in [Scheds -> Labels] /\ step \in [Scheds -> StepRecord]
        /\ act \in [Scheds -> Nat]
    BY DEF Typed, TypeOK, SchedulersOK
  <1>1. ASSUME NEW s \in Scheds, pc[s] \in Executing, pc'[s] \in Executing,
               step'[s] = step[s]
        PROVE  /\ step'[s].change # None =>
                     step'[s].target = change'[step'[s].change].artifact
               /\ step'[s].op # "mutation" => step'[s].target # None
               /\ step'[s].request # None =>
                     /\ run'[step'[s].request].status # "NONE"
                     /\ run'[step'[s].request].artifact = step'[s].target
    <2> DEFINE c == step[s].change
               r == step[s].request
    <2>1. /\ c # None => /\ c \in Changes
                         /\ step[s].target = change[c].artifact
          /\ step[s].op # "mutation" => step[s].target # None
          /\ r # None => /\ r \in CIRuns /\ run[r].status # "NONE"
                         /\ run[r].artifact = step[s].target
      BY <1>0, <1>1 DEF Current, StepRecord
    <2>2. UNCHANGED owner
      BY <1>1, Undisputed
    <2>3. c \in Changes => change'[c].artifact = change[c].artifact
      <3>1. c \in Changes => Evident(c, change'[c])
        BY StepEvident DEF EvidentStep
      <3>2. c \in Changes => ~CapturedNow(c, change'[c])
        BY <2>2 DEF CapturedNow, Changes, None
      <3> QED BY <3>1, <3>2 DEF Evident, SameArtifact
    <2>4. r # None => /\ run'[r].status # "NONE"
                      /\ run'[r].artifact = step[s].target
      BY <2>1, RunKept
    <2> QED BY <1>1, <2>1, <2>3, <2>4
  <1>2. ASSUME NEW s \in Scheds, pc[s] \in AtWork, pc'[s] \in Executing,
               act'[s] = act[s], step'[s] = step[s]
        PROVE  /\ attempt'[act'[s]].status = "ACTIVE"
               /\ attempt'[act'[s]].target = step'[s].target
    <2>1. /\ pc[s] \in Executing /\ act[s] \in Attempts
          /\ attempt[act[s]].status = "ACTIVE"
          /\ attempt[act[s]].target = step[s].target
      BY <1>2 DEF Current, AtWork, Executing, Typed, Shape, LocalsOK, Local
    <2>2. attempt'[act[s]] = attempt[act[s]]
      BY <1>2, <2>1, ActiveStays
    <2> QED BY <1>2, <2>1, <2>2
  <1>3. ASSUME NEW s \in Scheds, pc[s] \in AtCI, pc'[s] \in Executing,
               act'[s] = act[s], step'[s] = step[s]
        PROVE  /\ run'[act'[s]].status \in {"PREPARING", "RUNNING"}
               /\ run'[act'[s]].artifact = step'[s].target
    <2>1. /\ pc[s] \in Executing /\ act[s] \in CIRuns
          /\ pc[s] # "ciPrepare" /\ ActiveRun(act[s])
          /\ run[act[s]].artifact = step[s].target
      BY <1>3 DEF Current, AtCI, Executing, Typed, Shape, LocalsOK, Local
    <2>2. run[act[s]].status # "NONE"
      BY <2>1 DEF ActiveRun
    <2>3. run'[act[s]].artifact = run[act[s]].artifact
      BY <2>1, <2>2, RunKept
    <2>4. run'[act[s]].status \in {"PREPARING", "RUNNING"}
      BY <1>3, <2>1, ActiveStays DEF ActiveRun
    <2> QED BY <1>3, <2>1, <2>3, <2>4
  <1>4. ASSUME NEW s \in Scheds, pc[s] \in Executing, step'[s] = step[s],
               Advances(s)
        PROVE  /\ pc'[s] \notin MayMutate /\ pc'[s] \in Executing =>
                     step[s].op # "mutation"
               /\ pc'[s] \in AtWork =>
                     \/ pc[s] \in AtWork /\ act'[s] = act[s]
                     \/ \E k \in Attempts :
                           PrepareAttempt(s, k) /\ act'[s] = k
               /\ pc'[s] \in AtCI =>
                     \/ pc[s] \in AtCI /\ act'[s] = act[s]
                     \/ \E r \in CIRuns : PrepareCI(s, r) /\ act'[s] = r
    BY <1>4, AdvancesTo
  <1>5. ASSUME NEW s \in Scheds, pc'[s] \in Executing
        PROVE  /\ step'[s].change # None =>
                     step'[s].target = change'[step'[s].change].artifact
               /\ step'[s].op # "mutation" => step'[s].target # None
               /\ pc'[s] \notin MayMutate => step'[s].op # "mutation"
               /\ step'[s].request # None =>
                     /\ run'[step'[s].request].status # "NONE"
                     /\ run'[step'[s].request].artifact = step'[s].target
               /\ pc'[s] \in AtWork =>
                     /\ attempt'[act'[s]].status = "ACTIVE"
                     /\ attempt'[act'[s]].target = step'[s].target
               /\ pc'[s] \in AtCI =>
                     /\ run'[act'[s]].status \in {"PREPARING", "RUNNING"}
                     /\ run'[act'[s]].artifact = step'[s].target
    <2>1. CASE pc'[s] = pc[s] /\ step'[s] = step[s] /\ act'[s] = act[s]
      <3>1. pc[s] \notin MayMutate => step[s].op # "mutation"
        BY <1>5, <2>1 DEF Current
      <3> QED BY <1>1, <1>2, <1>3, <1>5, <2>1, <3>1
    <2>2. CASE pc[s] = "idle" /\ pc'[s] \in {"resolve", "ciPrepare"}
               /\ (NextRequest(s) \/ NextChange(s))
      BY <2>2, SelectedCurrent DEF MayMutate, AtWork, AtCI
    <2>3. CASE pc[s] \in Executing /\ step'[s] = step[s] /\ Advances(s)
      <3>1. ASSUME NEW k \in Attempts, PrepareAttempt(s, k), act'[s] = k
            PROVE  /\ attempt'[act'[s]].status = "ACTIVE"
                   /\ attempt'[act'[s]].target = step'[s].target
        BY <2>3, <3>1, PreparedAttempt
      <3>2. ASSUME NEW r \in CIRuns, PrepareCI(s, r), act'[s] = r
            PROVE  /\ run'[act'[s]].status \in {"PREPARING", "RUNNING"}
                   /\ run'[act'[s]].artifact = step'[s].target
        BY <2>3, <3>2, PreparedRun
      <3>3. pc'[s] \in AtWork =>
               /\ attempt'[act'[s]].status = "ACTIVE"
               /\ attempt'[act'[s]].target = step'[s].target
        BY <1>2, <1>4, <1>5, <2>3, <3>1
      <3>4. pc'[s] \in AtCI =>
               /\ run'[act'[s]].status \in {"PREPARING", "RUNNING"}
               /\ run'[act'[s]].artifact = step'[s].target
        BY <1>3, <1>4, <1>5, <2>3, <3>2
      <3> QED BY <1>1, <1>4, <1>5, <2>3, <3>3, <3>4
    <2> QED BY <1>5, <2>1, <2>2, <2>3, Enters
  <1> QED BY <1>5 DEF Current, ActiveRun

\* The inductive invariant of this module, and that it is one.
EvidenceInv == Current /\ Used /\ EvidenceBelongs
\* Initially there is no evidence.
LEMMA InitEvidence == Init => EvidenceInv
  <1> SUFFICES ASSUME Init PROVE EvidenceInv
    OBVIOUS
  <1>1. Current
    BY DEF Init, Current, Executing
  <1>2. Used
    BY DEF Init, Used, NoChange, NoReview
  <1>3. EvidenceBelongs
    BY DEF Init, EvidenceBelongs, NoChange, NoReview
  <1> QED BY <1>1, <1>2, <1>3 DEF EvidenceInv
\* And every step keeps it.
LEMMA NextEvidence ==
    Typed /\ ChangesInv /\ EvidenceInv /\ [Next]_vars => EvidenceInv'
  BY NextCurrent, NextUsed, NextEvidenceBelongs DEF ChangesInv, EvidenceInv
\* So it always holds.
LEMMA EvidenceInvariant == Spec => []EvidenceInv
  BY InitEvidence, NextEvidence, TypedInvariant, ChangesInvariant, PTL
  DEF Spec

\* Stage, Artifact, CI run and review of every Change belong together, as
\* Store.Validate demands: whatever is retried, reworked, captured late, ended
\* by recovery or finished by a second scheduler in between.
THEOREM EvidenceIsWhole == Spec => []EvidenceBelongs
  BY EvidenceInvariant, PTL DEF EvidenceInv

-----------------------------------------------------------------------------
(* No work begins once it may not.                                         *)

\* An activity is admitted only while the Task is ACTIVE and nobody has
\* asked for its cancellation.
LEMMA AdmittedRunnable ==
    ASSUME NEW s \in Scheds, AdmissionError(s) = "OK"
    PROVE  taskStatus = "ACTIVE" /\ ~cancelled
  BY DEF AdmissionError, runnable

\* So whatever becomes active becomes so then.
LEMMA WorkBegins ==
    ASSUME Typed, Current, [Next]_vars,
           ~(ActiveAttempts' \subseteq ActiveAttempts
             /\ ActiveRuns' \subseteq ActiveRuns)
    PROVE  taskStatus = "ACTIVE" /\ ~cancelled
  <1>0. run \in [CIRuns -> RunRecord] /\ attempt \in [Attempts -> AttemptRecord]
    BY WorkTables
  <1>1. ASSUME NEW k \in Attempts, attempt'[k].status = "ACTIVE",
               attempt[k].status # "ACTIVE"
        PROVE  taskStatus = "ACTIVE" /\ ~cancelled
    <2>1. CASE attempt'[k] = attempt[k]
      BY <1>1, <2>1
    <2>2. CASE attempt'[k] = [attempt[k] EXCEPT !.status = "ENDED"]
      BY <1>0, <1>1, <2>2 DEF AttemptRecord
    <2>3. CASE \E s \in Scheds : PrepareAttempt(s, k)
      BY <2>3, AdmittedRunnable DEF PrepareAttempt
    <2> QED BY <2>1, <2>2, <2>3, AttemptWrites
  <1>2. ASSUME NEW r \in CIRuns, ActiveRun(r)', ~ActiveRun(r)
        PROVE  taskStatus = "ACTIVE" /\ ~cancelled
    <2>1. CASE GoesOnRun(r)
      BY <1>2, <2>1 DEF GoesOnRun
    <2>2. CASE \E a \in Artifacts : QueueCI(a, r)
      BY <2>2 DEF QueueCI
    <2>3. CASE \E s \in Scheds : PrepareCI(s, r)
      BY <2>3, AdmittedRunnable DEF PrepareCI
    <2> QED BY <2>1, <2>2, <2>3, RunWrites
  <1> QED BY <1>1, <1>2 DEF ActiveAttempts, ActiveRuns

\* The Task changes its status in the final transactions of suspend, close
\* and resume.
LEMMA StatusWrites ==
    ASSUME [Next]_vars
    PROVE  UNCHANGED taskStatus \/ finishLifecycle \/ finishResume
  <1>1. CASE Control
    BY <1>1 DEF Control, ChangeSettled, CancellationSettles, LifecycleRefused, document, task
  <1> QED BY <1>1, OperatorFrame, ActivityFrame, ScheduleFrame,
             RecoveryFrame
          DEF Next, vars, document, task

\* Once the Task is quiescent no step begins work on it, if it is inactive or
\* cancelled.
LEMMA QuietStays ==
    ASSUME Typed, Current, TaskQuiescent, taskStatus # "ACTIVE" \/ cancelled,
           [Next]_vars
    PROVE  TaskQuiescent'
  <1>1. ~slot'.task
    BY SlotGiven DEF TaskQuiescent
  <1>2. /\ ActiveAttempts' \subseteq ActiveAttempts
        /\ ActiveRuns' \subseteq ActiveRuns
    BY WorkBegins
  <1> QED BY <1>1, <1>2 DEF TaskQuiescent
\* A command is marked when cancel has seen the Task quiescent.
LEMMA SettledWrites ==
    ASSUME [Next]_vars, ctl'.settled
    PROVE  ctl.settled \/ CancellationSettles
  <1>1. CASE Operator
    <2>1. \A op : requestCancellation(op) => ~ctl'.settled
      BY DEF requestCancellation, NoControl
    <2>2. \A c, state : ChangePause(c, state) => ~ctl'.settled
      BY DEF ChangePause, NoControl
    <2>3. ResumeTask \/ ControlGivesUp => ~ctl'.settled
      <3>1. ResumeTask => ctl' = [op |-> "resume", change |-> None,
                                  sha |-> ref, settled |-> FALSE]
        BY DEF ResumeTask, NoControl
      <3>2. ControlGivesUp => ctl' = NoControl
        BY DEF ControlGivesUp
      <3> QED BY <3>1, <3>2 DEF NoControl
    <2>4. CASE \/ \E c \in Changes :
                     \/ ReleaseOption(c) \/ ChangePromote(c)
                     \/ ChangeResume(c)
                     \/ \E stage \in {"CI", "REVIEW", "MUTATION"} :
                           ChangeRetry(c, stage)
               \/ \E a \in Artifacts, r \in CIRuns : QueueCI(a, r)
               \/ \E k \in Attempts : Interrupt(k)
               \/ \E b \in Scopes : ResolveBlocker(b)
               \/ CommandFails \/ \E new \in Commits : ExternalMove(new)
               \/ \E s \in Scheds : Interrupted(s)
               \/ RecoverStart
      <3>1. UNCHANGED ctl
        BY <2>4, Zenon DEF ReleaseOption, ChangePromote, ChangeResume,
           ChangeRetry, OnlyChange, QueueCI, Interrupt, ResolveBlocker,
           CommandFails, ExternalMove, Interrupted, RecoverStart, outside,
           processes, others
      <3> QED BY <3>1
    <2> QED BY <1>1, <2>1, <2>2, <2>3, <2>4 DEF Operator
  <1>2. CASE Control
    BY <1>2 DEF Control, ChangeSettled, finishLifecycle, LifecycleRefused,
                finishResume, NoControl
  <1>3. CASE Recovery \/ RecoverFails \/ RecoverCrash
    BY <1>3, RecoveryFrame
  <1>4. CASE \E s \in Scheds :
                SchedStart(s) \/ Crash(s) \/ Schedule(s) \/ Activity(s)
    BY <1>4, ScheduleFrame, ActivityFrame
  <1>5. CASE UNCHANGED vars
    BY <1>5 DEF vars, outside, processes, others
  <1> QED BY <1>1, <1>2, <1>3, <1>4, <1>5 DEF Next

\* InactiveIsQuiet is inductive, given Current and CancelSeen.
LEMMA NextQuiet ==
    ASSUME Typed, Current, CancelSeen, InactiveIsQuiet, [Next]_vars
    PROVE  InactiveIsQuiet'
  <1> SUFFICES ASSUME taskStatus' # "ACTIVE" \/ ctl'.settled
               PROVE  TaskQuiescent'
    BY DEF InactiveIsQuiet
  <1>1. CASE taskStatus # "ACTIVE"
    BY <1>1, QuietStays DEF InactiveIsQuiet
  <1>2. CASE ctl.settled
    <2>1. cancelled /\ TaskQuiescent
      BY <1>2 DEF CancelSeen, InactiveIsQuiet
    <2> QED BY <2>1, QuietStays
  <1>3. CASE taskStatus = "ACTIVE" /\ ~ctl.settled
    <2>1. CASE CancellationSettles
      <3>1. TaskQuiescent /\ cancelled
        BY <2>1 DEF CancellationSettles, CancelSeen
      <3> QED BY <3>1, QuietStays
    <2>2. CASE ~CancellationSettles
      <3>1. taskStatus' # "ACTIVE"
        BY <1>3, <2>2, SettledWrites
      <3>2. finishLifecycle \/ finishResume
        BY <1>3, <3>1, StatusWrites
      <3>3. FALSE
        BY <1>3, <3>1, <3>2 DEF finishLifecycle, finishResume
      <3> QED BY <3>3
    <2> QED BY <2>1, <2>2
  <1> QED BY <1>1, <1>2, <1>3

\* A SUSPENDED or CLOSED Task executes nothing, nor does one whose suspend or
\* close has waited for that: no scheduler that had read the document before,
\* no operator request and no recovery starts work on it.
THEOREM StaysQuiet == Spec => []InactiveIsQuiet
  <1>1. Init => InactiveIsQuiet
    BY DEF Init, InactiveIsQuiet, NoControl
  <1>2. EvidenceInv => Current
    BY DEF EvidenceInv
  <1>3. ChangesInv => CancelSeen
    BY DEF ChangesInv
  <1> QED BY <1>1, <1>2, <1>3, NextQuiet, TypedInvariant, ChangesInvariant,
             EvidenceInvariant, PTL
          DEF Spec

\* Once a cancellation is durable no Attempt or CI run becomes active.
THEOREM CancellationStopsWork == Spec => NoNewWork
  <1>1. Typed /\ EvidenceInv /\ [Next]_vars =>
           [cancelled => ActiveAttempts' \subseteq ActiveAttempts
                         /\ ActiveRuns' \subseteq ActiveRuns]_vars
    BY WorkBegins DEF EvidenceInv
  <1> QED BY <1>1, TypedInvariant, EvidenceInvariant, PTL
          DEF Spec, NoNewWork

-----------------------------------------------------------------------------
(* A CI run keeps its Change.                                              *)

\* A run has a Change from the moment it is prepared, one that exists; an
\* operator's request has none; and what a scheduler has at CI is a run of
\* its Change.
OwnRun(r) ==
    /\ run[r].status = "NONE" => run[r].change = None
    /\ run[r].change # None => change[run[r].change].state # "ABSENT"
OwnStep(s) ==
    /\ step[s].request # None =>
          step[s].change = None /\ run[step[s].request].change = None
    /\ pc[s] \in AtCI => run[act[s]].change = step[s].change
OwnRuns ==
    /\ \A r \in CIRuns : OwnRun(r)
    /\ \A r \in requests : run[r].change = None
    /\ \A s \in Scheds : pc[s] \in Executing => OwnStep(s)

\* A run gets its Change when it is prepared, and keeps it.
LEMMA RunChange ==
    ASSUME Typed, Current, OwnRuns, [Next]_vars, NEW r \in CIRuns
    PROVE  /\ \/ run'[r].change = run[r].change
              \/ /\ run[r].status = "NONE" /\ run[r].change = None
                 /\ run'[r].status = "PREPARING"
                 /\ \E s \in Scheds : run'[r].change = step[s].change
           /\ run'[r].status = "NONE" => run[r].status = "NONE"
           /\ run[r].change # None /\ ~ActiveRun(r) => ~ActiveRun(r)'
  <1>0. run \in [CIRuns -> RunRecord]
    BY WorkTables
  <1>1. CASE GoesOnRun(r)
    BY <1>1 DEF GoesOnRun
  <1>2. ASSUME NEW a \in Artifacts, QueueCI(a, r)
        PROVE  /\ run'[r].change = run[r].change
               /\ run'[r].status = "QUEUED" /\ run[r].change = None
    <2>1. run[r].status = "NONE"
      BY <1>2 DEF QueueCI, Fresh, UnusedRuns
    <2>2. run'[r].change = None /\ run'[r].status = "QUEUED"
      BY <1>0, <1>2 DEF QueueCI
    <2> QED BY <2>1, <2>2 DEF OwnRuns, OwnRun
  <1>3. ASSUME NEW s \in Scheds, PrepareCI(s, r)
        PROVE  /\ \/ run'[r].change = run[r].change
                  \/ /\ run[r].status = "NONE"
                     /\ run'[r].change = step[s].change
               /\ run'[r].status = "PREPARING" /\ run[r].change = None
    <2>1. /\ run'[r].change = step[s].change /\ run'[r].status = "PREPARING"
          /\ pc[s] \in Executing
      BY <1>0, <1>3 DEF PrepareCI, Executing
    <2>2. CASE step[s].request # None
      <3>1. r = step[s].request
        BY <1>3, <2>2 DEF PrepareCI
      <3> QED BY <2>1, <2>2, <3>1 DEF OwnRuns, OwnStep
    <2>3. CASE step[s].request = None
      <3>1. run[r].status = "NONE"
        BY <1>3, <2>3 DEF PrepareCI, Fresh, UnusedRuns
      <3> QED BY <2>1, <3>1 DEF OwnRuns, OwnRun
    <2> QED BY <2>2, <2>3
  <1>4. CASE \E a \in Artifacts : QueueCI(a, r)
    BY <1>2, <1>4
  <1>5. CASE \E s \in Scheds : PrepareCI(s, r)
    BY <1>3, <1>5
  <1> QED BY <1>1, <1>4, <1>5, RunWrites

\* OwnRuns is inductive.
LEMMA NextOwnRuns ==
    ASSUME Typed, Named, Unfinished, Current, Used, OwnRuns, [Next]_vars
    PROVE  OwnRuns'
  <1>0. /\ run \in [CIRuns -> RunRecord] /\ requests \subseteq CIRuns
        /\ step \in [Scheds -> StepRecord]
    BY WorkTables DEF Typed, TypeOK, SchedulersOK
  <1>1. ASSUME NEW r \in CIRuns
        PROVE  OwnRun(r)'
    <2>1. run'[r].status = "NONE" => run'[r].change = None
      BY RunChange DEF OwnRuns, OwnRun
    <2>2. ASSUME run'[r].change # None
          PROVE  run'[r].change \in Changes /\ Present(run'[r].change)
      <3>1. CASE run'[r].change = run[r].change
        BY <1>0, <2>2, <3>1 DEF OwnRuns, OwnRun, Present, RunRecord
      <3>2. ASSUME NEW s \in Scheds, run'[r].change = step[s].change
            PROVE  run'[r].change \in Changes /\ Present(run'[r].change)
        BY <1>0, <2>2, <3>2 DEF Named, StepRecord
      <3> QED BY <3>1, <3>2, RunChange
    <2>3. ASSUME NEW c \in Changes, Present(c)
          PROVE  change'[c].state # "ABSENT"
      BY <2>3, PresentStays DEF Present
    <2> QED BY <2>1, <2>2, <2>3 DEF OwnRun
  <1>2. ASSUME NEW r \in requests' PROVE run'[r].change = None
    <2>1. CASE r \in requests
      <3>1. /\ r \in CIRuns /\ run[r].status # "NONE"
            /\ run[r].change = None
        BY <1>0, <2>1 DEF Used, OwnRuns
      <3> QED BY <3>1, RunChange
    <2>2. ASSUME NEW a \in Artifacts, QueueCI(a, r)
          PROVE  run'[r].change = None
      <3>1. r \in CIRuns
        BY <2>2 DEF QueueCI, Fresh, UnusedRuns
      <3> QED BY <1>0, <2>2, <3>1 DEF QueueCI
    <2> QED BY <2>1, <2>2, RequestWrites
  <1>3. ASSUME NEW s \in Scheds, pc[s] \in Executing, step'[s] = step[s],
               step[s].request # None
        PROVE  /\ step'[s].change = None
               /\ run'[step'[s].request].change = None
    <2>1. /\ step[s].change = None /\ step[s].request \in CIRuns
          /\ run[step[s].request].change = None
          /\ run[step[s].request].status # "NONE"
      BY <1>0, <1>3 DEF OwnRuns, OwnStep, Current, StepRecord
    <2> QED BY <1>3, <2>1, RunChange
  <1>4. ASSUME NEW s \in Scheds, pc[s] \in AtCI, step'[s] = step[s],
               act'[s] = act[s]
        PROVE  run'[act'[s]].change = step'[s].change
    <2>1. /\ act[s] \in CIRuns /\ run[act[s]].status # "NONE"
          /\ run[act[s]].change = step[s].change
      BY <1>4 DEF Current, OwnRuns, OwnStep, AtCI, Executing, Typed, Shape, LocalsOK,
         Local, ActiveRun
    <2> QED BY <1>4, <2>1, RunChange
  <1>5. ASSUME NEW s \in Scheds, pc'[s] \in Executing
        PROVE  OwnStep(s)'
    <2>1. CASE pc'[s] = pc[s] /\ step'[s] = step[s] /\ act'[s] = act[s]
      BY <1>3, <1>4, <1>5, <2>1 DEF OwnStep
    <2>2. CASE pc[s] = "idle" /\ pc'[s] \in {"resolve", "ciPrepare"}
               /\ (NextRequest(s) \/ NextChange(s))
      <3>1. ~UNCHANGED pc /\ pc'[s] \notin AtCI
        BY <2>2 DEF AtCI
      <3>2. ASSUME NEW r \in requests, step'[s] = RequestStep(r)
            PROVE  /\ step'[s].change = None /\ step'[s].request = r
                   /\ run'[r].change = None
        <4>1. r \in CIRuns /\ run[r].status # "NONE" /\ run[r].change = None
          BY <1>0 DEF Used, OwnRuns
        <4>2. run'[r].change = None
          BY <4>1, RunChange
        <4> QED BY <3>2, <4>2 DEF RequestStep
      <3>3. ASSUME NEW c \in Changes, step'[s] = ChangeStep(c)
            PROVE  step'[s].request = None
        BY <3>3 DEF ChangeStep
      <3>4. \/ step'[s].request = None
            \/ /\ step'[s].change = None
               /\ run'[step'[s].request].change = None
        BY <2>2, <3>1, <3>2, <3>3, Selected
      <3> QED BY <3>1, <3>4 DEF OwnStep
    <2>3. CASE pc[s] \in Executing /\ step'[s] = step[s] /\ Advances(s)
      <3>1. ASSUME NEW r \in CIRuns, PrepareCI(s, r), act'[s] = r
            PROVE  run'[act'[s]].change = step'[s].change
        BY <1>0, <2>3, <3>1 DEF PrepareCI
      <3>2. pc'[s] \in AtCI => run'[act'[s]].change = step'[s].change
        BY <1>4, <2>3, <3>1, AdvancesTo
      <3> QED BY <1>3, <2>3, <3>2 DEF OwnStep
    <2> QED BY <1>5, <2>1, <2>2, <2>3, Enters
  <1> QED BY <1>1, <1>2, <1>5 DEF OwnRuns

-----------------------------------------------------------------------------
(* What a step may do to the state of a Change and its timeout epoch.      *)

Open == {"QUEUED", "RUNNING"}
Late == {"AWAIT_PROMOTION", "PROMOTION"}

\* From record o to record n of a Change in the same epoch: nothing is queued
\* again that was stopped, and nothing comes back from the promotion stages.
Follows(o, n) ==
    /\ n.resetAt = o.resetAt
    /\ n.state \in Open => /\ o.state \in Open
                           /\ o.stage \in Late => n.stage \in Late
\* Otherwise the Change is new, or a new epoch begins, or recovery found that
\* the promotion of the Change had not taken place.
Epoch(c, n) ==
    Follows(change[c], n) \/ n.resetAt = RunsOf(c) \/ ~Present(c)
EpochStep == \A c \in Changes : Epoch(c, change'[c]) \/ PutBack(c)'

\* Nothing but resume and retry writes the epoch.
LEMMA EpochKept ==
    ASSUME NEW ch \in ChangeRecord, NEW x, NEW y
    PROVE  /\ Set(ch, x, y).resetAt = ch.resetAt
           /\ Captured(ch, x).resetAt = ch.resetAt
           /\ [ch EXCEPT !.review = x].resetAt = ch.resetAt
           /\ [ch EXCEPT !.ci = x, !.review = y].resetAt = ch.resetAt
           /\ [ch EXCEPT !.state = x].resetAt = ch.resetAt
           /\ [ch EXCEPT !.state = x, !.started = y].resetAt = ch.resetAt
           /\ [ch EXCEPT !.base = x].resetAt = ch.resetAt
  BY DEF Set, Captured, ChangeRecord
\* They write it.
LEMMA EpochBegins ==
    ASSUME NEW ch \in ChangeRecord, NEW r, NEW runs
    PROVE  /\ [ch EXCEPT !.resetAt = runs].resetAt = runs
           /\ [ch EXCEPT !.ci = r, !.review = None,
                         !.resetAt = runs].resetAt = runs
  BY DEF ChangeRecord

\* A Change that is stopped, or that goes on in a stage it may go on in.
LEMMA SetFollows ==
    ASSUME NEW o, NEW ch \in ChangeRecord, Follows(o, ch), NEW stage,
           NEW state,
           state \in Open => /\ ch.state \in Open
                             /\ ch.stage \in Late => stage \in Late
    PROVE  Follows(o, Set(ch, stage, state))
  <1> DEFINE n == Set(ch, stage, state)
  <1>1. n.resetAt = ch.resetAt /\ n.state = state /\ n.stage = stage
    BY EpochKept, SetFields
  <1> HIDE DEF n
  <1>2. Follows(o, n)
    BY <1>1 DEF Follows
  <1> QED BY <1>2 DEF n
\* The record with another Artifact, run, review or base.
LEMMA AlikeFollows ==
    ASSUME NEW o, NEW m, NEW n, Follows(o, m),
           n.resetAt = m.resetAt, n.state = m.state, n.stage = m.stage
    PROVE  Follows(o, n)
  BY DEF Follows

\* A step that leaves the Changes alone.
LEMMA UnchangedEpoch ==
    ASSUME UNCHANGED change
    PROVE  EpochStep
  BY DEF EpochStep, Epoch, Follows
\* A step that moves one Change.
LEMMA UpdateEpoch ==
    ASSUME Typed, NEW c, NEW ch, change' = [change EXCEPT ![c] = ch],
           c \in Changes => Epoch(c, ch) \/ PutBack(c)'
    PROVE  EpochStep
  <1>1. ASSUME NEW d \in Changes
        PROVE  Epoch(d, change'[d]) \/ PutBack(d)'
    <2>1. CASE d = c
      <3>1. change'[d] = ch
        BY <2>1, ChangeTable
      <3> QED BY <2>1, <3>1
    <2>2. CASE d # c
      BY <2>2, ChangeTable DEF Epoch, Follows
    <2> QED BY <2>1, <2>2
  <1> QED BY <1>1 DEF EpochStep
\* release after other writes requeues a Change that runs.
LEMMA ReleasedFollows ==
    ASSUME NEW chs \in [Changes -> ChangeRecord], NEW o, NEW c \in Changes,
           Follows(o, chs[c])
    PROVE  Follows(o, Released(chs)[c])
  <1> DEFINE n == [chs[c] EXCEPT !.state = "QUEUED"]
  <1>1. \/ Released(chs)[c] = chs[c]
        \/ chs[c].state = "RUNNING" /\ Released(chs)[c] = n
    BY DEF Released
  <1>2. /\ n.resetAt = chs[c].resetAt /\ n.state = "QUEUED"
        /\ n.stage = chs[c].stage
    BY EpochKept, StateFields
  <1> HIDE DEF n
  <1> QED BY <1>1, <1>2 DEF Follows, Open
\* release and Release after other writes.
LEMMA ReleaseEpoch ==
    ASSUME NEW chs \in [Changes -> ChangeRecord], NEW who,
           \A c \in Changes : Follows(change[c], chs[c]),
           release(chs) \/ Release(chs, who)
    PROVE  EpochStep
  BY ReleasedFollows DEF EpochStep, Epoch, release, Release
\* release and Release alone.
LEMMA OnlyReleaseEpoch ==
    ASSUME Typed, NEW who, release(change) \/ Release(change, who)
    PROVE  EpochStep
  <1>1. \A c \in Changes : Follows(change[c], change[c])
    BY DEF Follows
  <1> QED BY <1>1, ChangeTable, ReleaseEpoch
\* Stopping any number of Changes.
LEMMA StopsEpoch ==
    ASSUME Typed,
           \A c \in Changes : \/ change'[c] = change[c]
                              \/ \E state : /\ state \notin Open
                                            /\ change'[c] = Set(change[c],
                                                  change[c].stage, state)
    PROVE  EpochStep
  <1>1. ASSUME NEW c \in Changes PROVE Follows(change[c], change'[c])
    <2>1. change[c] \in ChangeRecord /\ Follows(change[c], change[c])
      BY ChangeTable DEF Follows
    <2>2. \A state : state \notin Open =>
             Follows(change[c], Set(change[c], change[c].stage, state))
      BY <2>1, SetFollows
    <2> QED BY <2>1, <2>2
  <1> QED BY <1>1 DEF EpochStep, Epoch

-----------------------------------------------------------------------------
(* Epochs, by who takes the step.                                          *)

\* Commands.
LEMMA OperatorEpoch ==
    ASSUME Typed, Operator
    PROVE  EpochStep
  <1>0. \A c \in Changes : /\ change[c] \in ChangeRecord
                           /\ Follows(change[c], change[c])
    BY ChangeTable DEF Follows
  <1>1. ASSUME NEW c \in Changes, ReleaseOption(c) PROVE EpochStep
    <2> DEFINE n == [Set(change[c], "MUTATION", "QUEUED")
                        EXCEPT !.base = taskSHA]
    <2>1. ~Present(c) /\ change' = [change EXCEPT ![c] = n]
      BY <1>1 DEF ReleaseOption, Present
    <2> HIDE DEF n
    <2> QED BY <2>1, UpdateEpoch DEF Epoch
  <1>2. ASSUME NEW c \in Changes, ChangePromote(c) PROVE EpochStep
    <2> DEFINE ch == Set(change[c], "PROMOTION", "QUEUED")
    <2>1. change[c].state = "QUEUED" /\ change' = [change EXCEPT ![c] = ch]
      BY <1>2 DEF ChangePromote
    <2>2. Follows(change[c], ch)
      BY <1>0, <2>1, SetFollows DEF Open, Late
    <2> HIDE DEF ch
    <2> QED BY <2>1, <2>2, UpdateEpoch DEF Epoch
  <1>3. ASSUME NEW c \in Changes, ChangeResume(c) PROVE EpochStep
    <2> DEFINE ch == Set(change[c], change[c].stage, "QUEUED")
               n == [ch EXCEPT !.resetAt = RunsOf(c)]
    <2>1. ch \in ChangeRecord
      BY <1>0, KeepStage DEF States
    <2>2. change' = [change EXCEPT ![c] = n]
      BY <1>3 DEF ChangeResume
    <2>3. n.resetAt = RunsOf(c)
      <3> HIDE DEF ch
      <3> QED BY <2>1, EpochBegins
    <2> HIDE DEF n, ch
    <2> QED BY <2>2, <2>3, UpdateEpoch DEF Epoch
  <1>4. ASSUME NEW c \in Changes, NEW stage \in {"CI", "REVIEW", "MUTATION"},
               ChangeRetry(c, stage)
        PROVE  EpochStep
    <2> DEFINE ch == Set(change[c], stage, "QUEUED")
               r == IF stage = "REVIEW" THEN latestCI[change[c].artifact]
                                        ELSE change[c].ci
               n == [ch EXCEPT !.ci = r, !.review = None,
                               !.resetAt = RunsOf(c)]
    <2>1. ch \in ChangeRecord
      BY <1>0, SetType DEF Stages, States
    <2>2. change' = [change EXCEPT ![c] = n]
      BY <1>4 DEF ChangeRetry
    <2>3. n.resetAt = RunsOf(c)
      <3> HIDE DEF ch, r
      <3> QED BY <2>1, EpochBegins
    <2> HIDE DEF n, ch, r
    <2> QED BY <2>2, <2>3, UpdateEpoch DEF Epoch
  <1>5. ASSUME NEW c \in Changes, NEW state \in {"PAUSED", "ABORTED"},
               ChangePause(c, state)
        PROVE  EpochStep
    <2> DEFINE ch == Set(change[c], change[c].stage, state)
    <2>1. change' = [change EXCEPT ![c] = ch]
      BY <1>5 DEF ChangePause
    <2>2. Follows(change[c], ch)
      BY <1>0, SetFollows DEF Open
    <2> HIDE DEF ch
    <2> QED BY <2>1, <2>2, UpdateEpoch DEF Epoch
  <1>6. ASSUME NEW op, requestCancellation(op) PROVE EpochStep
    <2>1. change' = PausedAll
      BY <1>6 DEF requestCancellation
    <2> QED BY <2>1, StopsEpoch DEF PausedAll, Open
  <1>7. CASE \/ \E a \in Artifacts, r \in CIRuns : QueueCI(a, r)
             \/ \E k \in Attempts : Interrupt(k)
             \/ \E b \in Scopes : ResolveBlocker(b)
             \/ ResumeTask \/ ControlGivesUp \/ CommandFails
             \/ \E new \in Commits : ExternalMove(new)
             \/ \E s \in Scheds : Interrupted(s)
             \/ RecoverStart
    <2>1. UNCHANGED change
      BY <1>7 DEF QueueCI, Interrupt, ResolveBlocker, ResumeTask,
         ControlGivesUp, CommandFails, ExternalMove, Interrupted,
         RecoverStart, document
    <2> QED BY <2>1, UnchangedEpoch
  <1> QED BY <1>1, <1>2, <1>3, <1>4, <1>5, <1>6, <1>7 DEF Operator

\* Commands that waited.
LEMMA ControlEpoch ==
    ASSUME Typed, Control
    PROVE  EpochStep
  <1>1. CASE finishResume
    BY <1>1, StopsEpoch DEF finishResume, Open
  <1>2. CASE ChangeSettled \/ CancellationSettles \/ finishLifecycle \/ LifecycleRefused
    <2>1. UNCHANGED change \/ change' = PausedAll
      BY <1>2 DEF ChangeSettled, CancellationSettles, finishLifecycle, LifecycleRefused, document
    <2>2. CASE change' = PausedAll
      BY <2>2, StopsEpoch DEF PausedAll, Open
    <2> QED BY <2>1, <2>2, UnchangedEpoch
  <1> QED BY <1>1, <1>2 DEF Control

\* PrepareAttempt and PrepareCI move no Change.
LEMMA PrepareEpoch ==
    ASSUME Typed, NEW s \in Scheds,
           \/ \E k \in Attempts : PrepareAttempt(s, k)
           \/ \E r \in CIRuns : PrepareCI(s, r)
    PROVE  EpochStep
  <1> DEFINE c == step[s].change
  <1>0. c \in Changes => Follows(change[c], change[c])
    BY DEF Follows
  <1>1. ASSUME NEW k \in Attempts, PrepareAttempt(s, k) PROVE EpochStep
    <2> DEFINE n == [change[c] EXCEPT !.review = k]
    <2>1. change' = change \/ change' = [change EXCEPT ![c] = n]
      BY <1>1 DEF PrepareAttempt
    <2>2. c \in Changes => /\ n.resetAt = change[c].resetAt
                           /\ n.state = change[c].state
                           /\ n.stage = change[c].stage
      BY ChangeTable, ReviewFields, EpochKept
    <2> HIDE DEF n
    <2>3. c \in Changes => Epoch(c, n)
      BY <1>0, <2>2, AlikeFollows DEF Epoch
    <2> HIDE DEF c
    <2> QED BY <2>1, <2>3, UpdateEpoch, UnchangedEpoch
  <1>2. ASSUME NEW r \in CIRuns, PrepareCI(s, r) PROVE EpochStep
    <2> DEFINE n == [change[c] EXCEPT !.ci = r, !.review = None]
    <2>1. \/ change' = change
          \/ change' = [change EXCEPT ![c].ci = r, ![c].review = None]
      BY <1>2 DEF PrepareCI
    <2>2. /\ c \in Changes => [change EXCEPT ![c].ci = r, ![c].review = None]
                                 = [change EXCEPT ![c] = n]
          /\ c \notin Changes =>
                [change EXCEPT ![c].ci = r, ![c].review = None] = change
      BY ChangeTable
    <2>3. c \in Changes => /\ n.resetAt = change[c].resetAt
                           /\ n.state = change[c].state
                           /\ n.stage = change[c].stage
      BY ChangeTable, PreparedFields, EpochKept
    <2> HIDE DEF n
    <2>4. c \in Changes => Epoch(c, n)
      BY <1>0, <2>3, AlikeFollows DEF Epoch
    <2> HIDE DEF c
    <2> QED BY <2>1, <2>2, <2>4, UpdateEpoch, UnchangedEpoch
  <1> QED BY <1>1, <1>2

\* The end of a promotion.
LEMMA PromotionEpoch ==
    ASSUME Typed, NEW s \in Scheds,
           EvidenceChanged(s) \/ EndPromotion(s) \/ ApplyPromotion(s)
    PROVE  EpochStep
  <1>1. ASSUME NEW c, NEW stage, NEW state, state \notin Open,
               change' = [change EXCEPT ![c] = Set(change[c], stage, state)]
        PROVE  EpochStep
    <2>1. c \in Changes => /\ change[c] \in ChangeRecord
                           /\ Follows(change[c], change[c])
      BY ChangeTable DEF Follows
    <2>2. c \in Changes => Follows(change[c], Set(change[c], stage, state))
      BY <1>1, <2>1, SetFollows
    <2> QED BY <1>1, <2>2, UpdateEpoch DEF Epoch
  <1>2. CASE EvidenceChanged(s)
    <2> DEFINE c == step[s].change
    <2>1. \/ UNCHANGED change
          \/ change' = [change EXCEPT ![c] =
                           Set(change[c], "REVIEW", "BLOCKED")]
      BY <1>2 DEF EvidenceChanged
    <2> HIDE DEF c
    <2> QED BY <1>1, <2>1, UnchangedEpoch DEF Open
  <1>3. CASE EndPromotion(s)
    <2> DEFINE c == step[s].change
    <2>1. \/ UNCHANGED change
          \/ change' = [change EXCEPT ![c] =
                           Set(change[c], change[c].stage, "STALE")]
      BY <1>3, Zenon DEF EndPromotion
    <2> HIDE DEF c
    <2> QED BY <1>1, <2>1, UnchangedEpoch DEF Open
  <1>4. CASE ApplyPromotion(s)
    <2> DEFINE c == owner[journal[act[s]].artifact]
    <2>1. \/ UNCHANGED change
          \/ change' = [change EXCEPT ![c] =
                           Set(change[c], "PROMOTION", "DONE")]
      BY <1>4, Zenon DEF ApplyPromotion
    <2> HIDE DEF c
    <2> QED BY <1>1, <2>1, UnchangedEpoch DEF Open
  <1> QED BY <1>2, <1>3, <1>4

\* The end of a step.
LEMMA EndOfStepEpoch ==
    ASSUME Typed, NEW s \in Scheds,
           FailedStep(s) \/ PauseOnSignal(s) \/ EndStep(s)
    PROVE  EpochStep
  <1>1. CASE FailedStep(s) \/ EndStep(s)
    <2>1. Release(change, s) \/ UNCHANGED change
      BY <1>1 DEF FailedStep, EndStep, TryRelease, KeepsSlot
    <2> QED BY <2>1, OnlyReleaseEpoch, UnchangedEpoch
  <1>2. CASE PauseOnSignal(s)
    <2> DEFINE c == step[s].change
               ch == Set(change[c], change[c].stage, "PAUSED")
    <2>1. UNCHANGED change \/ change' = [change EXCEPT ![c] = ch]
      BY <1>2 DEF PauseOnSignal, AfterSignal
    <2>2. c \in Changes => Follows(change[c], ch)
      <3>1. c \in Changes => /\ change[c] \in ChangeRecord
                             /\ Follows(change[c], change[c])
        BY ChangeTable DEF Follows
      <3> HIDE DEF c
      <3> QED BY <3>1, SetFollows DEF Open
    <2> HIDE DEF c, ch
    <2> QED BY <2>1, <2>2, UpdateEpoch, UnchangedEpoch DEF Epoch
  <1> QED BY <1>1, <1>2

\* Schedulers between two activities, or killed.
LEMMA ScheduleEpoch ==
    ASSUME Typed, NEW s \in Scheds,
           SchedStart(s) \/ Crash(s) \/ Schedule(s)
    PROVE  EpochStep
  <1>1. CASE SchedStart(s) \/ Crash(s) \/ NextRequest(s) \/ IdleFails(s)
    <2>1. UNCHANGED change
      BY <1>1 DEF SchedStart, Crash, NextRequest, IdleFails, KeepsSlot,
                  document
    <2> QED BY <2>1, UnchangedEpoch
  <1>2. CASE SchedStop(s)
    <2>1. Release(change, s) \/ UNCHANGED change
      BY <1>2 DEF SchedStop, KeepsSlot
    <2> QED BY <2>1, OnlyReleaseEpoch, UnchangedEpoch
  <1>3. CASE NextChange(s)
    <2>1. ASSUME NEW d \in Changes PROVE Follows(change[d], change'[d])
      <3> DEFINE n1 == [change[d] EXCEPT !.state = "RUNNING",
                                         !.started = TRUE]
                 n2 == [change[d] EXCEPT !.state = "STALE"]
                 n3 == [change[d] EXCEPT !.state = "BLOCKED"]
      <3>1. \/ change'[d] = change[d]
            \/ /\ change[d].state = "QUEUED"
               /\ change'[d] \in {n1, n2, n3}
        BY <1>3 DEF NextChange
      <3>2. /\ n1.stage = change[d].stage /\ n1.resetAt = change[d].resetAt
            /\ n2.state = "STALE" /\ n2.resetAt = change[d].resetAt
            /\ n3.state = "BLOCKED" /\ n3.resetAt = change[d].resetAt
        BY ChangeTable, StartedFields, StateFields, EpochKept
      <3> HIDE DEF n1, n2, n3
      <3> QED BY <3>1, <3>2 DEF Follows, Open
    <2> QED BY <2>1 DEF EpochStep, Epoch
  <1> QED BY <1>1, <1>2, <1>3 DEF Schedule

\* Recovery: a Change it queues again is put back in AWAIT_PROMOTION, by the
\* journal it settles as NOT_APPLIED.
LEMMA RecoveryEpoch ==
    ASSUME Typed, Named, Recovery \/ RecoverFails \/ RecoverCrash
    PROVE  EpochStep
  <1>1. CASE \/ RecoverRefused \/ RecoverSteal \/ RecoverTerminate
             \/ \E j \in Journals : RecoverResolve(j)
             \/ RecoverUnlock \/ RecoverDone \/ RecoverCrash
    <2>1. UNCHANGED change
      BY <1>1 DEF RecoverRefused, RecoverSteal, RecoverTerminate,
         RecoverResolve, RecoverUnlock, RecoverDone, RecoverCrash, document
    <2> QED BY <2>1, UnchangedEpoch
  <1>2. ASSUME RecoverBails PROVE EpochStep
    BY <1>2, OnlyReleaseEpoch, UnchangedEpoch DEF RecoverBails
  <1>3. CASE RecoverFails
    BY <1>2, <1>3 DEF RecoverFails
  <1>4. ASSUME NEW k \in Attempts, NEW a \in Artifacts \cup {None},
               RecoverAttempt(k, a)
        PROVE  EpochStep
    <2> DEFINE c == attempt[k].change
               ch == IF a # None THEN Captured(change[c], a) ELSE change[c]
               moved == IF Terminal(c) THEN ch
                        ELSE Set(ch, ch.stage, "PAUSED")
    <2>1. c \in Changes /\ change[c] \in ChangeRecord
      BY <1>4, ChangeTable DEF Typed, TypeOK, DocumentOK, AttemptRecord,
         RecoverAttempt, ActiveAttempts, Named
    <2>2. ch \in ChangeRecord
      BY <2>1, CapturedType
    <2>3. Follows(change[c], ch)
      <3>1. /\ ch.resetAt = change[c].resetAt /\ ch.state = change[c].state
            /\ ch.stage = change[c].stage
        BY <2>1, CapturedFields, EpochKept
      <3> HIDE DEF ch, c
      <3> QED BY <3>1 DEF Follows
    <2>4. Follows(change[c], moved)
      <3> HIDE DEF ch, c
      <3> QED BY <2>2, <2>3, SetFollows DEF Open
    <2>5. change' = [change EXCEPT ![c] = moved]
      BY <1>4 DEF RecoverAttempt
    <2> HIDE DEF moved, c, ch
    <2> QED BY <2>4, <2>5, UpdateEpoch DEF Epoch
  <1>5. CASE RecoverLeases
    <2>1. \A c \in Changes : change'[c] = Restarted(change[c])
      BY <1>5 DEF RecoverLeases
    <2> QED BY <2>1, StopsEpoch DEF Restarted, Open
  <1>6. CASE RecoverJournal
    <2> DEFINE j == rec.journal
               outcome == Outcome(j, rec.sha)
    <2>1. /\ UNCHANGED owner /\ j \in Journals
          /\ journal[j] \in JournalRecord /\ journal[j].artifact # None
          /\ owner[journal[j].artifact] \in Changes
      <3>1. UNCHANGED owner /\ j \in Journals /\ journal[j].state # "NONE"
        BY <1>6, RecoverJournalFrame, FinishedJournal DEF evidence
      <3> QED BY <3>1 DEF Named, Typed, TypeOK, DocumentOK, JournalRecord
    <2>2. PICK c \in Changes : c = owner[journal[j].artifact]
      BY <2>1
    <2> DEFINE ch == CASE outcome = "APPLIED" ->
                             Set(change[c], "PROMOTION", "DONE")
                       [] outcome = "NOT_APPLIED" ->
                             Set(change[c], "AWAIT_PROMOTION", "QUEUED")
                       [] OTHER -> Set(change[c], change[c].stage, "STALE")
    <2>3. \/ RecoverBails
          \/ /\ change' = [change EXCEPT ![c] = ch]
             /\ journal' = [journal EXCEPT ![j].state = outcome]
      BY <1>6, <2>2, Zenon DEF RecoverJournal
    <2>4. outcome \in {"APPLIED", "NOT_APPLIED", "CONFLICT"}
      BY DEF Outcome
    <2>5. change[c] \in ChangeRecord /\ Follows(change[c], change[c])
      BY ChangeTable DEF Follows
    <2>6. CASE /\ change' = [change EXCEPT ![c] = ch]
               /\ journal' = [journal EXCEPT ![j].state = outcome]
      <3>1. CASE outcome = "NOT_APPLIED"
        <4>1. /\ change'[c].stage = "AWAIT_PROMOTION"
              /\ journal'[j].state = "NOT_APPLIED"
              /\ journal'[j].artifact = journal[j].artifact
          <5>1. change'[c] = Set(change[c], "AWAIT_PROMOTION", "QUEUED")
            BY <2>6, <3>1, ChangeTable
          <5>2. journal'[j] = [journal[j] EXCEPT !.state = outcome]
            BY <2>1, <2>6 DEF Typed, TypeOK, DocumentOK
          <5> HIDE DEF outcome, j
          <5> QED BY <2>1, <2>5, <3>1, <5>1, <5>2, SetFields
                  DEF JournalRecord
        <4>2. \E i \in Journals : /\ journal'[i].state = "NOT_APPLIED"
                                  /\ owner'[journal'[i].artifact] = c
          <5> HIDE DEF j
          <5> QED BY <2>1, <2>2, <4>1
        <4>3. PutBack(c)'
          BY <4>1, <4>2 DEF PutBack
        <4> HIDE DEF ch
        <4> QED BY <2>6, <4>3, UpdateEpoch
      <3>2. CASE outcome # "NOT_APPLIED"
        <4>1. Follows(change[c], ch)
          <5> HIDE DEF outcome, j
          <5> QED BY <2>4, <2>5, <3>2, SetFollows DEF Open
        <4> HIDE DEF ch
        <4> QED BY <2>6, <4>1, UpdateEpoch DEF Epoch
      <3> QED BY <3>1, <3>2
    <2> QED BY <1>2, <2>3, <2>6
  <1> QED BY <1>1, <1>3, <1>4, <1>5, <1>6 DEF Recovery

-----------------------------------------------------------------------------
(* A Change whose Attempt is at work is under way: whatever stops it,      *)
(* pauses or aborts it in its stage.                                       *)

Busy == {"QUEUED", "RUNNING", "PAUSED", "ABORTED"}
GoesAhead(ch) == ch.state \in Busy /\ ch.stage \notin Late
Underway ==
    \A s \in Scheds : pc[s] \in AtWork => GoesAhead(change[step[s].change])
\* resume of the Task waits in a Task that is SUSPENDED.
Resuming == ctl.op = "resume" => taskStatus = "SUSPENDED"

\* Complete.
LEMMA CompleteEpoch ==
    ASSUME Typed, Named, Unfinished, Underway, NEW s \in Scheds,
           NEW how \in Endings, NEW result \in Verdicts,
           NEW a \in Artifacts \cup {None}, Complete(s, how, result, a)
    PROVE  EpochStep
  <1> DEFINE p == step[s]
             k == act[s]
             c == p.change
             stopped == how = "INTERRUPTED" \/ k \in interrupts \/ cancelled
             ch == IF a # None THEN Captured(change[c], a) ELSE change[c]
             paused == stopped \/ ch.state \in {"PAUSED", "ABORTED"}
             rv == [attempt |-> k, ci |-> ch.ci,
                    verdict |-> IF result = "APPROVE" THEN "APPROVE"
                                                      ELSE "REJECT"]
             rch == [ch EXCEPT !.review = k]
             moved ==
                 IF paused
                 THEN IF ch.state = "ABORTED" THEN ch
                      ELSE Set(ch, ch.stage, "PAUSED")
                 ELSE IF how \in Infrastructure THEN ch
                 ELSE IF how # "RETURNED" THEN Set(ch, ch.stage, "BLOCKED")
                 ELSE IF p.op = "mutation"
                 THEN IF a = None \/ result = "DROP_FINAL"
                      THEN Set(ch, "MUTATION", "BLOCKED")
                      ELSE IF result = "PROMOTE_FINAL"
                      THEN Set(ch, "CI", "QUEUED")
                      ELSE Set(ch, "MUTATION", "QUEUED")
                 ELSE IF PromotionEvidence(c, rch, rv)
                 THEN Set(rch, "AWAIT_PROMOTION", "QUEUED")
                 ELSE IF result = "REJECT_WITH_FINDINGS"
                 THEN Set(rch, "MUTATION", "QUEUED")
                 ELSE Set(rch, "REVIEW", "BLOCKED")
  <1>0. pc[s] \in AtWork
    BY CompleteFrame DEF AtWork
  <1>1. c \in Changes /\ change[c] \in ChangeRecord /\ GoesAhead(change[c])
    BY <1>0, StepChange DEF Executing, AtWork, Underway
  <1>2. ch \in ChangeRecord
    BY <1>1, CapturedType
  <1>3. k \in Attempts
    BY <1>0 DEF Typed, Shape, LocalsOK, Local, AtWork
  <1>4. rch \in ChangeRecord
    <2> HIDE DEF ch, k
    <2> QED BY <1>2, <1>3, ReviewType
  <1>5. Follows(change[c], ch) /\ GoesAhead(ch)
    <2>1. /\ ch.resetAt = change[c].resetAt /\ ch.state = change[c].state
          /\ ch.stage = change[c].stage
      BY <1>1, CapturedFields, EpochKept
    <2> HIDE DEF ch, c
    <2> QED BY <1>1, <2>1 DEF Follows, GoesAhead
  <1>6. Follows(change[c], rch) /\ rch.state = ch.state /\ GoesAhead(rch)
    <2>1. /\ rch.resetAt = ch.resetAt /\ rch.state = ch.state
          /\ rch.stage = ch.stage
      <3> HIDE DEF ch, k
      <3> QED BY <1>2, ReviewFields, EpochKept
    <2> HIDE DEF rch, ch, c
    <2> QED BY <1>5, <2>1, AlikeFollows DEF GoesAhead
  <1>7. ASSUME NEW m \in {ch, rch}, NEW stage, NEW state,
               paused => state \notin Open
        PROVE  Follows(change[c], Set(m, stage, state))
    <2>1. /\ m \in ChangeRecord /\ Follows(change[c], m) /\ GoesAhead(m)
          /\ m.state = ch.state
      <3> HIDE DEF ch, rch, c
      <3> QED BY <1>2, <1>4, <1>5, <1>6
    <2>2. state \in Open => m.state \in Open /\ m.stage \notin Late
      <3> HIDE DEF ch, rch, c, stopped
      <3> QED BY <1>7, <2>1 DEF GoesAhead, Busy, Open
    <2> HIDE DEF ch, rch, c, paused
    <2> QED BY <2>1, <2>2, SetFollows
  <1>8. Follows(change[c], moved) /\ moved \in ChangeRecord
    <2>1. moved \in ChangeRecord
      <3> HIDE DEF ch, rch, rv, k, p, paused
      <3> QED BY <1>2, <1>4, SetType, KeepStage DEF Stages, States
    <2>2. Follows(change[c], moved)
      <3> HIDE DEF ch, rch, rv, k, p, c, paused, PromotionEvidence
      <3> QED BY <1>5, <1>7 DEF Open
    <2> QED BY <2>1, <2>2
  <1>9. \/ release([change EXCEPT ![c] = moved])
        \/ change' = [change EXCEPT ![c] = moved]
    BY Zenon DEF Complete
  <1> DEFINE chs == [change EXCEPT ![c] = moved]
  <1> HIDE DEF moved, c
  <1>10. chs \in [Changes -> ChangeRecord]
    BY <1>8, ChangeTable, ChangeType
  <1>11. \A d \in Changes : Follows(change[d], chs[d])
    BY <1>8, ChangeTable DEF Follows
  <1> HIDE DEF chs
  <1>12. release(chs) => EpochStep
    BY <1>10, <1>11, ReleaseEpoch
  <1>13. change' = chs => EpochStep
    BY <1>11 DEF EpochStep, Epoch
  <1> QED BY <1>9, <1>12, <1>13 DEF chs

-----------------------------------------------------------------------------
(* FinishCI counts the timeouts.                                           *)

\* Runs q and r of Change c timed out in its present epoch, and no other run
\* of c ended since the first of them.
TwoTimeouts(c, q, r) ==
    /\ {q, r} \subseteq RunsOf(c) \ change[c].resetAt
    /\ run[q].status = "TIMEOUT" /\ run[r].status = "TIMEOUT"
    /\ \A p \in RunsOf(c) : p > q /\ p # r => ActiveRun(p)

\* TimeoutStreak counts both.
LEMMA StreakOfTwo ==
    ASSUME NEW c \in Changes, NEW runs, NEW q \in CIRuns, NEW r \in CIRuns,
           q < r,
           {q, r} \subseteq EndedRuns(c, runs),
           \A p \in EndedRuns(c, runs) : p >= q => runs[p].status = "TIMEOUT"
    PROVE  TimeoutStreak(c, runs) >= 2
  <1> DEFINE ended == EndedRuns(c, runs)
             T == {x \in ended : \A later \in ended :
                      later >= x => runs[later].status = "TIMEOUT"}
  <1>1. CIRuns = 1..MaxCIRuns /\ MaxCIRuns \in Nat
    BY BoundsAssumption DEF CIRuns
  <1>2. IsFiniteSet(CIRuns)
    BY <1>1, FS_Interval
  <1>3. ended \subseteq CIRuns
    BY DEF EndedRuns
  <1>4. {q, r} \subseteq T
    <2>1. ASSUME NEW x \in {q, r}, NEW later \in ended, later >= x
          PROVE  runs[later].status = "TIMEOUT"
      <3>1. later >= q
        <4> HIDE DEF ended
        <4> QED BY <1>1, <1>3, <2>1
      <3> QED BY <3>1
    <2> HIDE DEF ended
    <2> QED BY <2>1 DEF ended
  <1>5. T \subseteq CIRuns
    BY <1>3
  <1> HIDE DEF T, ended
  <1>6. IsFiniteSet(T)
    BY <1>2, <1>5, FS_Subset
  <1>7. /\ IsFiniteSet({q}) /\ Cardinality({q}) = 1
    BY FS_Singleton
  <1>8. r \notin {q}
    BY <1>1
  <1>9. Cardinality({q} \cup {r}) = 2
    BY <1>7, <1>8, FS_AddElement
  <1>10. {q} \cup {r} \in SUBSET T
    BY <1>4
  <1>11. Cardinality({q} \cup {r}) <= Cardinality(T)
    BY <1>6, <1>10, FS_Subset
  <1>12. Cardinality(T) >= 2
    BY <1>9, <1>11
  <1> QED BY <1>12 DEF TimeoutStreak, T, ended

\* So FinishCI leaves no Change queued after two timeouts in a row, and
\* leaves every other Change alone.
LEMMA FinishCICounts ==
    ASSUME Typed, NEW s \in Scheds, NEW outcome \in Outcomes,
           NEW code \in CIErrors, FinishCI(s, outcome, code),
           NEW c \in Changes
    PROVE  /\ c # step[s].change => change'[c] = change[c]
           /\ c = step[s].change /\ change'[c].state \in Open =>
                 /\ change'[c].resetAt = change[c].resetAt
                 /\ ~(TimeoutStreak(c, run') >= 2)
  <1> DEFINE ch == change[c]
             moved == IF ch.state = "ABORTED" THEN ch
                      ELSE IF ch.state = "PAUSED" \/ cancelled
                              \/ outcome = "TERMINATED"
                      THEN Set(ch, ch.stage, "PAUSED")
                      ELSE IF TimeoutStreak(c, run') >= 2
                      THEN Set(ch, "CI", "BLOCKED")
                      ELSE Set(ch, "REVIEW", "QUEUED")
  <1>1. c = step[s].change => change'[c] = moved
    <2>1. c # None
      BY DEF Changes, None
    <2>2. c = step[s].change => change' = [change EXCEPT ![c] = moved]
      BY <2>1 DEF FinishCI
    <2> HIDE DEF moved
    <2> QED BY <2>2, ChangeTable
  <1>2. c # step[s].change => change'[c] = change[c]
    <2>1. \/ change' = change
          \/ \E n : change' = [change EXCEPT ![step[s].change] = n]
      BY DEF FinishCI
    <2> QED BY <2>1, ChangeTable
  <1>3. /\ moved.resetAt = ch.resetAt
        /\ moved.state \in Open => ~(TimeoutStreak(c, run') >= 2)
    <2>1. ch \in ChangeRecord
      BY ChangeTable
    <2>2. \A stage, state : /\ Set(ch, stage, state).resetAt = ch.resetAt
                            /\ Set(ch, stage, state).state = state
      BY <2>1, EpochKept, SetFields
    <2> HIDE DEF ch
    <2> QED BY <2>2 DEF Open
  <1> HIDE DEF moved, ch
  <1> QED BY <1>1, <1>2, <1>3 DEF ch

\* In the terms of TimeoutsBlock.
LEMMA FinishCIBlocks ==
    ASSUME Typed, NEW s \in Scheds, NEW outcome \in Outcomes,
           NEW code \in CIErrors, FinishCI(s, outcome, code),
           NEW c \in Changes, c = step[s].change,
           NEW q \in CIRuns, NEW r \in CIRuns, q < r,
           TwoTimeouts(c, q, r)'
    PROVE  change'[c].state \notin Open
  <1> SUFFICES ASSUME change'[c].state \in Open PROVE FALSE
    OBVIOUS
  <1>1. /\ change'[c].resetAt = change[c].resetAt
        /\ ~(TimeoutStreak(c, run') >= 2)
    BY FinishCICounts
  <1>2. /\ {q, r} \subseteq RunsOf(c)' \ change'[c].resetAt
        /\ run'[q].status = "TIMEOUT" /\ run'[r].status = "TIMEOUT"
        /\ \A p \in RunsOf(c)' : p > q /\ p # r => ActiveRun(p)'
    BY DEF TwoTimeouts
  <1>3. RunsOf(c)' = {p \in CIRuns : run'[p].change = c}
    BY DEF RunsOf
  <1>4. {q, r} \subseteq EndedRuns(c, run')
    BY <1>1, <1>2, <1>3 DEF EndedRuns, Outcomes
  <1>5. ASSUME NEW p \in EndedRuns(c, run'), p >= q
        PROVE  run'[p].status = "TIMEOUT"
    <2>1. /\ p \in CIRuns /\ run'[p].change = c
          /\ run'[p].status \in Outcomes
      BY <1>5 DEF EndedRuns
    <2>2. p \in RunsOf(c)'
      BY <1>3, <2>1
    <2>3. ~ActiveRun(p)'
      BY <2>1 DEF ActiveRun, Outcomes
    <2>4. p = q \/ p > q
      BY <1>5, <2>1 DEF CIRuns
    <2> QED BY <1>2, <2>2, <2>3, <2>4
  <1> QED BY <1>1, <1>4, <1>5, StreakOfTwo

\* Every step but the end of a CI run.
LEMMA StepEpoch ==
    ASSUME Typed, Named, Unfinished, Underway, [Next]_vars
    PROVE  \/ EpochStep
           \/ \E s \in Scheds, outcome \in Outcomes, code \in CIErrors :
                 FinishCI(s, outcome, code)
  <1>1. ASSUME NEW s \in Scheds, Activity(s)
        PROVE  \/ EpochStep
               \/ \E outcome \in Outcomes, code \in CIErrors :
                     FinishCI(s, outcome, code)
    BY <1>1, QuietSteps, UnchangedEpoch, PrepareEpoch, CompleteEpoch,
       PromotionEpoch, EndOfStepEpoch DEF Activity
  <1>2. CASE UNCHANGED vars
    BY <1>2, UnchangedEpoch DEF vars, document
  <1> QED BY <1>1, <1>2, OperatorEpoch, ControlEpoch, ScheduleEpoch,
             RecoveryEpoch
          DEF Next

-----------------------------------------------------------------------------
(* Underway and Resuming are inductive.                                    *)

\* Only the final transactions change the status of the Task, and only resume
\* of a SUSPENDED Task waits as "resume".
LEMMA NextResuming ==
    ASSUME Typed, Resuming, [Next]_vars
    PROVE  Resuming'
  <1>1. CASE finishLifecycle \/ finishResume
    BY <1>1 DEF finishLifecycle, finishResume, Resuming, NoControl
  <1>2. CASE UNCHANGED taskStatus /\ UNCHANGED ctl
    BY <1>2 DEF Resuming
  <1>3. CASE UNCHANGED taskStatus /\ ~UNCHANGED ctl
    <2>1. \/ ResumeTask \/ ctl' = NoControl \/ ctl'.op # "resume"
      <3>1. CASE Operator
        <4>1. \A op : requestCancellation(op) => ctl'.op = op
          BY DEF requestCancellation
        <4>2. \A c, state : ChangePause(c, state) => ctl'.op = "pause"
          BY DEF ChangePause
        <4>3. ControlGivesUp => ctl' = NoControl
          BY DEF ControlGivesUp
        <4>4. CASE \/ \E c \in Changes : ReleaseOption(c)
                   \/ \E c \in Changes : ChangePromote(c) \/ ChangeResume(c)
                   \/ \E c \in Changes, stage \in {"CI", "REVIEW", "MUTATION"} :
                         ChangeRetry(c, stage)
                   \/ \E a \in Artifacts, r \in CIRuns : QueueCI(a, r)
                   \/ \E k \in Attempts : Interrupt(k)
                   \/ \E b \in Scopes : ResolveBlocker(b)
                   \/ CommandFails
                   \/ \E new \in Commits : ExternalMove(new)
                   \/ \E s \in Scheds : Interrupted(s)
                   \/ RecoverStart
          <5>1. UNCHANGED ctl
            BY <4>4, Zenon DEF ReleaseOption, ChangePromote, ChangeResume,
               ChangeRetry, OnlyChange, QueueCI, Interrupt, ResolveBlocker,
               CommandFails, ExternalMove, Interrupted, RecoverStart,
               outside, processes, others
          <5> QED BY <1>3, <5>1
        <4> QED BY <3>1, <4>1, <4>2, <4>3, <4>4 DEF Operator
      <3>2. CASE Control
        BY <3>2, WaitFrame DEF Control, ChangeSettled, finishLifecycle,
           LifecycleRefused, finishResume
      <3>3. CASE \/ Recovery \/ RecoverFails \/ RecoverCrash
                 \/ UNCHANGED vars
        <4>1. UNCHANGED ctl
          BY <3>3, RecoveryFrame, Zenon
          DEF vars, outside, processes, others
        <4> QED BY <1>3, <4>1
      <3>4. ASSUME NEW s \in Scheds,
                   SchedStart(s) \/ Crash(s) \/ Schedule(s) \/ Activity(s)
            PROVE  UNCHANGED ctl
        BY <3>4, ScheduleFrame, ActivityFrame DEF others
      <3> QED BY <1>3, <3>1, <3>2, <3>3, <3>4 DEF Next
    <2>2. ResumeTask => taskStatus = "SUSPENDED"
      BY DEF ResumeTask
    <2> QED BY <1>3, <2>1, <2>2 DEF Resuming, NoControl
  <1> QED BY <1>1, <1>2, <1>3, StatusWrites

\* A Change stays as it is, or is paused or aborted in its stage.
AtMostPaused(o, n) ==
    n = o \/ \E state \in {"PAUSED", "ABORTED"} : n = Set(o, o.stage, state)
\* Then it goes ahead if it did.
LEMMA PausedGoesAhead ==
    ASSUME NEW o \in ChangeRecord, NEW n, AtMostPaused(o, n), GoesAhead(o)
    PROVE  GoesAhead(n)
  BY SetFields DEF AtMostPaused, GoesAhead, Busy

\* Who is at work has the slot for its Change, in a Task that is ACTIVE.
LEMMA HasTheSlot ==
    ASSUME Typed, Named, Unfinished, Exclusive, InactiveIsQuiet, Resuming,
           NEW s \in Scheds, pc[s] \in AtWork, NEW c \in Changes,
           c = step[s].change
    PROVE  /\ slot.owner = s /\ slot.owner # "none" /\ changeActive(c)
           /\ Present(c) /\ taskStatus = "ACTIVE" /\ ctl.op # "resume"
           /\ ~Recovering
           /\ \A t \in Scheds \ {s} : slot.owner # t /\ pc[t] \notin Executing
  <1>1. pc[s] \in Executing
    BY DEF AtWork, Executing
  <1>2. /\ slot = [owner |-> s, task |-> TRUE] /\ pending = step[s]
        /\ \A t \in Scheds \ {s} : pc[t] \notin Executing
    BY <1>1 DEF Exclusive
  <1>3. slot.owner = s /\ slot.task /\ s # "none" /\ s # "recovery"
    BY <1>2, SchedNames
  <1>4. taskStatus = "ACTIVE"
    BY <1>3 DEF InactiveIsQuiet, TaskQuiescent
  <1>5. Present(c)
    BY StepChange DEF Present, Changes, None
  <1> QED BY <1>1, <1>2, <1>3, <1>4, <1>5, RecoveringAlone
          DEF changeActive, Resuming

\* A command only pauses or aborts its Change.
LEMMA OperatorAtWork ==
    ASSUME Typed, Operator, NEW c \in Changes, changeActive(c), Present(c)
    PROVE  AtMostPaused(change[c], change'[c])
  <1>1. ASSUME NEW d \in Changes,
               \/ ReleaseOption(d) \/ ChangePromote(d) \/ ChangeResume(d)
               \/ \E stage \in {"CI", "REVIEW", "MUTATION"} :
                     ChangeRetry(d, stage)
        PROVE  change'[c] = change[c]
    <2>1. d # c
      BY <1>1, Zenon DEF ReleaseOption, ChangePromote, ChangeResume,
         ChangeRetry, Actionable, Present
    <2>2. \E n : change' = [change EXCEPT ![d] = n]
      BY <1>1, Zenon DEF ReleaseOption, ChangePromote, ChangeResume,
         ChangeRetry
    <2> QED BY <2>1, <2>2, ChangeTable
  <1>2. ASSUME NEW d \in Changes, NEW state \in {"PAUSED", "ABORTED"},
               ChangePause(d, state)
        PROVE  AtMostPaused(change[c], change'[c])
    <2>1. change' = [change EXCEPT ![d] =
                        Set(change[d], change[d].stage, state)]
      BY <1>2 DEF ChangePause
    <2> QED BY <2>1, ChangeTable DEF AtMostPaused
  <1>3. ASSUME NEW op, requestCancellation(op)
        PROVE  AtMostPaused(change[c], change'[c])
    BY <1>3 DEF requestCancellation, PausedAll, AtMostPaused
  <1>4. CASE \/ \E a \in Artifacts, r \in CIRuns : QueueCI(a, r)
             \/ \E k \in Attempts : Interrupt(k)
             \/ \E b \in Scopes : ResolveBlocker(b)
             \/ ResumeTask \/ ControlGivesUp \/ CommandFails
             \/ \E new \in Commits : ExternalMove(new)
             \/ \E s \in Scheds : Interrupted(s)
             \/ RecoverStart
    <2>1. UNCHANGED change
      BY <1>4 DEF QueueCI, Interrupt, ResolveBlocker, ResumeTask,
         ControlGivesUp, CommandFails, ExternalMove, Interrupted,
         RecoverStart, document
    <2> QED BY <2>1 DEF AtMostPaused
  <1> QED BY <1>1, <1>2, <1>3, <1>4 DEF Operator, AtMostPaused

\* So does everybody else, while its scheduler stays at work.
LEMMA StaysUnderway ==
    ASSUME Typed, Named, Unfinished, Exclusive, InactiveIsQuiet, Resuming,
           [Next]_vars, NEW s \in Scheds, pc[s] \in AtWork,
           pc'[s] \in AtWork, NEW c \in Changes, c = step[s].change
    PROVE  AtMostPaused(change[c], change'[c])
  <1>0. /\ slot.owner = s /\ slot.owner # "none" /\ changeActive(c)
        /\ Present(c) /\ ctl.op # "resume" /\ ~Recovering
        /\ \A t \in Scheds \ {s} : slot.owner # t /\ pc[t] \notin Executing
    BY HasTheSlot
  <1>1. CASE UNCHANGED change
    BY <1>1 DEF AtMostPaused
  <1>2. CASE Control
    <2>1. UNCHANGED change \/ change' = PausedAll
      BY <1>0, <1>2 DEF Control, ChangeSettled, CancellationSettles, finishLifecycle,
         LifecycleRefused, finishResume, document
    <2> QED BY <1>1, <2>1 DEF PausedAll, AtMostPaused
  <1>3. ASSUME Activity(s) PROVE UNCHANGED change
    <2>1. ASSUME NEW how, NEW result, NEW a, Complete(s, how, result, a)
          PROVE  FALSE
      <3>1. Returns(s) \/ \E code : Fails(s, code)
        BY <2>1, CompleteFrame
      <3> QED BY <3>1 DEF Returns, Fails, AtWork, Typed, TypeOK, SchedulersOK
    <2>2. Materialize(s) \/ StorageFails(s)
      BY <1>3, <2>1
      DEF Activity, AtWork, ResolveRef, ResolveRefFails, EndPromotion,
          Refused, PrepareAttempt, PrepareCI, OpenLogs, MarkCIRunning,
          FinishCI, PromoteBusy, PromoteStart, EvidenceChanged,
          Construct, ConstructFails, PreparePromotion,
          PreparePromotionFails, CAS, CASFails, CASRejected,
          CASConflict, CASUnexplained, ApplyPromotion, FailedStep,
          PauseOnSignal, EndStep, Unwound
    <2> QED BY <2>2, QuietSteps
  <1>4. ASSUME NEW t \in Scheds \ {s}, Activity(t)
        PROVE  AtMostPaused(change[c], change'[c])
    <2>1. FailedStep(t) \/ PauseOnSignal(t) \/ EndStep(t)
      BY <1>0, <1>4, ActivityAt DEF Executing
    <2>2. CASE FailedStep(t) \/ EndStep(t)
      BY <1>0, <1>1, <2>2, LeavesOthersSlot
    <2>3. CASE PauseOnSignal(t)
      <3> DEFINE d == step[t].change
      <3>1. \/ UNCHANGED change
            \/ change' = [change EXCEPT ![d] =
                             Set(change[d], change[d].stage, "PAUSED")]
        BY <2>3 DEF PauseOnSignal, AfterSignal
      <3> HIDE DEF d
      <3> QED BY <1>1, <3>1, ChangeTable DEF AtMostPaused
    <2> QED BY <2>1, <2>2, <2>3
  <1>5. ASSUME NEW t \in Scheds, SchedStart(t) \/ Crash(t) \/ Schedule(t)
        PROVE  UNCHANGED change
    <2>1. ~NextRequest(t) /\ ~NextChange(t)
      BY <1>0, Zenon DEF NextRequest, NextChange, NextEnabled
    <2>2. t = s => ~SchedStop(t) /\ ~IdleFails(t)
      BY DEF SchedStop, IdleFails, AtWork
    <2>3. SchedStart(t) \/ Crash(t) => UNCHANGED change
      BY DEF SchedStart, Crash, KeepsSlot, document
    <2>4. t # s /\ (SchedStop(t) \/ IdleFails(t)) => UNCHANGED change
      BY <1>0, LeavesOthersSlot
    <2> QED BY <1>5, <2>1, <2>2, <2>3, <2>4 DEF Schedule
  <1>6. Recovery \/ RecoverFails \/ RecoverCrash => UNCHANGED change
    BY <1>0, Zenon DEF Recovering, Recovery, RecoverRefused, RecoverSteal,
       RecoverTerminate, RecoverAttempt, RecoverLeases, RecoverResolve,
       RecoverJournal, RecoverUnlock, RecoverDone, RecoverFails,
       RecoverCrash, document
  <1> QED BY <1>0, <1>1, <1>2, <1>3, <1>4, <1>5, <1>6, OperatorAtWork
          DEF Next, vars, document

\* An Attempt is prepared for a Change that may run, in MUTATION or REVIEW.
LEMMA PreparedUnderway ==
    ASSUME Typed, Named, Unfinished, NEW s \in Scheds, NEW k \in Attempts,
           PrepareAttempt(s, k), NEW c \in Changes, c = step[s].change
    PROVE  GoesAhead(change'[c])
  <1>1. /\ AdmissionError(s) = "OK" /\ step[s].op \in {"mutation", "review"}
    BY DEF PrepareAttempt, Typed, Shape, LocalsOK, Local
  <1>2. /\ runnable(step[s]) /\ ChangeStep(c).op = step[s].op
    BY <1>1 DEF AdmissionError
  <1>3. change[c].state \in Open
    BY <1>2 DEF runnable, Open, Changes, None
  <1>4. StageOperation(change[c].stage) \in {"mutation", "review"}
    BY <1>1, <1>2 DEF ChangeStep
  <1>5. change[c].stage \notin Late
    BY <1>4 DEF StageOperation, Late
  <1>6. /\ change'[c].state = change[c].state
        /\ change'[c].stage = change[c].stage
    <2> DEFINE n == [change[c] EXCEPT !.review = k]
    <2>1. change' = change \/ change' = [change EXCEPT ![c] = n]
      BY DEF PrepareAttempt
    <2>2. n.state = change[c].state /\ n.stage = change[c].stage
      BY ChangeTable, ReviewFields
    <2> HIDE DEF n
    <2> QED BY <2>1, <2>2, ChangeTable
  <1> QED BY <1>3, <1>5, <1>6 DEF GoesAhead, Busy, Open

\* Underway is inductive.
LEMMA NextUnderway ==
    ASSUME Typed, Named, Unfinished, Exclusive, Current, InactiveIsQuiet,
           Resuming, Underway, [Next]_vars
    PROVE  Underway'
  <1> SUFFICES ASSUME NEW s \in Scheds, pc'[s] \in AtWork
               PROVE  GoesAhead(change'[step'[s].change])
    BY DEF Underway, GoesAhead
  <1>1. ASSUME NEW c \in Changes, c = step[s].change, pc[s] \in AtWork
        PROVE  GoesAhead(change'[c])
    <2>1. GoesAhead(change[c]) /\ change[c] \in ChangeRecord
      BY <1>1, ChangeTable DEF Underway
    <2> QED BY <1>1, <2>1, StaysUnderway, PausedGoesAhead
  <1>2. pc[s] \in Executing => step[s].change \in Changes
                               \/ pc[s] \in {"ciPrepare", "ciSetup", "ciRun"}
    BY DEF Typed, Shape, LocalsOK, Local
  <1>3. pc'[s] \in Executing /\ pc'[s] \notin {"resolve", "ciPrepare"}
    BY DEF AtWork, Executing
  <1>4. \/ pc[s] \in AtWork /\ step'[s] = step[s]
        \/ /\ pc[s] \in Executing /\ step'[s] = step[s]
           /\ \E k \in Attempts : PrepareAttempt(s, k)
    BY <1>3, Enters, AdvancesTo
  <1>5. ASSUME NEW k \in Attempts, PrepareAttempt(s, k)
        PROVE  pc[s] = "prepare"
    BY <1>5 DEF PrepareAttempt
  <1>6. step[s].change \in Changes
    BY <1>2, <1>4, <1>5 DEF AtWork, Executing
  <1>7. PICK c \in Changes : c = step[s].change
    BY <1>6
  <1> QED BY <1>1, <1>4, <1>7, PreparedUnderway

-----------------------------------------------------------------------------
(* Two timeouts in a row stop a Change.                                    *)

\* Only FinishCI times a run out.
LEMMA TimeoutWrites ==
    ASSUME Typed, Current, [Next]_vars, NEW r \in CIRuns,
           run'[r].status = "TIMEOUT", run[r].status # "TIMEOUT"
    PROVE  \E s \in Scheds, outcome \in Outcomes, code \in CIErrors :
              FinishCI(s, outcome, code) /\ pc[s] \in AtCI /\ act[s] = r
  <1> DEFINE TimesOut ==
                \E s \in Scheds, outcome \in Outcomes, code \in CIErrors :
                   FinishCI(s, outcome, code) /\ pc[s] \in AtCI /\ act[s] = r
  <1> SUFFICES TimesOut
    OBVIOUS
  <1>0. run \in [CIRuns -> RunRecord] /\ run[r] \in RunRecord
    BY WorkTables
  <1>1. ASSUME NEW x, NEW status, status # "TIMEOUT",
               run' = [run EXCEPT ![x].status = status]
        PROVE  FALSE
    <2>1. run'[r] = run[r] \/ run'[r] = [run[r] EXCEPT !.status = status]
      BY <1>0, <1>1
    <2>2. [run[r] EXCEPT !.status = status].status = status
      BY <1>0, RunFields
    <2>3. run'[r].status \in {run[r].status, status}
      BY <2>1, <2>2
    <2> QED BY <1>1, <2>3
  <1>2. ASSUME NEW x, run' = [run EXCEPT ![x].logs = TRUE] PROVE FALSE
    <2>1. run'[r] = run[r] \/ run'[r] = [run[r] EXCEPT !.logs = TRUE]
      BY <1>0, <1>2
    <2>2. [run[r] EXCEPT !.logs = TRUE].status = run[r].status
      BY <1>0, RunFields
    <2>3. run'[r].status = run[r].status
      BY <2>1, <2>2
    <2> QED BY <2>3
  <1>3. ~(run'[r] = run[r])
    OBVIOUS
  <1>4. run'[r] # [run[r] EXCEPT !.status = "TERMINATED"]
    <2>1. [run[r] EXCEPT !.status = "TERMINATED"].status = "TERMINATED"
      BY <1>0, RunFields
    <2> QED BY <2>1
  <1>5. ~ \E op \in {"suspend", "close"} : requestCancellation(op)
    BY <1>3, <1>4 DEF requestCancellation
  <1>6. ~ RecoverLeases
    BY <1>3, <1>4 DEF RecoverLeases
  <1>7. ASSUME NEW a \in Artifacts, NEW x \in CIRuns, QueueCI(a, x)
        PROVE  FALSE
    <2>1. r # x => run'[r] = run[r]
      BY <1>0, <1>7 DEF QueueCI
    <2>2. r = x => run'[r].status = "QUEUED"
      BY <1>0, <1>7 DEF QueueCI
    <2> QED BY <2>1, <2>2
  <1>8. ASSUME NEW s \in Scheds, NEW x \in CIRuns, PrepareCI(s, x)
        PROVE  FALSE
    <2>1. r # x => run'[r] = run[r]
      BY <1>0, <1>8 DEF PrepareCI
    <2>2. r = x => run'[r].status = "PREPARING"
      BY <1>0, <1>8 DEF PrepareCI
    <2> QED BY <2>1, <2>2
  <1>9. ASSUME NEW s \in Scheds, NEW outcome \in Outcomes,
               NEW code \in CIErrors, FinishCI(s, outcome, code)
        PROVE  TimesOut
    <2>1. /\ pc[s] \in AtCI
          /\ run' = [run EXCEPT ![act[s]].status = outcome]
      BY <1>9, FinishCIFrame DEF AtCI
    <2>2. act[s] # r => run'[r] = run[r]
      BY <1>0, <2>1
    <2> QED BY <1>9, <2>1, <2>2
  <1>10. ASSUME NEW s \in Scheds, Activity(s) PROVE TimesOut
    <2>1. \/ UNCHANGED run
          \/ \E x \in CIRuns : PrepareCI(s, x)
          \/ OpenLogs(s) \/ MarkCIRunning(s)
          \/ \E outcome \in Outcomes, code \in CIErrors :
                FinishCI(s, outcome, code)
      BY <1>10, ActivityFrame
    <2>2. ~ OpenLogs(s)
      BY <1>2 DEF OpenLogs
    <2>3. ~ MarkCIRunning(s)
      <3>1. MarkCIRunning(s) =>
               UNCHANGED run \/ run' = [run EXCEPT ![act[s]].status = "RUNNING"]
        BY DEF MarkCIRunning
      <3> QED BY <1>1, <1>3, <3>1
    <2> HIDE DEF TimesOut
    <2> QED BY <1>3, <1>8, <1>9, <2>1, <2>2, <2>3
  <1> HIDE DEF TimesOut
  <1>11. CASE \/ Control \/ UNCHANGED vars
              \/ \E s \in Scheds : SchedStart(s) \/ Crash(s) \/ Schedule(s)
    BY <1>3, <1>11, ControlFrame, ScheduleFrame DEF evidence, vars, document
  <1>12. CASE Operator
    BY <1>3, <1>5, <1>7, <1>12, OperatorFrame
  <1>13. CASE Recovery \/ RecoverFails \/ RecoverCrash
    BY <1>3, <1>6, <1>13, RecoveryFrame
  <1> QED BY <1>10, <1>11, <1>12, <1>13 DEF Next

\* Only one step ends a CI run at a time.
LEMMA TimedOutBefore ==
    ASSUME Typed, Current, OwnRuns, [Next]_vars,
           NEW c \in Changes, NEW r \in CIRuns,
           run'[r].status = "TIMEOUT", run'[r].change = c,
           \A s \in Scheds, outcome \in Outcomes, code \in CIErrors :
              FinishCI(s, outcome, code) => c # step[s].change
    PROVE  run[r].status = "TIMEOUT" /\ run[r].change = c
  <1>1. c # None
    BY DEF Changes, None
  <1>2. run[r].change = c
    <2>1. run'[r].status # "PREPARING"
      OBVIOUS
    <2> QED BY <2>1, RunChange
  <1>3. ASSUME run[r].status # "TIMEOUT" PROVE FALSE
    <2>1. PICK s \in Scheds, outcome \in Outcomes, code \in CIErrors :
             FinishCI(s, outcome, code) /\ pc[s] \in AtCI /\ act[s] = r
      BY <1>3, TimeoutWrites
    <2>2. run[r].change = step[s].change
      BY <2>1 DEF OwnRuns, OwnStep, AtCI, Executing
    <2> QED BY <1>2, <2>1, <2>2
  <1> QED BY <1>2, <1>3

\* A journal that was not applied stays so.
LEMMA StaysNotApplied ==
    ASSUME Typed, Prepared, [Next]_vars, NEW j \in Journals,
           journal[j].state = "NOT_APPLIED"
    PROVE  journal'[j] = journal[j]
  <1>1. ASSUME NEW s \in Scheds, PreparePromotion(s, j) PROVE FALSE
    BY <1>1 DEF PreparePromotion, Fresh, UnusedJournals
  <1>2. ASSUME NEW s \in Scheds, act[s] = j, CASConflict(s) PROVE FALSE
    BY <1>2 DEF CASConflict, Prepared
  <1>3. ASSUME NEW s \in Scheds, act[s] = j, ApplyPromotion(s)
        PROVE  journal'[j] = journal[j]
    BY <1>3, ApplyFrame
  <1>4. ASSUME rec.journal = j, RecoverJournal PROVE FALSE
    BY <1>4, RecoverJournalFrame DEF Prepared
  <1> QED BY <1>1, <1>2, <1>3, <1>4, JournalWrites
\* So a Change that was put back remains put back while its epoch lasts.
LEMMA PutBackStays ==
    ASSUME Typed, Named, Unfinished, Prepared, [Next]_vars, NEW c \in Changes,
           PutBack(c), Follows(change[c], change'[c]), change'[c].state \in Open
    PROVE  PutBack(c)'
  <1>1. change'[c].stage \in Late
    BY DEF PutBack, Follows, Late
  <1>2. PICK j \in Journals : /\ journal[j].state = "NOT_APPLIED"
                              /\ owner[journal[j].artifact] = c
    BY DEF PutBack
  <1>3. /\ journal'[j].state = "NOT_APPLIED"
        /\ owner'[journal'[j].artifact] = c
    BY <1>2, StaysNotApplied, JournalOwner
  <1> QED BY <1>1, <1>3 DEF PutBack, Late


\* TimeoutsBlock is inductive.
LEMMA NextTimeouts ==
    ASSUME Typed, Named, Unfinished, Current, Prepared, OwnRuns, Underway,
           TimeoutsBlock, [Next]_vars
    PROVE  TimeoutsBlock'
  <1>0. CIRuns = 1..MaxCIRuns /\ MaxCIRuns \in Nat
    BY BoundsAssumption DEF CIRuns
  <1> SUFFICES ASSUME NEW c \in Changes, NEW q \in CIRuns, NEW r \in CIRuns,
                      q < r, TwoTimeouts(c, q, r)',
                      change'[c].state \in Open, ~PutBack(c)'
               PROVE  FALSE
    <2>1. ASSUME NEW c \in Changes, NEW r \in CIRuns, NEW q \in 1..(r - 1),
                 change'[c].state \in {"QUEUED", "RUNNING"}, ~PutBack(c)',
                 {q, r} \subseteq RunsOf(c)' \ change'[c].resetAt,
                 run'[q].status = "TIMEOUT", run'[r].status = "TIMEOUT",
                 \A p \in RunsOf(c)' : p > q /\ p # r => ActiveRun(p)'
          PROVE  FALSE
      <3>1. q \in CIRuns /\ q < r
        BY <1>0
      <3>2. TwoTimeouts(c, q, r)'
        BY <2>1 DEF TwoTimeouts
      <3> QED BY <2>1, <3>1, <3>2 DEF Open
    <2> QED BY <2>1 DEF TimeoutsBlock
  <1>1. ASSUME NEW s \in Scheds, NEW outcome \in Outcomes,
               NEW code \in CIErrors, FinishCI(s, outcome, code)
        PROVE  c # step[s].change
    BY <1>1, FinishCIBlocks
  <1>2. /\ q \in RunsOf(c)' /\ r \in RunsOf(c)'
        /\ q \notin change'[c].resetAt /\ r \notin change'[c].resetAt
        /\ run'[q].status = "TIMEOUT" /\ run'[r].status = "TIMEOUT"
        /\ \A p \in RunsOf(c)' : p > q /\ p # r => ActiveRun(p)'
    BY DEF TwoTimeouts
  <1>3. RunsOf(c)' = {p \in CIRuns : run'[p].change = c}
    BY DEF RunsOf
  <1>4. /\ run[q].status = "TIMEOUT" /\ run[q].change = c
        /\ run[r].status = "TIMEOUT" /\ run[r].change = c
    BY <1>1, <1>2, <1>3, TimedOutBefore
  <1>5. q \in RunsOf(c) /\ r \in RunsOf(c)
    BY <1>4 DEF RunsOf
  <1>6. Present(c)
    <2>1. run[q].change # None
      BY <1>4 DEF Changes, None
    <2> QED BY <1>4, <2>1 DEF OwnRuns, OwnRun, Present
  <1>7. Follows(change[c], change'[c])
    <2>1. CASE EpochStep
      BY <1>2, <1>5, <1>6, <2>1 DEF EpochStep, Epoch
    <2>2. ASSUME NEW s \in Scheds, NEW outcome \in Outcomes,
                 NEW code \in CIErrors, FinishCI(s, outcome, code)
          PROVE  Follows(change[c], change'[c])
      <3>1. change'[c] = change[c]
        BY <1>1, <2>2, FinishCICounts
      <3> QED BY <3>1 DEF Follows
    <2> QED BY <2>1, <2>2, StepEpoch
  <1>8. /\ change[c].state \in {"QUEUED", "RUNNING"}
        /\ {q, r} \subseteq RunsOf(c) \ change[c].resetAt
    BY <1>2, <1>5, <1>7 DEF Follows, Open
  <1>9. ASSUME NEW p \in RunsOf(c), p > q, p # r, ~ActiveRun(p) PROVE FALSE
    <2>1. p \in CIRuns /\ run[p].change = c /\ c # None
      BY <1>9 DEF RunsOf, Changes, None
    <2>2. run[p].status # "NONE"
      BY <2>1 DEF OwnRuns, OwnRun
    <2>3. run'[p].change = c /\ ~ActiveRun(p)'
      BY <1>9, <2>1, <2>2, RunChange
    <2> QED BY <1>2, <1>3, <1>9, <2>1, <2>3
  <1>10. q \in 1..(r - 1)
    BY <1>0
  <1>11. PutBack(c)
    BY <1>4, <1>8, <1>9, <1>10 DEF TimeoutsBlock
  <1> QED BY <1>7, <1>11, PutBackStays

\* The inductive invariant.
TimeoutsInv == OwnRuns /\ Resuming /\ Underway /\ TimeoutsBlock
\* Initially there is no run.
LEMMA InitTimeouts == Init => TimeoutsInv
  <1> SUFFICES ASSUME Init PROVE TimeoutsInv
    OBVIOUS
  <1>1. OwnRuns
    BY DEF Init, OwnRuns, OwnRun, NoRun, Executing
  <1>2. Resuming /\ Underway
    BY DEF Init, Resuming, NoControl, Underway, AtWork
  <1>3. \A r \in CIRuns : run[r].status # "TIMEOUT"
    BY DEF Init, NoRun
  <1>4. TimeoutsBlock
    BY <1>3 DEF TimeoutsBlock
  <1> QED BY <1>1, <1>2, <1>4 DEF TimeoutsInv
\* Every step keeps it.
LEMMA NextTimeoutsInv ==
    Typed /\ PublicationInv /\ EvidenceInv /\ InactiveIsQuiet /\ TimeoutsInv
    /\ [Next]_vars => TimeoutsInv'
  <1> SUFFICES ASSUME Typed, PublicationInv, EvidenceInv, InactiveIsQuiet,
                      TimeoutsInv, [Next]_vars
               PROVE  TimeoutsInv'
    OBVIOUS
  <1>1. /\ Exclusive /\ Named /\ Unfinished /\ Prepared /\ Current /\ Used
        /\ OwnRuns /\ Resuming /\ Underway /\ TimeoutsBlock
    BY DEF PublicationInv, ChangesInv, EvidenceInv, TimeoutsInv
  <1>2. OwnRuns'
    BY <1>1, NextOwnRuns
  <1>3. Resuming'
    BY <1>1, NextResuming
  <1>4. Underway'
    BY <1>1, NextUnderway
  <1>5. TimeoutsBlock'
    BY <1>1, NextTimeouts
  <1> QED BY <1>2, <1>3, <1>4, <1>5 DEF TimeoutsInv

\* As long as a Change is queued or running, its last two CI runs since the
\* operator last resumed or retried it did not both time out: FinishCI blocks
\* it, and neither another scheduler, nor a crash, nor a recovery queues it
\* again, unless recovery finds that its promotion had not taken place.
THEOREM TimeoutsStop == Spec => []TimeoutsBlock
  <1>1. TimeoutsInv => TimeoutsBlock
    BY DEF TimeoutsInv
  <1> QED BY <1>1, InitTimeouts, NextTimeoutsInv, TypedInvariant,
             PublicationInvariant, EvidenceInvariant, StaysQuiet, PTL
          DEF Spec

=============================================================================
