------------------------------ MODULE Activity ------------------------------
(***************************************************************************)
(* What happens on the host and in the runner while one activity holds its *)
(* lease: the workspace is uploaded, a process runs under a deadline, a    *)
(* stop request and an output cap, the environment is terminated, and the  *)
(* workspace is captured (a mutation) or the outcome decided (a CI run).   *)
(* Activities of one Change follow one another, with crashes and recovery. *)
(***************************************************************************)
EXTENDS Naturals, FiniteSets

CONSTANTS
    MaxFiles,        \* files a workspace may have
    MaxActivities,   \* bound: activities started
    MaxVersions,     \* bound: versions of files workers write
    MaxCrashes,      \* bound: times the scheduler is killed
    Cap, MaxOutput,  \* the log cap, and the bound on what a process writes
    Kinds,           \* the activities: "mutation", "ci"
    Faults           \* codes of the errors that may occur

Files == 1..MaxFiles
Absent == 0
ASSUME ActivityAssumption ==
    /\ MaxFiles \in Nat \ {0} /\ MaxVersions \in Nat \ {0}
    /\ MaxActivities \in Nat /\ MaxCrashes \in Nat
    /\ Cap \in Nat \ {0} /\ MaxOutput \in Nat
    /\ Kinds \subseteq {"mutation", "ci"}

VARIABLES
    pc, kind, recovering,  \* where the host is, in Attempt or in Recover
    n,                     \* number of the activity
    current,               \* files of the Change's current Artifact
    root, ws, deleted,     \* the worker runner's tree: whose, its files, and
                           \* those its worker deleted; nothing is read back
                           \* from the test runner's, which is left out
    now,                   \* the last version written
    monitor, active, timed,    \* errors of the three contexts
    proc, log,             \* the process, and what is kept of its output
    result, err, term,     \* boundedexec's Result, e, terminateErr # nil
    verdict,               \* the status attempt or runCI has decided on
    scan,                  \* files.py capture, for the host or an observer
    requested,             \* an interrupt or a cancellation is durable
    stopped,               \* history: a stop was seen, before the lease was
                           \* over, when the outcome was still undecided
    status, crashes
contexts == <<monitor, active, timed>>
tree == <<root, ws, deleted, now>>
outcome == <<result, err, term, verdict>>
request == <<requested, stopped>>
vars == <<pc, kind, recovering, n, current, tree, contexts, proc, log,
          outcome, scan, request, status, crashes>>

Empty == [f \in Files |-> Absent]
NoProc == [st |-> "none", code |-> 0, alive |-> FALSE]
NoLog == [kept |-> 0, drained |-> 0, truncated |-> FALSE]
NoResult == [started |-> FALSE, exit |-> 9, timedOut |-> FALSE,
             canceled |-> FALSE, truncated |-> FALSE, failed |-> FALSE]
NoScan == [by |-> "none", at |-> "off", inv |-> Empty, snap |-> Empty,
           then |-> Empty, file |-> 1, moved |-> FALSE, of |-> 0]

Init ==
    /\ pc = "idle" /\ kind = "none" /\ recovering = FALSE /\ n = 0
    /\ current = [f \in Files |-> 1]        \* the repository's own files
    /\ root = 0 /\ ws = Empty /\ deleted = {} /\ now = 1
    /\ monitor = FALSE /\ active = "nil" /\ timed = "nil"
    /\ proc = NoProc /\ log = NoLog
    /\ result = NoResult /\ err = "nil" /\ term = FALSE /\ verdict = "none"
    /\ scan = NoScan /\ requested = FALSE /\ stopped = FALSE
    /\ status = "none" /\ crashes = 0

\* PrepareAttempt or PrepareCI was granted a lease; the contexts begin.
StartActivity(k) ==
    /\ pc = "idle" /\ n < MaxActivities
    /\ pc' = "check" /\ kind' = k /\ n' = n + 1
    /\ UNCHANGED <<recovering, current, tree, contexts, proc, log, outcome,
              scan, request, status, crashes>>

-----------------------------------------------------------------------------
(* Contexts: monitor is the parent of active, active that of timed.  The   *)
(* first cause stays the error of a context.                               *)

First(ctx, cause) == IF ctx = "nil" THEN cause ELSE ctx
Busy == pc \notin {"idle", "crashed", "recorded"} /\ ~recovering
Undecided == {"check", "discard", "prepare", "launch", "running",
              "terminate", "cleanup", "decide"}
\* An operator interrupts the Attempt or cancels the activity of the Task; a
\* CI run does not ask for these when it ends.
RequestStop ==
    /\ Busy /\ kind = "mutation" /\ ~requested /\ requested' = TRUE
    /\ UNCHANGED <<pc, kind, recovering, n, current, tree, contexts, proc,
              log, outcome, scan, stopped, status, crashes>>
\* The monitor saw one of these, a pause, an abort or a fail-stop, could not
\* read the document, or its parent was cancelled by Ctrl+C.
MonitorCancels ==
    /\ Busy /\ ~monitor /\ monitor' = TRUE
    /\ stopped' = (stopped \/ (active = "nil" /\ pc \in Undecided))
    /\ active' = First(active, "canceled")
    /\ timed' = IF pc = "running" THEN First(timed, "canceled") ELSE timed
    /\ UNCHANGED <<pc, kind, recovering, n, current, tree, proc, log,
              outcome, scan, requested, status, crashes>>
LeaseExpires ==
    /\ Busy /\ active = "nil" /\ active' = "deadline"
    /\ timed' = IF pc = "running" THEN First(timed, "deadline") ELSE timed
    /\ UNCHANGED <<pc, kind, recovering, n, current, tree, monitor, proc,
              log, outcome, scan, request, status, crashes>>
\* The process has its own timer, for what was left of the lease.
TimerExpires ==
    /\ pc = "running" /\ timed = "nil" /\ timed' = "deadline"
    /\ UNCHANGED <<pc, kind, recovering, n, current, tree, monitor, active,
              proc, log, outcome, scan, request, status, crashes>>

-----------------------------------------------------------------------------
(* Setup.  Each step is a bounded command that a done context kills.       *)

\* A change of the directory itself shows in its identity.
Dir(changed) == IF scan.at \in {"off", "accepted"} THEN scan
                ELSE [scan EXCEPT !.moved = @ \/ changed]
Check ==
    /\ pc = "check" /\ active = "nil" /\ pc' = "discard"
    /\ UNCHANGED <<kind, recovering, n, current, tree, contexts, proc, log,
              outcome, scan, request, status, crashes>>
\* The tree of the last activity goes before the bundle is read.
Discard ==
    /\ pc = "discard" /\ active = "nil" /\ pc' = "prepare"
    /\ IF kind = "ci" THEN UNCHANGED <<root, ws, deleted, scan>>
       ELSE /\ root' = 0 /\ ws' = Empty /\ deleted' = {}
            /\ scan' = Dir(TRUE)
    /\ UNCHANGED <<kind, recovering, n, current, now, contexts, proc, log,
              outcome, request, status, crashes>>
\* The members of the bundle are sorted: input.json, with the Attempt's id,
\* then the directory of the workspace, then its files, which "restore" only
\* writes once more.
PrepareInput ==
    /\ pc = "prepare" /\ kind = "mutation" /\ root = 0
    /\ root' = n /\ scan' = Dir(TRUE)
    /\ UNCHANGED <<pc, kind, recovering, n, current, ws, deleted, now,
              contexts, proc, log, outcome, request, status, crashes>>
Missing == {f \in Files : current[f] # Absent /\ ws[f] = Absent}
PrepareFile(f) ==
    /\ pc = "prepare" /\ kind = "mutation" /\ root = n
    /\ f \in Missing /\ \A g \in Missing : f <= g
    /\ ws' = [ws EXCEPT ![f] = current[f]] /\ scan' = Dir(TRUE)
    /\ UNCHANGED <<pc, kind, recovering, n, current, root, deleted, now,
              contexts, proc, log, outcome, request, status, crashes>>
Prepared ==
    /\ pc = "prepare" /\ pc' = "launch"
    /\ kind = "mutation" => root = n /\ Missing = {}
    /\ UNCHANGED <<kind, recovering, n, current, tree, contexts, proc, log,
              outcome, scan, request, status, crashes>>
Failures == {code \in {"RUNNER_UNAVAILABLE", "STORAGE_FAILURE"} :
                code \in Faults}
\* A command of the setup fails or is killed; the environment is terminated
\* all the same.
SetupFails ==
    /\ pc \in {"check", "discard", "prepare", "launch"}
    /\ err' \in Failures \cup
          (IF active = "nil" THEN {} ELSE {"RUNNER_UNAVAILABLE"})
    /\ pc' = "terminate"
    /\ UNCHANGED <<kind, recovering, n, current, tree, contexts, proc, log,
              result, term, verdict, scan, request, status, crashes>>
\* The host gives the activity up: what it had in memory is gone.
GivesUp ==
    /\ pc' = "crashed" /\ scan' = NoScan
    /\ recovering' = FALSE /\ stopped' = FALSE
    /\ monitor' = FALSE /\ active' = "nil" /\ timed' = "nil"
    /\ log' = NoLog /\ result' = NoResult /\ err' = "nil" /\ term' = FALSE
    /\ verdict' = "none"
    /\ UNCHANGED <<kind, n, current, tree, proc, requested, status>>
\* A transaction fails whose error is returned at once: reading the Artifact,
\* starting a CI run, Complete and FinishCI.  Nothing is terminated, and the
\* Attempt or run stays active for a recovery to settle.
TransactionFails ==
    /\ ~recovering /\ "STORAGE_FAILURE" \in Faults
    /\ \/ kind = "ci" /\ pc \in {"check", "launch"}
       \/ kind = "mutation" /\ pc = "discard"
       \/ pc = "complete"
    /\ GivesUp /\ UNCHANGED crashes

-----------------------------------------------------------------------------
(* boundedexec.Run                                                         *)

Launch ==
    /\ pc = "launch" /\ active = "nil"
    /\ pc' = "running"
    /\ proc' = [st |-> "running", code |-> 0, alive |-> TRUE]
    /\ UNCHANGED <<kind, recovering, n, current, tree, contexts, log,
              outcome, scan, request, status, crashes>>
\* The lease was over before the process could start, or a stop request came.
NeverStarts ==
    /\ pc = "launch" /\ kind = "mutation" /\ pc' = "terminate"
    /\ \/ result' = [NoResult EXCEPT !.timedOut = TRUE]
       \/ /\ active = "canceled"
          /\ result' = [NoResult EXCEPT !.canceled = TRUE]
    /\ UNCHANGED <<kind, recovering, n, current, tree, contexts, proc, log,
              err, term, verdict, scan, request, status, crashes>>
RunError == IF kind = "ci" THEN "INTERNAL_ERROR" ELSE "RUNNER_UNAVAILABLE"
\* The process cannot be started or contained.
LaunchFails ==
    /\ pc = "launch" /\ pc' = "terminate" /\ "RUNNER_UNAVAILABLE" \in Faults
    /\ result' = [NoResult EXCEPT !.failed = TRUE] /\ err' = RunError
    /\ UNCHANGED <<kind, recovering, n, current, tree, contexts, proc, log,
              term, verdict, scan, request, status, crashes>>

\* The process or a descendant changes a file of the workspace.
WorkerWrites(f) ==
    /\ kind = "mutation" /\ proc.alive /\ now < MaxVersions
    /\ now' = now + 1 /\ ws' = [ws EXCEPT ![f] = now + 1]
    /\ scan' = Dir(ws[f] = Absent)
    /\ UNCHANGED <<pc, kind, recovering, n, current, root, deleted, contexts,
              proc, log, outcome, request, status, crashes>>
WorkerDeletes(f) ==
    /\ kind = "mutation" /\ proc.alive /\ ws[f] # Absent
    /\ ws' = [ws EXCEPT ![f] = Absent] /\ deleted' = deleted \cup {f}
    /\ scan' = Dir(TRUE)
    /\ UNCHANGED <<pc, kind, recovering, n, current, root, now, contexts,
              proc, log, outcome, request, status, crashes>>

\* Mutant: nothing is cut.
Uncapped(k) ==
    [kept |-> log.kept + k, drained |-> log.drained + k, truncated |-> FALSE]
\* Mutant: a chunk that fills the log exactly counts as truncated.
CappedEarly(k) ==
    LET left == Cap - log.kept IN
    [kept |-> log.kept + (IF k > left THEN left ELSE k),
     drained |-> log.drained + k, truncated |-> log.truncated \/ k >= left]
\* capWriter.Write of a chunk of k bytes.
Capped(k) ==
    LET left == Cap - log.kept IN
    [kept |-> log.kept + (IF k > left THEN left ELSE k),
     drained |-> log.drained + k, truncated |-> log.truncated \/ k > left]
Drain(k) ==
    /\ pc = "running" /\ proc.alive /\ log.drained + k <= MaxOutput
    /\ log' = Capped(k)
    /\ UNCHANGED <<pc, kind, recovering, n, current, tree, contexts, proc,
              outcome, scan, request, status, crashes>>

\* Exit codes: 0, 1 (an ordinary failure), 2 (reserved: unavailable).
ProcessExits(code, children) ==
    /\ proc.st = "running"
    /\ proc' = [st |-> "exited", code |-> code, alive |-> children]
    /\ scan' = NoScan
    /\ UNCHANGED <<pc, kind, recovering, n, current, tree, contexts, log,
              outcome, request, status, crashes>>
\* A done context kills the process.  Mutant: only a stop request does.
KillsOnStop == timed = "canceled"
KillsOn == timed # "nil"
ProcessKilled ==
    /\ pc = "running" /\ proc.st = "running" /\ KillsOn
    /\ \E left \in BOOLEAN :
          proc' = [st |-> "killed", code |-> 9, alive |-> left]
    /\ scan' = NoScan
    /\ UNCHANGED <<pc, kind, recovering, n, current, tree, contexts, log,
              outcome, request, status, crashes>>
\* Wait returns.  Descendants may still hold the pipes when WaitDelay is
\* over: "late", an error only of a process that exited with 0.
WaitReturns(late) ==
    /\ pc = "running" /\ proc.st \in {"exited", "killed"}
    /\ late => proc.alive
    /\ result' = [started |-> TRUE, exit |-> proc.code,
                  timedOut |-> timed = "deadline",
                  canceled |-> active # "nil", truncated |-> log.truncated,
                  failed |-> /\ late /\ proc.code = 0
                             /\ timed # "deadline" /\ active = "nil"]
    /\ err' = IF result'.failed THEN RunError ELSE "nil"
    /\ pc' = "terminate" /\ timed' = "nil" /\ scan' = NoScan
    /\ UNCHANGED <<kind, recovering, n, current, tree, monitor, active, proc,
              log, term, verdict, request, status, crashes>>

-----------------------------------------------------------------------------
(* Afterwards, whatever happened.  These calls ignore the contexts.        *)

\* A failure: an activity goes on to record it, a recovery just returns.
GoesOn(next, code) ==
    /\ pc' = IF recovering THEN "crashed" ELSE next
    /\ err' = IF recovering THEN err ELSE code
    /\ recovering' = FALSE
\* Terminate kills every descendant, or fails.  A recovery knows the outcome.
Terminate ==
    /\ pc = "terminate"
    /\ \/ /\ proc' = [proc EXCEPT !.alive = FALSE, !.st =
                IF @ = "running" THEN "killed" ELSE @]
          /\ pc' = IF ~recovering
                   THEN IF kind = "mutation" THEN "decide" ELSE "cleanup"
                   ELSE IF kind = "mutation" THEN "capture" ELSE "complete"
          /\ UNCHANGED <<outcome, recovering>>
       \/ /\ "RUNNER_UNAVAILABLE" \in Faults
          /\ GoesOn("decide", "RUNNER_UNAVAILABLE") /\ term' = ~recovering
          /\ UNCHANGED <<proc, result, verdict>>
    /\ UNCHANGED <<kind, n, current, tree, contexts, log, scan, request,
              status, crashes>>
\* The tree of a CI run is discarded before its outcome is decided.
Cleanup ==
    /\ pc = "cleanup" /\ pc' = "decide"
    /\ \/ UNCHANGED outcome
       \/ /\ "RUNNER_UNAVAILABLE" \in Faults
          /\ err' = "RUNNER_UNAVAILABLE" /\ term' = TRUE
          /\ UNCHANGED <<result, verdict>>
    /\ UNCHANGED <<kind, recovering, n, current, tree, contexts, proc, log,
              scan, request, status, crashes>>

FailStopError == err = "STORAGE_FAILURE"
\* What runCI records.  Mutant: a stop request is not asked about.
RunStatusUnasked ==
    LET r == result
        expired == active = "deadline" /\ ~term /\ ~FailStopError
    IN
    IF err # "nil" /\ ~expired THEN "TERMINATED"
    ELSE IF expired \/ r.timedOut THEN "TIMEOUT"
    ELSE IF r.started /\ r.exit = 0 /\ ~r.canceled THEN "PASS" ELSE "FAIL"
RunStatus ==
    LET r == result
        expired == active = "deadline" /\ ~term /\ ~FailStopError
    IN
    IF err # "nil" /\ ~expired THEN "TERMINATED"
    ELSE IF monitor /\ active # "deadline" THEN "TERMINATED"
    ELSE IF expired \/ r.timedOut THEN "TIMEOUT"
    ELSE IF r.started /\ r.exit = 0 /\ ~r.canceled THEN "PASS" ELSE "FAIL"
\* Mutant: a worker that returned counts, whatever else happened.
AttemptStatusReturned ==
    IF result.started /\ result.exit = 0 /\ err = "nil" THEN "RETURNED"
    ELSE IF err # "nil" THEN "TERMINATED" ELSE "INTERRUPTED"
\* What attempt records of a worker.
AttemptStatus ==
    LET r == result
        timing == ~r.failed /\ ~term /\ ~FailStopError
    IN
    IF timing /\ active = "deadline" THEN "TIMED_OUT"
    ELSE IF timing /\ monitor THEN "INTERRUPTED"
    ELSE IF err # "nil" THEN "TERMINATED"
    ELSE IF r.canceled THEN "INTERRUPTED"
    ELSE IF r.timedOut THEN "TIMED_OUT"
    ELSE IF r.exit = 2 THEN "TERMINATED"
    ELSE IF r.exit # 0 THEN "CRASHED" ELSE "RETURNED"
\* The outcome is decided before the workspace is captured: a stop request
\* that comes later finds it decided.
Decide ==
    /\ pc = "decide"
    /\ pc' = IF kind = "mutation" /\ ~term THEN "capture" ELSE "complete"
    /\ verdict' = IF kind = "ci" THEN RunStatus ELSE AttemptStatus
    /\ UNCHANGED <<kind, recovering, n, current, tree, contexts, proc, log,
              result, err, term, scan, request, status, crashes>>

\* files.py capture: inventory, copy, second inventory, file by file.  The
\* host runs it after Terminate, "attempt diff" while the worker runs.  Two
\* readers do not interfere: one is followed at a time, an observer until the
\* process ends.
\* Mutant: nobody compares the id in input.json.
AnyTree == root # 0
OwnTree == root = n
ScanStart(by) ==
    /\ kind = "mutation" /\ OwnTree
    /\ IF by = "host" THEN pc = "capture" /\ scan.by # "host"
       ELSE pc = "running" /\ proc.st = "running" /\ scan.at = "off"
    /\ scan' = [NoScan EXCEPT !.by = by, !.at = "inventory", !.of = root]
    /\ UNCHANGED <<pc, kind, recovering, n, current, tree, contexts, proc,
              log, outcome, request, status, crashes>>
Advance(s, next) ==
    scan' = IF s.file < MaxFiles THEN [s EXCEPT !.file = @ + 1]
            ELSE [s EXCEPT !.file = 1, !.at = next]
ScanInventory ==
    /\ scan.at = "inventory"
    /\ Advance([scan EXCEPT !.inv[scan.file] = ws[scan.file]], "copy")
    /\ UNCHANGED <<pc, kind, recovering, n, current, tree, contexts, proc,
              log, outcome, request, status, crashes>>
Unchanged == ws[scan.file] = scan.inv[scan.file]
ScanCopy ==
    /\ scan.at = "copy" /\ Unchanged
    /\ Advance([scan EXCEPT !.snap[scan.file] = ws[scan.file], !.then = ws],
               "verify")
    /\ UNCHANGED <<pc, kind, recovering, n, current, tree, contexts, proc,
              log, outcome, request, status, crashes>>
\* Mutant: the second inventory is not compared.
NotVerified == TRUE
Verified == Unchanged /\ ~scan.moved
ScanVerify ==
    /\ scan.at = "verify" /\ Verified
    /\ Advance(scan, "accepted")
    /\ UNCHANGED <<pc, kind, recovering, n, current, tree, contexts, proc,
              log, outcome, request, status, crashes>>
\* The workspace changed, or belongs to another Attempt.
ScanRefused ==
    /\ \/ scan.at = "copy" /\ ~Unchanged
       \/ scan.at = "verify" /\ ~Verified
       \/ pc = "capture" /\ scan.by # "host" /\ ~OwnTree
    /\ scan' = NoScan
    /\ pc' = IF pc = "capture" THEN "complete" ELSE pc
    /\ UNCHANGED <<kind, recovering, n, current, tree, contexts, proc, log,
              outcome, request, status, crashes>>
Observed ==                             \* "attempt diff" prints and leaves
    /\ scan.by = "observer" /\ scan.at = "accepted" /\ scan' = NoScan
    /\ UNCHANGED <<pc, kind, recovering, n, current, tree, contexts, proc,
              log, outcome, request, status, crashes>>
Captured == scan.by = "host" /\ scan.at = "accepted"
\* artifact.Publish stores the tar under its final name.
Publish ==
    /\ pc = "capture" /\ Captured /\ pc' = "complete"
    /\ UNCHANGED <<kind, recovering, n, current, tree, contexts, proc, log,
              outcome, scan, request, status, crashes>>
\* The capture command fails, or Publish does.
CaptureFails ==
    /\ pc = "capture" /\ \E code \in Failures : GoesOn("complete", code)
    /\ verdict' = IF recovering THEN verdict ELSE "TERMINATED"
    /\ scan' = NoScan
    /\ UNCHANGED <<kind, n, current, tree, contexts, proc, log, result, term,
              request, status, crashes>>
\* The result of a worker that returned cannot be fetched.
ResultFails ==
    /\ pc = "complete" /\ ~recovering /\ verdict = "RETURNED"
    /\ "RUNNER_UNAVAILABLE" \in Faults
    /\ verdict' = "TERMINATED" /\ err' = "RUNNER_UNAVAILABLE"
    /\ UNCHANGED <<pc, kind, recovering, n, current, tree, contexts, proc,
              log, result, term, scan, request, status, crashes>>

\* Complete, FinishCI or recovery's transaction: the outcome is recorded, and
\* what was captured becomes the Change's current Artifact.  Complete records
\* an Attempt that was interrupted or cancelled as such, whatever it decided.
Record ==
    /\ pc = "complete" /\ pc' = "recorded"
    /\ status' = IF recovering
                 THEN IF kind = "ci" THEN "TERMINATED" ELSE "CRASHED"
                 ELSE IF kind = "mutation" /\ requested THEN "INTERRUPTED"
                 ELSE verdict
    /\ current' = IF Captured THEN scan.snap ELSE current
    /\ UNCHANGED <<kind, recovering, n, tree, contexts, proc, log, outcome,
              scan, request, crashes>>
\* A recovery goes on until it has discarded the tree: run.lock stays before.
\* After a failed Terminate the runner is blocked until an operator resolves
\* it, who is assumed to have ended what survived.
Return ==
    /\ pc = "recorded" /\ pc' = "idle"
    /\ IF recovering THEN root' = 0 /\ ws' = Empty /\ deleted' = {}
       ELSE UNCHANGED <<root, ws, deleted>>
    /\ kind' = "none" /\ recovering' = FALSE /\ status' = "none"
    /\ monitor' = FALSE /\ active' = "nil" /\ timed' = "nil"
    /\ proc' = NoProc /\ log' = NoLog
    /\ result' = NoResult /\ err' = "nil" /\ term' = FALSE
    /\ verdict' = "none" /\ requested' = FALSE /\ stopped' = FALSE
    /\ scan' = NoScan
    /\ UNCHANGED <<n, current, now, crashes>>

\* The scheduler is killed, or the recovery; what it started goes on.
Crash ==
    /\ pc \notin {"idle", "crashed", "recorded"}
    /\ crashes < MaxCrashes /\ crashes' = crashes + 1
    /\ GivesUp
Recover ==
    /\ pc = "crashed" /\ pc' = "terminate" /\ recovering' = TRUE
    /\ UNCHANGED <<kind, n, current, tree, contexts, proc, log, outcome,
              scan, request, status, crashes>>

Scan == ScanInventory \/ ScanCopy \/ ScanVerify
Host ==
    \/ Check \/ Discard \/ PrepareInput \/ \E f \in Files : PrepareFile(f)
    \/ Prepared \/ SetupFails \/ Launch \/ NeverStarts \/ LaunchFails
    \/ ProcessKilled
    \/ \E late \in BOOLEAN : WaitReturns(late)
    \/ Terminate \/ Cleanup \/ Decide
    \/ ScanStart("host") \/ (scan.by = "host" /\ Scan)
    \/ (pc = "capture" /\ ScanRefused) \/ Publish \/ CaptureFails
    \/ ResultFails \/ Record \/ Return
Next ==
    \/ \E k \in Kinds : StartActivity(k)
    \/ RequestStop \/ MonitorCancels \/ LeaseExpires \/ TimerExpires
    \/ \E f \in Files : WorkerWrites(f) \/ WorkerDeletes(f)
    \/ \E k \in 1..2 : Drain(k)
    \/ \E code \in 0..2, children \in BOOLEAN : ProcessExits(code, children)
    \/ Host \/ ScanStart("observer") \/ Scan \/ ScanRefused \/ Observed
    \/ TransactionFails \/ Crash \/ Recover
Spec == Init /\ [][Next]_vars
\* A scheduler that is not killed goes on, and the timer of a process fires.
FairSpec == Spec /\ WF_vars(Host) /\ WF_vars(TimerExpires)

-----------------------------------------------------------------------------
Versions == 0..MaxVersions
ProcRecord == [st : {"none", "running", "exited", "killed"},
               code : {0, 1, 2, 9}, alive : BOOLEAN]
LogRecord == [kept : 0..Cap, drained : 0..MaxOutput, truncated : BOOLEAN]
ResultRecord ==
    [started : BOOLEAN, exit : {0, 1, 2, 9}, timedOut : BOOLEAN,
     canceled : BOOLEAN, truncated : BOOLEAN, failed : BOOLEAN]
ScanRecord ==
    [by : {"none", "host", "observer"},
     at : {"off", "inventory", "copy", "verify", "accepted"},
     inv : [Files -> Versions], snap : [Files -> Versions],
     then : [Files -> Versions], file : Files, moved : BOOLEAN,
     of : 0..MaxActivities]
Statuses == {"none", "PASS", "FAIL", "TIMEOUT", "TERMINATED",
             "RETURNED", "CRASHED", "TIMED_OUT", "INTERRUPTED"}
HostOK ==
    /\ pc \in {"idle", "check", "discard", "prepare", "launch", "running",
               "terminate", "cleanup", "decide", "capture", "complete",
               "recorded", "crashed"}
    /\ kind \in {"none"} \cup Kinds /\ recovering \in BOOLEAN
    /\ n \in 0..MaxActivities
    /\ verdict \in Statuses /\ status \in Statuses
    /\ requested \in BOOLEAN /\ stopped \in BOOLEAN
    /\ crashes \in 0..MaxCrashes
FilesOK ==
    /\ current \in [Files -> Versions] /\ root \in 0..MaxActivities
    /\ ws \in [Files -> Versions] /\ deleted \subseteq Files
    /\ now \in Versions
ContextsOK ==
    /\ monitor \in BOOLEAN
    /\ active \in {"nil", "deadline", "canceled"}
    /\ timed \in {"nil", "deadline", "canceled"}
ProcessOK ==
    /\ proc \in ProcRecord /\ log \in LogRecord /\ result \in ResultRecord
    /\ err \in {"nil", "RUNNER_UNAVAILABLE", "INTERNAL_ERROR",
                "STORAGE_FAILURE"}
    /\ term \in BOOLEAN
TypeOK ==
    HostOK /\ FilesOK /\ ContextsOK /\ ProcessOK /\ scan \in ScanRecord

\* What is recorded as the program's own result is its own: a process that a
\* deadline or a stop request killed, or that never ran, is never PASS, FAIL,
\* RETURNED or (outside recovery) CRASHED, whichever of exit, deadline and
\* stop came first (exec.go, Run; scheduler.go, attempt and runCI).
ResultIsOwn ==
    pc = "recorded" /\ ~recovering =>
        /\ status \in {"PASS", "RETURNED"} =>
              proc.st = "exited" /\ proc.code = 0
        /\ status \in {"FAIL", "CRASHED"} =>
              proc.st = "exited" /\ proc.code # 0

\* A stop request wins if it is seen before the lease is over and before the
\* outcome is decided, and an interrupt or a cancellation of an Attempt up to
\* the transaction that records it: it is recorded as stopped even if its
\* process had already returned a result (scheduler.go, attempt and runCI;
\* runtime.go, Complete).  A pause that comes later, while the workspace is
\* captured, leaves the decided outcome as it is.
StopIsNoVerdict ==
    pc = "recorded" /\ ~recovering /\ (stopped \/ requested) =>
        status \in {"TERMINATED", "INTERRUPTED"}

\* The log holds what was drained up to the cap, and the record says it was
\* cut exactly when it was, however the chunks fall (exec.go, capWriter).
TruncationTold ==
    result.started =>
        /\ result.truncated = (log.drained > Cap)
        /\ log.kept = IF log.drained > Cap THEN Cap ELSE log.drained

\* A capture that is accepted is the workspace as it was at one moment, with
\* the worker writing and deleting files all the while (files.py, capture).
SnapshotConsistent ==
    scan.at = "accepted" => scan.snap = scan.then

\* What becomes the current Artifact of a Change comes from the tree of the
\* activity that is recorded, also when the activity never uploaded one and
\* an earlier tree is still there (files.py, capture; recover.go).
CapturesOwn ==
    pc = "recorded" /\ Captured => scan.of = n

\* An activity ends, whatever its process does (exec.go, Run).
ActivityEnds ==
    pc \notin {"idle", "crashed"} ~> pc \in {"idle", "crashed"}

\* The current Artifact loses no file that a worker did not delete: pause,
\* interrupt and recovery preserve work (docs/operations.md).
WorkPreserved ==
    [][\A f \in Files : current[f] # Absent /\ current'[f] = Absent
                           => f \in deleted]_vars

=============================================================================
