--------------------------- MODULE ActivityProofs ---------------------------
(***************************************************************************)
(* The safety properties of Activity, for every number of files, versions, *)
(* activities and crashes, every log cap and every set of faults.          *)
(***************************************************************************)
EXTENDS Activity, TLAPS

USE ActivityAssumption DEF Files, Absent, Versions

-----------------------------------------------------------------------------
(* The inductive invariant.                                                *)

Setup == {"check", "discard", "prepare", "launch"}
After == {"terminate", "cleanup", "decide", "capture", "complete", "recorded"}

\* What an activity and its contexts hold before, while and after its process
\* runs.  Only a crash leaves a process behind that nobody waits for.
Idle ==
    pc = "idle" => /\ ~monitor /\ active = "nil"
                   /\ proc.st = "none" /\ err = "nil" /\ ~term
                   /\ ~recovering
Contexts ==
    /\ active = "canceled" => monitor
    /\ timed # "nil" => pc = "running"
    /\ timed = "canceled" => active = "canceled"
    /\ pc = "running" /\ active # "nil" => timed # "nil"
Process ==
    /\ pc \in Setup => proc.st = "none"
    /\ pc = "running" /\ proc.st = "killed" => proc.code = 9 /\ timed # "nil"
    /\ proc.st = "running" => pc \in {"running", "crashed"} \/ recovering
    /\ recovering => pc \in {"terminate", "capture", "complete", "recorded"}
\* An error, a result or both: a process that was killed was told to stop.
Results ==
    /\ pc \in {"idle", "running", "crashed"} \cup Setup \/ recovering =>
          ~result.started /\ ~term
    /\ pc \in {"idle", "running"} \cup Setup => err = "nil" /\ ~recovering
    /\ pc \in After /\ ~recovering /\ ~result.started =>
          err # "nil" \/ result.timedOut \/ result.canceled
    /\ ~recovering /\ term => err # "nil"
    /\ result.failed => err # "nil"
    /\ result.canceled => active # "nil"
    /\ result.started =>
          /\ proc.st \in {"exited", "killed"} /\ result.exit = proc.code
          /\ proc.st = "killed" =>
                proc.code = 9 /\ (result.timedOut \/ result.canceled)
\* A stop that was seen stays the error of its context; only an Attempt is
\* interrupted or cancelled.
Stops ==
    /\ stopped => monitor /\ active = "canceled"
    /\ requested => kind = "mutation"
    /\ pc = "idle" => ~requested /\ ~stopped
\* What has been decided says what ResultIsOwn and StopIsNoVerdict ask of
\* what is recorded.
Own(outcomeStatus) ==
    /\ outcomeStatus \in {"PASS", "RETURNED"} =>
          proc.st = "exited" /\ proc.code = 0
    /\ outcomeStatus \in {"FAIL", "CRASHED"} =>
          proc.st = "exited" /\ proc.code # 0
Decided ==
    pc \in {"capture", "complete"} /\ ~recovering =>
        Own(verdict) /\ (stopped => verdict \in {"TERMINATED", "INTERRUPTED"})
Recorded == ResultIsOwn /\ StopIsNoVerdict
Log ==
    /\ log.truncated = (log.drained > Cap)
    /\ log.kept = IF log.drained > Cap THEN Cap ELSE log.drained
    /\ result.started => result.truncated = log.truncated

\* No version is ever used twice: a file that was rewritten differs from what
\* a scan has seen of it.
Clock ==
    \A f \in Files : /\ ws[f] <= now /\ current[f] <= now
                     /\ scan.inv[f] <= now /\ scan.snap[f] <= now
\* A file that was not as inventoried when the last one was copied shows that
\* it is not, or in the directory, until the second inventory reaches it.
Copying ==
    /\ scan.at = "copy" =>
          \A f \in 1..(scan.file - 1) : scan.snap[f] = scan.inv[f]
    /\ scan.at = "verify" => \A f \in Files :
          /\ scan.snap[f] = scan.inv[f]
          /\ f < scan.file => scan.then[f] = scan.inv[f]
          /\ ~scan.moved =>
                scan.then[f] = scan.inv[f] \/ ws[f] # scan.inv[f]
HostScan ==
    scan.by = "host" =>
        scan.of = n /\ pc \in {"capture", "complete", "recorded"}

Inv ==
    /\ TypeOK /\ Idle /\ Contexts /\ Process /\ Results /\ Stops
    /\ Decided /\ Recorded /\ Log
    /\ Clock /\ Copying /\ SnapshotConsistent /\ HostScan

-----------------------------------------------------------------------------
(* Types.                                                                  *)

\* The fresh values are well-typed.
LEMMA FreshTypes ==
    /\ Empty \in [Files -> Versions] /\ NoScan \in ScanRecord
    /\ NoProc \in ProcRecord /\ NoLog \in LogRecord
    /\ NoResult \in ResultRecord
  <1>1. Empty \in [Files -> Versions]
    BY DEF Empty
  <1>2. NoScan \in ScanRecord
    BY <1>1 DEF NoScan, ScanRecord
  <1> QED BY <1>1, <1>2 DEF NoProc, NoLog, NoResult, ProcRecord, LogRecord,
                            ResultRecord
\* A change of the directory at most marks a scan.
LEMMA DirType ==
    ASSUME scan \in ScanRecord, NEW changed \in BOOLEAN
    PROVE  /\ Dir(changed) \in ScanRecord
           /\ Dir(changed) = [scan EXCEPT !.moved = Dir(changed).moved]
           /\ scan.at \notin {"off", "accepted"} =>
                 Dir(changed).moved = (scan.moved \/ changed)
  BY DEF ScanRecord, Dir
\* So does going on to the next file or phase.
LEMMA AdvanceType ==
    ASSUME NEW s \in ScanRecord, NEW next \in {"copy", "verify", "accepted"},
           Advance(s, next)
    PROVE  scan' \in ScanRecord
  <1>1. CASE s.file < MaxFiles
    <2>0. s.file \in Files
      BY DEF ScanRecord
    <2>1. s.file + 1 \in Files
      BY <1>1, <2>0
    <2>2. scan' = [s EXCEPT !.file = s.file + 1]
      BY <1>1 DEF Advance
    <2> QED BY <2>1, <2>2 DEF ScanRecord
  <1>2. CASE ~(s.file < MaxFiles)
    <2>1. 1 \in Files
      OBVIOUS
    <2>2. scan' = [s EXCEPT !.file = 1, !.at = next]
      BY <1>2 DEF Advance
    <2> QED BY <2>1, <2>2 DEF ScanRecord
  <1> QED BY <1>1, <1>2
\* capWriter keeps at most the cap.
LEMMA CappedType ==
    ASSUME log \in LogRecord, NEW k \in 1..2, log.drained + k <= MaxOutput
    PROVE  Capped(k) \in LogRecord
  BY DEF LogRecord, Capped

LEMMA TypeInit == Init => TypeOK
  <1> SUFFICES ASSUME Init PROVE TypeOK
    OBVIOUS
  <1>1. HostOK
    <2>1. n \in 0..MaxActivities /\ crashes \in 0..MaxCrashes
      BY DEF Init
    <2> QED BY <2>1, Zenon DEF Init, HostOK, Statuses
  <1>2. FilesOK
    BY FreshTypes DEF Init, FilesOK
  <1>3. ContextsOK
    BY DEF Init, ContextsOK
  <1>4. ProcessOK
    BY FreshTypes DEF Init, ProcessOK
  <1> QED BY <1>1, <1>2, <1>3, <1>4, FreshTypes DEF Init, TypeOK

\* What a step leaves alone stays well-typed.
LEMMA SameTypes ==
    ASSUME TypeOK
    PROVE  /\ UNCHANGED <<pc, kind, recovering, n, outcome, request, status,
                          crashes>> => HostOK'
           /\ UNCHANGED <<current, tree>> => FilesOK'
           /\ UNCHANGED contexts => ContextsOK'
           /\ UNCHANGED <<proc, log, outcome>> => ProcessOK'
  <1>1. UNCHANGED <<pc, kind, recovering, n, outcome, request, status,
                   crashes>> => HostOK'
    BY DEF TypeOK, HostOK, outcome, request
  <1>2. UNCHANGED <<current, tree>> => FilesOK'
    BY DEF TypeOK, FilesOK, tree
  <1>3. UNCHANGED contexts => ContextsOK'
    BY DEF TypeOK, ContextsOK, contexts
  <1>4. UNCHANGED <<proc, log, outcome>> => ProcessOK'
    BY DEF TypeOK, ProcessOK, outcome
  <1> QED BY <1>1, <1>2, <1>3, <1>4

\* Every step of Activity is well-typed.
LEMMA TypeStep ==
    ASSUME TypeOK, [Next]_vars
    PROVE  TypeOK'
  <1> USE SameTypes DEF outcome, request
  <1>0. HostOK /\ FilesOK /\ ContextsOK /\ ProcessOK /\ scan \in ScanRecord
    BY DEF TypeOK
  <1> SUFFICES HostOK' /\ FilesOK' /\ ContextsOK' /\ ProcessOK'
                 /\ scan' \in ScanRecord
    BY DEF TypeOK
  <1>1. CASE \E k \in Kinds : StartActivity(k)
    <2>1. PICK k \in Kinds : StartActivity(k)
      BY <1>1
    <2>2. HostOK'
      BY <1>0, <2>1 DEF StartActivity, HostOK
    <2> QED BY <1>0, <2>1, <2>2 DEF StartActivity
  <1>2. CASE MonitorCancels
    <2>1. ContextsOK'
      BY <1>0, <1>2 DEF MonitorCancels, First, ContextsOK
    <2>2. HostOK'
      <3>1. stopped' \in BOOLEAN
        BY <1>0, <1>2 DEF MonitorCancels, HostOK
      <3> QED BY <1>0, <1>2, <3>1 DEF MonitorCancels, HostOK
    <2> QED BY <1>0, <1>2, <2>1, <2>2 DEF MonitorCancels
  <1>3. CASE LeaseExpires
    <2>1. ContextsOK'
      BY <1>0, <1>3 DEF LeaseExpires, First, ContextsOK
    <2> QED BY <1>0, <1>3, <2>1 DEF LeaseExpires
  <1>4. CASE TimerExpires
    <2>1. ContextsOK'
      BY <1>0, <1>4 DEF TimerExpires, ContextsOK
    <2> QED BY <1>0, <1>4, <2>1 DEF TimerExpires
  <1>5. CASE \E f \in Files : WorkerWrites(f)
    <2>1. PICK f \in Files : WorkerWrites(f)
      BY <1>5
    <2>2. scan' \in ScanRecord
      BY <1>0, <2>1, DirType DEF WorkerWrites, FilesOK
    <2>3. FilesOK'
      BY <1>0, <2>1 DEF WorkerWrites, FilesOK
    <2> QED BY <1>0, <2>1, <2>2, <2>3 DEF WorkerWrites, contexts, outcome
  <1>6. CASE \E f \in Files : WorkerDeletes(f)
    <2>1. PICK f \in Files : WorkerDeletes(f)
      BY <1>6
    <2>2. scan' \in ScanRecord
      BY <1>0, <2>1, DirType DEF WorkerDeletes
    <2>3. FilesOK'
      BY <1>0, <2>1 DEF WorkerDeletes, FilesOK
    <2> QED BY <1>0, <2>1, <2>2, <2>3 DEF WorkerDeletes
  <1>7. CASE \E k \in 1..2 : Drain(k)
    <2>1. PICK k \in 1..2 : Drain(k)
      BY <1>7
    <2>2. ProcessOK'
      BY <1>0, <2>1, CappedType DEF Drain, ProcessOK, outcome
    <2> QED BY <1>0, <2>1, <2>2 DEF Drain
  <1>8. CASE \E code \in 0..2, children \in BOOLEAN :
                ProcessExits(code, children)
    <2>1. PICK code \in 0..2, children \in BOOLEAN :
             ProcessExits(code, children)
      BY <1>8
    <2>2. ProcessOK'
      BY <1>0, <2>1 DEF ProcessExits, ProcessOK, ProcRecord, outcome
    <2>3. scan' \in ScanRecord
      BY <2>1, FreshTypes DEF ProcessExits
    <2> QED BY <1>0, <2>1, <2>2, <2>3 DEF ProcessExits
  <1>9. CASE Check \/ Prepared
    <2>1. HostOK'
      BY <1>0, <1>9 DEF Check, Prepared, HostOK
    <2> QED BY <1>0, <1>9, <2>1 DEF Check, Prepared
  <1>10. CASE SetupFails
    <2>1. HostOK'
      BY <1>0, <1>10 DEF SetupFails, HostOK
    <2>2. ProcessOK'
      BY <1>0, <1>10 DEF SetupFails, Failures, ProcessOK
    <2> QED BY <1>0, <1>10, <2>1, <2>2 DEF SetupFails
  <1>11. CASE Launch
    <2>1. HostOK'
      BY <1>0, <1>11 DEF Launch, HostOK
    <2>2. ProcessOK'
      BY <1>0, <1>11 DEF Launch, ProcessOK, ProcRecord, outcome
    <2> QED BY <1>0, <1>11, <2>1, <2>2 DEF Launch
  <1>12. CASE Discard
    <2>1. HostOK'
      BY <1>0, <1>12 DEF Discard, HostOK
    <2>2. FilesOK'
      <3>1. /\ root' = 0 \/ UNCHANGED root
            /\ ws' = Empty \/ UNCHANGED ws
            /\ deleted' = {} \/ UNCHANGED deleted
            /\ UNCHANGED <<current, now>>
        BY <1>12 DEF Discard
      <3>2. root' \in 0..MaxActivities
        BY <1>0, <3>1 DEF FilesOK
      <3>3. deleted' \subseteq Files
        BY <1>0, <3>1, Zenon DEF FilesOK
      <3> HIDE DEF Files, Versions
      <3> QED BY <1>0, <3>1, <3>2, <3>3, FreshTypes, Zenon DEF FilesOK
    <2>3. scan' \in ScanRecord
      BY <1>0, <1>12, DirType DEF Discard
    <2> QED BY <1>0, <1>12, <2>1, <2>2, <2>3 DEF Discard, tree
  <1>13. CASE PrepareInput
    <2>1. FilesOK'
      BY <1>0, <1>13 DEF PrepareInput, FilesOK, HostOK
    <2>2. scan' \in ScanRecord
      BY <1>0, <1>13, DirType DEF PrepareInput
    <2> QED BY <1>0, <1>13, <2>1, <2>2 DEF PrepareInput
  <1>14. CASE \E f \in Files : PrepareFile(f)
    <2>1. PICK f \in Files : PrepareFile(f)
      BY <1>14
    <2>2. FilesOK'
      BY <1>0, <2>1 DEF PrepareFile, FilesOK
    <2>3. scan' \in ScanRecord
      BY <1>0, <2>1, DirType DEF PrepareFile
    <2> QED BY <1>0, <2>1, <2>2, <2>3 DEF PrepareFile
  <1>15. CASE ProcessKilled
    <2>1. ProcessOK'
      BY <1>0, <1>15 DEF ProcessKilled, ProcessOK, ProcRecord, outcome
    <2>2. scan' \in ScanRecord
      BY <1>15, FreshTypes DEF ProcessKilled
    <2> QED BY <1>0, <1>15, <2>1, <2>2 DEF ProcessKilled
  <1>16. CASE \E late \in BOOLEAN : WaitReturns(late)
    <2>1. PICK late \in BOOLEAN : WaitReturns(late)
      BY <1>16
    <2>2. HostOK'
      BY <1>0, <2>1 DEF WaitReturns, HostOK
    <2>3. ContextsOK'
      BY <1>0, <2>1 DEF WaitReturns, ContextsOK
    <2>4. result' \in ResultRecord
      BY <1>0, <2>1 DEF WaitReturns, ProcessOK, ResultRecord, ProcRecord,
                        LogRecord
    <2>5. ProcessOK'
      BY <1>0, <2>1, <2>4 DEF WaitReturns, RunError, ProcessOK
    <2>6. scan' \in ScanRecord
      BY <1>0, <2>1, FreshTypes DEF WaitReturns
    <2> QED BY <1>0, <2>1, <2>2, <2>3, <2>4, <2>5, <2>6 DEF WaitReturns
  <1>17. CASE Terminate
    <2>1. HostOK'
      BY <1>0, <1>17 DEF Terminate, GoesOn, HostOK
    <2>2. ProcessOK'
      BY <1>0, <1>17 DEF Terminate, GoesOn, ProcessOK, ProcRecord, outcome
    <2> QED BY <1>0, <1>17, <2>1, <2>2 DEF Terminate
  <1>18. CASE Cleanup
    <2>1. HostOK'
      BY <1>0, <1>18 DEF Cleanup, HostOK
    <2>2. ProcessOK'
      BY <1>0, <1>18 DEF Cleanup, ProcessOK, outcome
    <2> QED BY <1>0, <1>18, <2>1, <2>2 DEF Cleanup
  <1>19. CASE ScanStart("host") \/ ScanStart("observer")
    <2>1. scan' \in ScanRecord
      <3>1. PICK by \in {"host", "observer"} : scan' =
               [NoScan EXCEPT !.by = by, !.at = "inventory", !.of = root]
        BY <1>19 DEF ScanStart
      <3>2. NoScan \in ScanRecord /\ root \in 0..MaxActivities
        BY <1>0, FreshTypes DEF FilesOK
      <3> QED BY <3>1, <3>2 DEF ScanRecord
    <2> QED BY <1>0, <1>19, <2>1 DEF ScanStart
  <1>20. CASE ScanInventory
    <2>1. [scan EXCEPT !.inv[scan.file] = ws[scan.file]] \in ScanRecord
      BY <1>0 DEF ScanRecord, FilesOK
    <2>2. scan' \in ScanRecord
      BY <1>0, <1>20, <2>1, AdvanceType DEF ScanInventory
    <2> QED BY <1>0, <1>20, <2>1, <2>2 DEF ScanInventory
  <1>21. CASE ScanCopy
    <2>1. [scan EXCEPT !.snap[scan.file] = ws[scan.file], !.then = ws]
             \in ScanRecord
      BY <1>0 DEF ScanRecord, FilesOK
    <2>2. scan' \in ScanRecord
      BY <1>0, <1>21, <2>1, AdvanceType DEF ScanCopy
    <2> QED BY <1>0, <1>21, <2>1, <2>2 DEF ScanCopy
  <1>22. CASE ScanVerify
    <2>1. scan' \in ScanRecord
      BY <1>0, <1>22, AdvanceType DEF ScanVerify
    <2> QED BY <1>0, <1>22, <2>1 DEF ScanVerify
  <1>23. CASE ScanRefused \/ Observed
    <2>1. HostOK'
      BY <1>0, <1>23 DEF ScanRefused, Observed, HostOK
    <2>2. scan' \in ScanRecord
      BY <1>0, <1>23, FreshTypes DEF ScanRefused, Observed
    <2> QED BY <1>0, <1>23, <2>1, <2>2 DEF ScanRefused, Observed
  <1>24. CASE Publish
    <2>1. HostOK'
      BY <1>0, <1>24 DEF Publish, HostOK
    <2> QED BY <1>0, <1>24, <2>1 DEF Publish
  <1>25. CASE CaptureFails
    <2>1. HostOK'
      BY <1>0, <1>25 DEF CaptureFails, GoesOn, HostOK, Statuses
    <2>2. ProcessOK'
      BY <1>0, <1>25 DEF CaptureFails, GoesOn, Failures, ProcessOK
    <2>3. scan' \in ScanRecord
      BY <1>0, <1>25, FreshTypes DEF CaptureFails
    <2> QED BY <1>0, <1>25, <2>1, <2>2, <2>3 DEF CaptureFails
  <1>26. CASE Record
    <2>1. HostOK'
      BY <1>0, <1>26 DEF Record, HostOK, Statuses
    <2>2. FilesOK'
      BY <1>0, <1>26 DEF Record, FilesOK, ScanRecord, tree
    <2> QED BY <1>0, <1>26, <2>1, <2>2 DEF Record, tree
  <1>27. CASE Return
    <2>1. HostOK'
      BY <1>0, <1>27 DEF Return, HostOK, Statuses
    <2>2. FilesOK'
      <3>1. /\ root' = 0 \/ UNCHANGED root
            /\ ws' = Empty \/ UNCHANGED ws
            /\ deleted' = {} \/ UNCHANGED deleted
            /\ UNCHANGED <<current, now>>
        BY <1>27 DEF Return
      <3>2. root' \in 0..MaxActivities
        BY <1>0, <3>1 DEF FilesOK
      <3>3. deleted' \subseteq Files
        BY <1>0, <3>1, Zenon DEF FilesOK
      <3> HIDE DEF Files, Versions
      <3> QED BY <1>0, <3>1, <3>2, <3>3, FreshTypes, Zenon DEF FilesOK
    <2>3. ContextsOK'
      BY <1>0, <1>27 DEF Return, ContextsOK
    <2>4. ProcessOK'
      BY <1>0, <1>27, FreshTypes DEF Return, ProcessOK
    <2>5. scan' \in ScanRecord
      BY <1>0, <1>27, FreshTypes DEF Return
    <2> QED BY <1>0, <1>27, <2>1, <2>2, <2>3, <2>4, <2>5 DEF Return
  <1>28. CASE GivesUp /\ crashes' \in 0..MaxCrashes
    <2>1. HostOK'
      <3>1. /\ pc' = "crashed" /\ recovering' = FALSE /\ stopped' = FALSE
            /\ verdict' = "none" /\ UNCHANGED <<kind, n, requested, status>>
        BY <1>28 DEF GivesUp
      <3> QED BY <1>0, <1>28, <3>1 DEF HostOK, Statuses
    <2>2. ContextsOK'
      BY <1>0, <1>28 DEF GivesUp, ContextsOK
    <2>3. ProcessOK'
      BY <1>0, <1>28, FreshTypes DEF GivesUp, ProcessOK
    <2>4. scan' \in ScanRecord
      BY <1>0, <1>28, FreshTypes DEF GivesUp
    <2> QED BY <1>0, <1>28, <2>1, <2>2, <2>3, <2>4 DEF GivesUp
  <1>29. CASE Recover
    <2>1. HostOK'
      BY <1>0, <1>29 DEF Recover, HostOK
    <2> QED BY <1>0, <1>29, <2>1 DEF Recover
  <1>30. CASE UNCHANGED vars
    <2> QED BY <1>0, <1>30 DEF vars
  <1>31. CASE RequestStop
    <2>1. HostOK'
      BY <1>0, <1>31 DEF RequestStop, HostOK
    <2> QED BY <1>0, <1>31, <2>1 DEF RequestStop
  <1>32. CASE NeverStarts \/ LaunchFails
    <2>1. HostOK'
      BY <1>0, <1>32 DEF NeverStarts, LaunchFails, HostOK
    <2>2. result' \in ResultRecord
      BY <1>0, <1>32, FreshTypes DEF NeverStarts, LaunchFails, ResultRecord
    <2>3. ProcessOK'
      BY <1>0, <1>32, <2>2 DEF NeverStarts, LaunchFails, RunError, ProcessOK
    <2> QED BY <1>0, <1>32, <2>1, <2>3 DEF NeverStarts, LaunchFails
  <1>33. CASE Decide
    <2>1. verdict' \in Statuses
      BY <1>33 DEF Decide, RunStatus, AttemptStatus, Statuses
    <2>2. HostOK'
      BY <1>0, <1>33, <2>1 DEF Decide, HostOK
    <2>3. ProcessOK'
      BY <1>0, <1>33 DEF Decide, ProcessOK
    <2> QED BY <1>0, <1>33, <2>2, <2>3 DEF Decide
  <1>34. CASE ResultFails
    <2>1. HostOK'
      BY <1>0, <1>34 DEF ResultFails, HostOK, Statuses
    <2>2. ProcessOK'
      BY <1>0, <1>34 DEF ResultFails, ProcessOK
    <2> QED BY <1>0, <1>34, <2>1, <2>2 DEF ResultFails
  <1>35. Crash \/ TransactionFails => GivesUp /\ crashes' \in 0..MaxCrashes
    BY <1>0 DEF Crash, TransactionFails, HostOK
  <1> QED BY <1>1, <1>2, <1>3, <1>4, <1>5, <1>6, <1>7, <1>8, <1>9, <1>10,
             <1>11, <1>12, <1>13, <1>14, <1>15, <1>16, <1>17,
             <1>18, <1>19, <1>20, <1>21, <1>22, <1>23, <1>24,
             <1>25, <1>26, <1>27, <1>28, <1>29, <1>30,
             <1>31, <1>32, <1>33, <1>34, <1>35
          DEF Next, Host, Scan

-----------------------------------------------------------------------------
(* Contexts, process and result.                                           *)

HostInv == Idle /\ Contexts /\ Process /\ Results

LEMMA HostStep ==
    ASSUME TypeOK, HostInv, [Next]_vars
    PROVE  HostInv'
  <1> USE DEF HostInv, Idle, Contexts, Process, Results, Setup, After,
              contexts, outcome
  <1>0. /\ proc \in ProcRecord /\ result \in ResultRecord
        /\ HostOK /\ ContextsOK
    BY DEF TypeOK, ProcessOK
  <1>1. CASE \E k \in Kinds : StartActivity(k)
    BY <1>0, <1>1 DEF StartActivity, HostOK, ContextsOK, ProcRecord,
       ResultRecord
  <1>2. CASE MonitorCancels
    <2>1. /\ pc # "idle"
          /\ UNCHANGED <<pc, recovering, proc, outcome>>
      BY <1>2 DEF MonitorCancels, Busy
    <2>2. active' = IF active = "nil" THEN "canceled" ELSE active
      BY <1>2 DEF MonitorCancels, First
    <2>3. timed' = IF pc = "running" /\ timed = "nil" THEN "canceled"
                   ELSE timed
      BY <1>2 DEF MonitorCancels, First
    <2>4. monitor'
      BY <1>2 DEF MonitorCancels
    <2>5. Contexts'
      BY <2>1, <2>2, <2>3, <2>4
    <2>6. Process' /\ Idle'
      BY <2>1, <2>3
    <2>7. Results'
      BY <2>1, <2>2
    <2> QED BY <2>5, <2>6, <2>7
  <1>3. CASE LeaseExpires
    BY <1>0, <1>3 DEF LeaseExpires, Busy, First, HostOK, ContextsOK,
       ProcRecord, ResultRecord
  <1>4. CASE TimerExpires
    BY <1>0, <1>4 DEF TimerExpires, HostOK, ContextsOK, ProcRecord,
       ResultRecord
  <1>5. CASE \E f \in Files : WorkerWrites(f) \/ WorkerDeletes(f)
    <2>1. UNCHANGED <<pc, recovering, contexts, proc, outcome>>
      BY <1>5 DEF WorkerWrites, WorkerDeletes
    <2> QED BY <2>1
  <1>6. CASE \E k \in 1..2 : Drain(k)
    BY <1>0, <1>6 DEF Drain, HostOK, ContextsOK, ProcRecord,
       ResultRecord
  <1>7. CASE \E code \in 0..2, children \in BOOLEAN :
                ProcessExits(code, children)
    BY <1>0, <1>7 DEF ProcessExits, HostOK, ContextsOK, ProcRecord,
       ResultRecord
  <1>8. CASE Check \/ Prepared \/ Discard
    <2>1. /\ pc \in Setup /\ pc' \in Setup
          /\ UNCHANGED <<recovering, contexts, proc, outcome>>
      BY <1>8 DEF Check, Prepared, Discard
    <2> QED BY <2>1
  <1>9. CASE SetupFails
    BY <1>0, <1>9 DEF SetupFails, Failures, HostOK, ContextsOK, ProcRecord,
       ResultRecord
  <1>10. CASE Launch
    BY <1>0, <1>10 DEF Launch, HostOK, ContextsOK, ProcRecord,
       ResultRecord
  <1>11. CASE PrepareInput \/ \E f \in Files : PrepareFile(f)
    <2>1. UNCHANGED <<pc, recovering, contexts, proc, outcome>>
      BY <1>11 DEF PrepareInput, PrepareFile
    <2> QED BY <2>1
  <1>12. CASE ProcessKilled
    BY <1>0, <1>12 DEF ProcessKilled, KillsOn, HostOK, ContextsOK, ProcRecord,
       ResultRecord
  <1>13. CASE \E late \in BOOLEAN : WaitReturns(late)
    <2>1. PICK late \in BOOLEAN : WaitReturns(late)
      BY <1>13
    <2>2. /\ pc = "running" /\ pc' = "terminate" /\ timed' = "nil"
          /\ proc.st \in {"exited", "killed"}
          /\ UNCHANGED <<recovering, monitor, active, proc, term>>
      BY <2>1 DEF WaitReturns
    <2>3. /\ result'.started /\ result'.exit = proc.code
          /\ result'.timedOut <=> timed = "deadline"
          /\ result'.canceled <=> active # "nil"
          /\ result'.failed => err' # "nil"
      BY <2>1 DEF WaitReturns, RunError
    <2> QED BY <1>0, <2>2, <2>3 DEF ContextsOK
  <1>14. CASE Terminate
    <2>1. pc = "terminate" /\ UNCHANGED contexts
      BY <1>14 DEF Terminate
    <2>2. CASE /\ proc' = [proc EXCEPT !.alive = FALSE, !.st =
                     IF @ = "running" THEN "killed" ELSE @]
               /\ pc' \in {"cleanup", "decide", "capture", "complete"}
               /\ recovering => pc' \in {"capture", "complete"}
               /\ UNCHANGED <<outcome, recovering>>
      <3>1. /\ proc'.st = IF proc.st = "running" THEN "killed" ELSE proc.st
            /\ proc'.code = proc.code
        BY <1>0, <2>2 DEF ProcRecord
      <3> QED BY <1>0, <2>1, <2>2, <3>1
    <2>3. CASE GoesOn("decide", "RUNNER_UNAVAILABLE")
               /\ term' = ~recovering /\ UNCHANGED <<proc, result>>
      BY <1>0, <2>1, <2>3 DEF GoesOn
    <2> QED BY <1>14, <2>2, <2>3 DEF Terminate
  <1>15. CASE Cleanup
    BY <1>0, <1>15 DEF Cleanup, HostOK, ContextsOK, ProcRecord,
       ResultRecord
  <1>16. CASE ScanStart("host") \/ ScanStart("observer") \/ Scan
    BY <1>0, <1>16 DEF ScanStart, Scan, ScanInventory, ScanCopy, ScanVerify,
       HostOK, ContextsOK, ProcRecord, ResultRecord
  <1>17. CASE ScanRefused \/ Observed \/ Publish
    BY <1>0, <1>17 DEF ScanRefused, Observed, Publish, HostOK, ContextsOK,
       ProcRecord, ResultRecord
  <1>18. CASE CaptureFails
    BY <1>0, <1>18 DEF CaptureFails, GoesOn, Failures, HostOK, ContextsOK,
       ProcRecord, ResultRecord
  <1>19. CASE Record
    BY <1>0, <1>19 DEF Record, HostOK, ContextsOK, ProcRecord,
       ResultRecord
  <1>20. CASE Return
    BY <1>0, <1>20 DEF Return, NoProc, NoResult, HostOK, ContextsOK,
       ProcRecord, ResultRecord
  <1>21. CASE Crash \/ TransactionFails
    BY <1>0, <1>21 DEF Crash, TransactionFails, GivesUp, NoResult, HostOK,
       ContextsOK, ProcRecord, ResultRecord
  <1>22. CASE Recover
    BY <1>0, <1>22 DEF Recover, HostOK, ContextsOK, ProcRecord,
       ResultRecord
  <1>23. CASE UNCHANGED vars
    BY <1>0, <1>23 DEF vars, HostOK, ContextsOK, ProcRecord,
       ResultRecord
  <1>24. CASE RequestStop
    BY <1>24 DEF RequestStop
  <1>25. CASE NeverStarts
    <2>1. /\ pc = "launch" /\ pc' = "terminate"
          /\ UNCHANGED <<recovering, contexts, proc, err, term>>
          /\ ~result'.started /\ ~result'.failed
          /\ result'.timedOut \/ result'.canceled
          /\ result'.canceled => active = "canceled"
      BY <1>25 DEF NeverStarts, NoResult
    <2> QED BY <2>1
  <1>26. CASE LaunchFails
    <2>1. /\ pc = "launch" /\ pc' = "terminate" /\ err' # "nil"
          /\ UNCHANGED <<recovering, contexts, proc, term>>
          /\ ~result'.started /\ ~result'.canceled
      BY <1>26 DEF LaunchFails, RunError, NoResult
    <2> QED BY <2>1
  <1>27. CASE Decide \/ ResultFails
    <2>1. /\ pc \in {"decide", "complete"}
          /\ pc' \in {"capture", "complete"}
          /\ UNCHANGED <<recovering, contexts, proc, result, term>>
          /\ err' = err \/ err' # "nil"
      BY <1>27 DEF Decide, ResultFails
    <2> QED BY <2>1
  <1> QED BY <1>1, <1>2, <1>3, <1>4, <1>5, <1>6, <1>7, <1>8, <1>9, <1>10,
             <1>11, <1>12, <1>13, <1>14, <1>15, <1>16, <1>17,
             <1>18, <1>19, <1>20, <1>21, <1>22, <1>23, <1>24,
             <1>25, <1>26, <1>27
          DEF Next, Host

-----------------------------------------------------------------------------
(* The log, and what is recorded.                                          *)

\* The first chunk past the cap sets the mark, one that just fills the log
\* does not.
LEMMA CappedLog ==
    ASSUME log \in LogRecord, Log, NEW k \in 1..2, log' = Capped(k)
    PROVE  /\ log'.truncated = (log'.drained > Cap)
           /\ log'.kept = IF log'.drained > Cap THEN Cap ELSE log'.drained
  <1> DEFINE left == Cap - log.kept
  <1>1. /\ log'.kept = log.kept + (IF k > left THEN left ELSE k)
        /\ log'.drained = log.drained + k
        /\ log'.truncated = (log.truncated \/ k > left)
    BY DEF Capped
  <1>2. log.kept \in Nat /\ log.drained \in Nat /\ log.truncated \in BOOLEAN
    BY DEF LogRecord
  <1>3. log.truncated <=> log.drained > Cap
    BY <1>2 DEF Log
  <1>4. log.kept = IF log.drained > Cap THEN Cap ELSE log.drained
    BY DEF Log
  <1>5. log'.kept = IF log'.drained > Cap THEN Cap ELSE log'.drained
    BY <1>1, <1>2, <1>4
  <1>6. k > left <=> log'.drained > Cap \/ log.drained > Cap
    BY <1>1, <1>2, <1>4
  <1>7. log.drained > Cap => log'.drained > Cap
    BY <1>1, <1>2
  <1>8. (log.truncated \/ k > left) <=> log'.drained > Cap
    BY <1>3, <1>6, <1>7, Zenon
  <1> QED BY <1>1, <1>5, <1>8

LEMMA LogStep ==
    ASSUME TypeOK, HostInv, Log, [Next]_vars
    PROVE  Log'
  <1>0. log \in LogRecord /\ result \in ResultRecord
    BY DEF TypeOK, ProcessOK
  <1>1. CASE UNCHANGED <<log, result>>
    BY <1>1 DEF Log
  <1>2. CASE \E k \in 1..2 : Drain(k)
    <2>1. PICK k \in 1..2 : Drain(k)
      BY <1>2
    <2>2. ~result.started /\ result' = result
      BY <2>1 DEF Drain, outcome, HostInv, Results
    <2>3. log' = Capped(k)
      BY <2>1 DEF Drain
    <2> QED BY <1>0, <2>2, <2>3, CappedLog DEF Log
  <1>3. CASE \E late \in BOOLEAN : WaitReturns(late)
    <2>1. log' = log /\ result'.truncated = log.truncated
      BY <1>3 DEF WaitReturns
    <2> QED BY <2>1 DEF Log
  <1>4. CASE Return \/ Crash \/ TransactionFails
    <2>1. log' = NoLog /\ result' = NoResult
      BY <1>4 DEF Return, Crash, TransactionFails, GivesUp
    <2>2. /\ log'.kept = 0 /\ log'.drained = 0 /\ log'.truncated = FALSE
          /\ ~result'.started
      BY <2>1 DEF NoLog, NoResult
    <2>3. (log'.drained > Cap) = FALSE
      BY <2>2
    <2>4. log'.truncated = (log'.drained > Cap)
      BY <2>2, <2>3, Zenon
    <2>5. log'.kept = IF log'.drained > Cap THEN Cap ELSE log'.drained
      BY <2>2, <2>3
    <2> QED BY <2>2, <2>4, <2>5, Zenon DEF Log
  <1>5. Check \/ Discard \/ PrepareInput \/ (\E f \in Files : PrepareFile(f))
          \/ Prepared \/ Launch \/ SetupFails \/ ProcessKilled
          \/ Cleanup \/ Decide \/ Publish \/ CaptureFails \/ ResultFails
          \/ Record
          => UNCHANGED <<log, result>>
    BY DEF Check, Discard, PrepareInput, PrepareFile, Prepared, Launch,
           SetupFails, ProcessKilled, Cleanup, Decide, Publish, CaptureFails,
           ResultFails, Record, outcome
  <1>6. Terminate => UNCHANGED <<log, result>>
    BY DEF Terminate, outcome
  <1>7. ScanStart("host") \/ ScanStart("observer") \/ Scan \/ ScanRefused
          \/ Observed \/ Recover \/ UNCHANGED vars
          => UNCHANGED <<log, result>>
    BY DEF ScanStart, Scan, ScanInventory, ScanCopy, ScanVerify, ScanRefused,
           Observed, Recover, outcome, vars
  <1>8. (\E k \in Kinds : StartActivity(k)) \/ RequestStop \/ MonitorCancels
          \/ LeaseExpires \/ TimerExpires
          \/ (\E f \in Files : WorkerWrites(f) \/ WorkerDeletes(f))
          \/ (\E code \in 0..2, children \in BOOLEAN :
                 ProcessExits(code, children))
          => UNCHANGED <<log, result>>
    BY DEF StartActivity, RequestStop, MonitorCancels, LeaseExpires,
           TimerExpires, WorkerWrites, WorkerDeletes, ProcessExits, outcome
  <1>9. CASE NeverStarts \/ LaunchFails
    <2>1. log' = log /\ ~result'.started
      BY <1>9 DEF NeverStarts, LaunchFails, NoResult
    <2> QED BY <2>1 DEF Log
  <1> QED BY <1>1, <1>2, <1>3, <1>4, <1>5, <1>6, <1>7, <1>8, <1>9
          DEF Next, Host

LEMMA StopsStep ==
    ASSUME HostInv, Stops, [Next]_vars
    PROVE  Stops'
  <1> USE DEF Stops, contexts, request
  <1>1. CASE UNCHANGED <<kind, contexts, request>> /\ pc' # "idle"
    BY <1>1
  <1>2. CASE UNCHANGED <<pc, kind, contexts, request>>
    BY <1>2
  <1>3. CASE \E k \in Kinds : StartActivity(k)
    BY <1>3 DEF StartActivity
  <1>4. CASE RequestStop
    BY <1>4 DEF RequestStop, Busy
  <1>5. CASE MonitorCancels
    <2>1. /\ pc # "idle" /\ UNCHANGED <<pc, kind, requested>> /\ monitor'
          /\ active' = IF active = "nil" THEN "canceled" ELSE active
          /\ stopped' => stopped \/ active = "nil"
      BY <1>5 DEF MonitorCancels, Busy, First
    <2> QED BY <2>1
  <1>6. CASE LeaseExpires
    BY <1>6 DEF LeaseExpires, Busy
  <1>7. CASE \E late \in BOOLEAN : WaitReturns(late)
    BY <1>7 DEF WaitReturns
  <1>8. CASE TimerExpires
    BY <1>8 DEF TimerExpires
  <1>9. CASE Return
    BY <1>9 DEF Return
  <1>10. CASE Crash \/ TransactionFails
    BY <1>10 DEF Crash, TransactionFails, GivesUp
  <1>11. Check \/ Discard \/ Prepared \/ SetupFails \/ Launch \/ NeverStarts
           \/ LaunchFails \/ Terminate \/ Cleanup \/ Decide \/ Publish
           \/ CaptureFails \/ ResultFails \/ Record \/ Recover
           => UNCHANGED <<kind, contexts, request>> /\ pc' # "idle"
    BY DEF Check, Discard, Prepared, SetupFails, Launch, NeverStarts,
           LaunchFails, Terminate, Cleanup, Decide, Publish, CaptureFails,
           GoesOn, ResultFails, Record, Recover
  <1>12. PrepareInput \/ (\E f \in Files : PrepareFile(f))
           \/ (\E f \in Files : WorkerWrites(f) \/ WorkerDeletes(f))
           \/ (\E k \in 1..2 : Drain(k)) \/ ProcessKilled
           \/ (\E code \in 0..2, children \in BOOLEAN :
                  ProcessExits(code, children))
           => UNCHANGED <<pc, kind, contexts, request>>
    BY DEF PrepareInput, PrepareFile, WorkerWrites, WorkerDeletes, Drain,
           ProcessKilled, ProcessExits
  <1>13. ScanStart("host") \/ ScanStart("observer") \/ Scan \/ Observed
           \/ UNCHANGED vars => UNCHANGED <<pc, kind, contexts, request>>
    BY DEF ScanStart, Scan, ScanInventory, ScanCopy, ScanVerify, Observed,
           vars
  <1>14. CASE ScanRefused
    BY <1>14 DEF ScanRefused
  <1> QED BY <1>1, <1>2, <1>3, <1>4, <1>5, <1>6, <1>7, <1>8, <1>9, <1>10,
             <1>11, <1>12, <1>13, <1>14 DEF Next, Host

\* The outcomes runCI and attempt decide on: a program's own result only of a
\* process that exited, and no result when a stop was seen.
LEMMA DecidedRun ==
    ASSUME TypeOK, HostInv, Stops, pc = "decide", ~recovering
    PROVE  Own(RunStatus) /\ (stopped => RunStatus = "TERMINATED")
  <1>1. /\ result.started =>
             /\ proc.st \in {"exited", "killed"} /\ result.exit = proc.code
             /\ proc.st = "killed" => result.timedOut \/ result.canceled
        /\ err = "nil" => \/ result.started \/ result.timedOut
                          \/ result.canceled
    BY DEF HostInv, Results, After
  <1>2. /\ active \in {"nil", "deadline", "canceled"}
        /\ active = "canceled" => monitor
        /\ result.canceled => active # "nil"
    BY DEF TypeOK, ContextsOK, HostInv, Contexts, Results
  <1>3. RunStatus \in {"PASS", "FAIL"} =>
           /\ err = "nil" /\ ~result.timedOut
           /\ ~(monitor /\ active # "deadline") /\ active # "deadline"
    <2>1. RunStatus \in {"PASS", "FAIL"} =>
             ~result.timedOut /\ ~(monitor /\ active # "deadline")
      BY DEF RunStatus
    <2>2. RunStatus \in {"PASS", "FAIL"} => err = "nil"
      BY DEF RunStatus
    <2>3. err = "nil" => ~term /\ ~FailStopError
      BY DEF HostInv, Results, FailStopError
    <2>4. RunStatus \in {"PASS", "FAIL"} => active # "deadline"
      BY <2>2, <2>3 DEF RunStatus
    <2> QED BY <2>1, <2>2, <2>4
  <1>4. RunStatus \in {"PASS", "FAIL"} => ~result.canceled /\ result.started
    BY <1>1, <1>2, <1>3 DEF HostInv, Contexts, Results
  <1>5. RunStatus = "PASS" => result.exit = 0
    BY DEF RunStatus
  <1>6. RunStatus = "FAIL" => result.exit # 0
    BY <1>3, <1>4 DEF RunStatus
  <1>7. RunStatus \notin {"RETURNED", "CRASHED"}
    BY DEF RunStatus
  <1>8. Own(RunStatus)
    BY <1>1, <1>3, <1>4, <1>5, <1>6, <1>7 DEF Own
  <1>9. stopped => RunStatus = "TERMINATED"
    BY DEF Stops, RunStatus
  <1> QED BY <1>8, <1>9
LEMMA DecidedAttempt ==
    ASSUME TypeOK, HostInv, Stops, pc = "decide", ~recovering
    PROVE  /\ Own(AttemptStatus)
           /\ stopped => AttemptStatus \in {"TERMINATED", "INTERRUPTED"}
  <1>1. /\ result.started =>
             /\ proc.st \in {"exited", "killed"} /\ result.exit = proc.code
             /\ proc.st = "killed" => result.timedOut \/ result.canceled
        /\ err = "nil" => \/ result.started \/ result.timedOut
                          \/ result.canceled
        /\ err = "nil" => ~term /\ ~result.failed
    BY DEF HostInv, Results, After
  <1>2. AttemptStatus \in {"RETURNED", "CRASHED"} =>
           err = "nil" /\ ~result.timedOut /\ ~result.canceled
    BY DEF AttemptStatus
  <1>3. AttemptStatus \notin {"PASS", "FAIL"}
    BY DEF AttemptStatus
  <1>4. /\ AttemptStatus = "RETURNED" => result.exit = 0
        /\ AttemptStatus = "CRASHED" => result.exit # 0
    BY DEF AttemptStatus
  <1>5. Own(AttemptStatus)
    BY <1>1, <1>2, <1>3, <1>4 DEF Own
  <1>6. stopped => AttemptStatus \in {"TERMINATED", "INTERRUPTED"}
    BY <1>1 DEF Stops, AttemptStatus, FailStopError
  <1> QED BY <1>5, <1>6

\* Once decided, an outcome stays, or is replaced by a failure or a stop.
LEMMA DecidedStep ==
    ASSUME TypeOK, HostInv, Stops, Decided, Recorded, [Next]_vars
    PROVE  Decided' /\ Recorded'
  <1> DEFINE Basis == <<pc, recovering, verdict, request, status>>
  <1> USE DEF Decided, Recorded, ResultIsOwn, StopIsNoVerdict, Own, request,
              outcome
  <1>1. CASE /\ \/ pc' \notin {"capture", "complete", "recorded"}
                \/ recovering'
    BY <1>1
  <1>2. CASE UNCHANGED Basis /\ UNCHANGED proc
    BY <1>2
  <1>3. CASE Decide
    <2>1. /\ pc = "decide" /\ pc' \in {"capture", "complete"}
          /\ verdict' \in {RunStatus, AttemptStatus}
          /\ UNCHANGED <<recovering, proc, stopped>>
      BY <1>3 DEF Decide
    <2>2. CASE recovering
      BY <2>1, <2>2
    <2>3. CASE ~recovering
      <3>1. /\ Own(verdict)'
            /\ stopped => verdict' \in {"TERMINATED", "INTERRUPTED"}
        BY <2>1, <2>3, DecidedRun, DecidedAttempt
      <3> QED BY <2>1, <3>1
    <2> QED BY <2>2, <2>3
  <1>4. CASE Publish \/ (pc = "capture" /\ ScanRefused)
    <2>1. /\ pc = "capture" /\ pc' = "complete"
          /\ UNCHANGED <<recovering, verdict, stopped, proc>>
      BY <1>4 DEF Publish, ScanRefused
    <2> QED BY <2>1
  <1>5. CASE CaptureFails
    <2>1. CASE recovering
      BY <1>1, <1>5, <2>1 DEF CaptureFails, GoesOn
    <2>2. CASE ~recovering
      <3>1. pc' = "complete" /\ verdict' = "TERMINATED"
        BY <1>5, <2>2 DEF CaptureFails, GoesOn
      <3> QED BY <3>1
    <2> QED BY <2>1, <2>2
  <1>6. CASE ResultFails
    BY <1>6 DEF ResultFails
  <1>7. CASE Record
    <2>1. /\ pc = "complete" /\ pc' = "recorded"
          /\ UNCHANGED <<recovering, request, proc>>
          /\ ~recovering => status' = IF kind = "mutation" /\ requested
                                      THEN "INTERRUPTED" ELSE verdict
      BY <1>7 DEF Record
    <2>2. requested => kind = "mutation"
      BY DEF Stops
    <2> QED BY <2>1, <2>2
  <1>8. CASE MonitorCancels
    <2>1. /\ UNCHANGED <<pc, recovering, verdict, requested, status, proc>>
          /\ pc \in {"capture", "complete"} => (stopped' => stopped)
          /\ pc # "recorded"
      BY <1>8 DEF MonitorCancels, Busy, Undecided
    <2> QED BY <2>1
  <1>9. CASE RequestStop
    <2>1. /\ UNCHANGED <<pc, recovering, verdict, stopped, status, proc>>
          /\ pc # "recorded"
      BY <1>9 DEF RequestStop, Busy
    <2> QED BY <2>1
  <1>10. CASE ProcessKilled \/ \E code \in 0..2, children \in BOOLEAN :
                                  ProcessExits(code, children)
    <2>1. proc.st = "running" /\ UNCHANGED <<pc, recovering>>
      BY <1>10 DEF ProcessKilled, ProcessExits
    <2>2. pc \in {"running", "crashed"} \/ recovering
      BY <2>1 DEF HostInv, Process
    <2> QED BY <2>1, <2>2
  <1>11. (\E k \in Kinds : StartActivity(k)) \/ Check \/ Discard \/ Prepared
           \/ SetupFails \/ Launch \/ NeverStarts \/ LaunchFails
           \/ (\E late \in BOOLEAN : WaitReturns(late)) \/ Cleanup \/ Return
           \/ Crash \/ TransactionFails \/ Recover
           => pc' \notin {"capture", "complete", "recorded"}
    BY DEF StartActivity, Check, Discard, Prepared, SetupFails, Launch,
           NeverStarts, LaunchFails, WaitReturns, Cleanup, Return, Crash,
           TransactionFails, GivesUp, Recover
  <1>12. Terminate => \/ pc' \notin {"capture", "complete", "recorded"}
                      \/ recovering'
    BY DEF Terminate, GoesOn
  <1>13. LeaseExpires \/ TimerExpires \/ PrepareInput
           \/ (\E f \in Files : PrepareFile(f))
           \/ (\E f \in Files : WorkerWrites(f) \/ WorkerDeletes(f))
           \/ (\E k \in 1..2 : Drain(k))
           => UNCHANGED Basis /\ UNCHANGED proc
    BY DEF LeaseExpires, TimerExpires, PrepareInput, PrepareFile,
           WorkerWrites, WorkerDeletes, Drain
  <1>14. ScanStart("host") \/ ScanStart("observer") \/ Scan \/ Observed
           \/ (pc # "capture" /\ ScanRefused) \/ UNCHANGED vars
           => UNCHANGED Basis /\ UNCHANGED proc
    BY DEF ScanStart, Scan, ScanInventory, ScanCopy, ScanVerify, Observed,
           ScanRefused, vars
  <1> QED BY <1>1, <1>2, <1>3, <1>4, <1>5, <1>6, <1>7, <1>8, <1>9, <1>10,
             <1>11, <1>12, <1>13, <1>14 DEF Next, Host

\* A capture the host goes on with is one of its own tree.
LEMMA HostScanStep ==
    ASSUME TypeOK, HostInv, HostScan, [Next]_vars
    PROVE  HostScan'
  <1> USE DEF HostScan
  <1>0. scan \in ScanRecord
    BY DEF TypeOK
  <1>1. CASE UNCHANGED <<pc, n>> /\ UNCHANGED scan
    BY <1>1
  <1>2. CASE \E k \in Kinds : StartActivity(k)
    BY <1>2 DEF StartActivity
  <1>3. CASE Record \/ Publish \/ Check \/ Prepared \/ SetupFails \/ Launch
               \/ NeverStarts \/ LaunchFails \/ Terminate \/ Cleanup
               \/ Decide \/ Recover
    <2>1. UNCHANGED <<n, scan>>
      BY <1>3 DEF Record, Publish, Check, Prepared, SetupFails, Launch,
                  NeverStarts, LaunchFails, Terminate, Cleanup, Decide, Recover
    <2>2. Record \/ Publish => pc' \in {"complete", "recorded"}
      BY DEF Record, Publish
    <2>3. Check \/ Prepared \/ SetupFails \/ Launch \/ NeverStarts
            \/ LaunchFails \/ Terminate \/ Cleanup \/ Decide \/ Recover
            => pc \notin {"capture", "complete", "recorded"}
      BY DEF Check, Prepared, SetupFails, Launch, NeverStarts, LaunchFails,
             Terminate, Cleanup, Decide, Recover
    <2> QED BY <1>3, <2>1, <2>2, <2>3
  <1>4. CASE Discard \/ PrepareInput \/ \E f \in Files : PrepareFile(f)
    <2>1. scan' = Dir(TRUE) \/ scan' = scan
      BY <1>4 DEF Discard, PrepareInput, PrepareFile
    <2>2. scan'.by = scan.by
      BY <1>0, <2>1, DirType DEF ScanRecord
    <2>3. pc \in {"discard", "prepare"}
      BY <1>4 DEF Discard, PrepareInput, PrepareFile
    <2> QED BY <2>2, <2>3
  <1>5. CASE \E f \in Files : WorkerWrites(f) \/ WorkerDeletes(f)
    <2>1. PICK f \in Files : WorkerWrites(f) \/ WorkerDeletes(f)
      BY <1>5
    <2>2. PICK changed \in BOOLEAN : scan' = Dir(changed)
      <3>1. scan' = Dir(ws[f] = Absent) \/ scan' = Dir(TRUE)
        BY <2>1 DEF WorkerWrites, WorkerDeletes
      <3>2. (ws[f] = Absent) \in BOOLEAN /\ TRUE \in BOOLEAN
        OBVIOUS
      <3> QED BY <3>1, <3>2
    <2>3. scan'.by = scan.by /\ scan'.of = scan.of
      BY <1>0, <2>2 DEF ScanRecord, Dir
    <2>4. UNCHANGED <<pc, n>>
      BY <2>1 DEF WorkerWrites, WorkerDeletes
    <2> QED BY <2>3, <2>4
  <1>6. CASE ScanStart("host") \/ ScanStart("observer")
    <2>1. /\ scan'.by = "host" => pc = "capture"
          /\ scan'.of = n /\ UNCHANGED <<pc, n>>
      BY <1>6 DEF ScanStart, NoScan, OwnTree
    <2> QED BY <2>1
  <1>7. CASE Scan
    <2>1. UNCHANGED <<pc, n>>
      BY <1>7 DEF Scan, ScanInventory, ScanCopy, ScanVerify
    <2>2. CASE ScanInventory
      BY <1>0, <2>1, <2>2 DEF ScanInventory, Advance, ScanRecord
    <2>3. CASE ScanCopy
      BY <1>0, <2>1, <2>3 DEF ScanCopy, Advance, ScanRecord
    <2>4. CASE ScanVerify
      BY <1>0, <2>1, <2>4 DEF ScanVerify, Advance, ScanRecord
    <2> QED BY <1>7, <2>2, <2>3, <2>4 DEF Scan
  <1>8. CASE scan' = NoScan
    BY <1>8 DEF NoScan
  <1>9. ScanRefused \/ Observed \/ CaptureFails \/ Return \/ Crash
          \/ TransactionFails \/ (\E late \in BOOLEAN : WaitReturns(late))
          \/ ProcessKilled
          \/ (\E code \in 0..2, children \in BOOLEAN :
                 ProcessExits(code, children))
          => scan' = NoScan
    BY DEF ScanRefused, Observed, CaptureFails, Return, Crash,
           TransactionFails, GivesUp, WaitReturns, ProcessKilled,
           ProcessExits
  <1>10. RequestStop \/ ResultFails \/ MonitorCancels \/ LeaseExpires
           \/ TimerExpires \/ (\E k \in 1..2 : Drain(k)) \/ UNCHANGED vars
           => UNCHANGED <<pc, n>> /\ UNCHANGED scan
    BY DEF RequestStop, ResultFails, MonitorCancels, LeaseExpires,
           TimerExpires, Drain, vars
  <1> QED BY <1>1, <1>2, <1>3, <1>4, <1>5, <1>6, <1>7, <1>8, <1>9, <1>10
          DEF Next, Host

-----------------------------------------------------------------------------
(* Captures.                                                               *)

ScanInv == Clock /\ Copying /\ SnapshotConsistent

\* A step that shows in the directory leaves a mark on the scan.
LEMMA MarkedStep ==
    ASSUME TypeOK, ScanInv, scan' = Dir(TRUE), UNCHANGED <<current, now>>,
           \A f \in Files : ws'[f] <= now
    PROVE  ScanInv'
  <1>0. scan \in ScanRecord /\ now \in Nat
    BY DEF TypeOK, FilesOK
  <1>1. /\ scan'.at = scan.at /\ scan'.file = scan.file
        /\ scan'.inv = scan.inv /\ scan'.snap = scan.snap
        /\ scan'.then = scan.then
        /\ scan.at = "verify" => scan'.moved
    BY <1>0 DEF Dir, ScanRecord
  <1>2. Clock'
    BY <1>1 DEF ScanInv, Clock
  <1>3. Copying'
    BY <1>1 DEF ScanInv, Copying
  <1>4. SnapshotConsistent'
    <2>1. SnapshotConsistent
      BY DEF ScanInv
    <2> QED BY <1>1, <2>1 DEF SnapshotConsistent
  <1> QED BY <1>2, <1>3, <1>4 DEF ScanInv

\* A file that is written while it is there shows by its new version.
LEMMA WriteStep ==
    ASSUME TypeOK, ScanInv, NEW f \in Files, WorkerWrites(f)
    PROVE  ScanInv'
  <1>0. /\ scan \in ScanRecord /\ now \in Nat /\ ws \in [Files -> Versions]
        /\ current \in [Files -> Versions]
    BY DEF TypeOK, FilesOK
  <1>1. /\ scan'.at = scan.at /\ scan'.file = scan.file
        /\ scan'.inv = scan.inv /\ scan'.snap = scan.snap
        /\ scan'.then = scan.then
        /\ scan.at = "verify" => (scan'.moved <=> scan.moved \/ ws[f] = Absent)
    BY <1>0 DEF WorkerWrites, Dir, ScanRecord
  <1>2. /\ now' = now + 1 /\ current' = current
        /\ \A g \in Files : ws'[g] = IF g = f THEN now + 1 ELSE ws[g]
    BY <1>0 DEF WorkerWrites
  <1>3. \A g \in Files : /\ ws[g] \in Nat /\ current[g] \in Nat
                         /\ scan.inv[g] \in Nat /\ scan.snap[g] \in Nat
    <2>1. scan.inv \in [Files -> Versions] /\ scan.snap \in [Files -> Versions]
      BY <1>0 DEF ScanRecord
    <2>2. Versions \subseteq Nat
      OBVIOUS
    <2> QED BY <1>0, <2>1, <2>2
  <1>4. Clock'
    <2> SUFFICES ASSUME NEW g \in Files
                 PROVE  /\ ws'[g] <= now + 1 /\ current[g] <= now + 1
                        /\ scan.inv[g] <= now + 1 /\ scan.snap[g] <= now + 1
      BY <1>1, <1>2 DEF Clock
    <2>1. /\ ws[g] <= now /\ current[g] <= now
          /\ scan.inv[g] <= now /\ scan.snap[g] <= now
      BY DEF ScanInv, Clock
    <2>2. /\ ws[g] \in Nat /\ current[g] \in Nat
          /\ scan.inv[g] \in Nat /\ scan.snap[g] \in Nat
      BY <1>3
    <2>3. ws'[g] \in {ws[g], now + 1}
      BY <1>2
    <2>4. now \in Nat
      BY <1>0
    <2>5. ws'[g] <= now + 1
      BY <2>1, <2>2, <2>3, <2>4
    <2>6. /\ current[g] <= now + 1
          /\ scan.inv[g] <= now + 1 /\ scan.snap[g] <= now + 1
      BY <2>1, <2>2, <2>4
    <2> QED BY <2>5, <2>6
  <1>5. \A g \in Files : ws'[g] = ws[g] \/ ws'[g] # scan.inv[g]
    BY <1>0, <1>2, <1>3 DEF ScanInv, Clock
  <1>6. Copying'
    BY <1>1, <1>5 DEF ScanInv, Copying
  <1>7. SnapshotConsistent'
    BY <1>1 DEF ScanInv, SnapshotConsistent
  <1> QED BY <1>4, <1>6, <1>7 DEF ScanInv

\* The first inventory, the copy and the second inventory.
LEMMA InventoryStep ==
    ASSUME TypeOK, ScanInv, ScanInventory
    PROVE  ScanInv'
  <1>0. /\ scan \in ScanRecord /\ now \in Nat /\ ws \in [Files -> Versions]
        /\ UNCHANGED <<current, now, ws>>
    BY DEF TypeOK, FilesOK, ScanInventory, tree
  <1>1. /\ scan'.snap = scan.snap
        /\ \A f \in Files : scan'.inv[f] = IF f = scan.file THEN ws[f]
                                           ELSE scan.inv[f]
        /\ \/ scan'.at = "inventory"
           \/ scan'.at = "copy" /\ scan'.file = 1
    BY <1>0 DEF ScanInventory, Advance, ScanRecord
  <1>2. Clock'
    BY <1>0, <1>1 DEF ScanInv, Clock
  <1>3. Copying'
    <2>1. scan'.at = "copy" => 1..(scan'.file - 1) = {}
      BY <1>1
    <2> QED BY <1>1, <2>1 DEF Copying
  <1> QED BY <1>1, <1>2, <1>3 DEF ScanInv, SnapshotConsistent
LEMMA CopyStep ==
    ASSUME TypeOK, ScanInv, ScanCopy
    PROVE  ScanInv'
  <1>0. /\ scan \in ScanRecord /\ now \in Nat /\ ws \in [Files -> Versions]
        /\ scan.file \in Files /\ scan.at = "copy"
        /\ UNCHANGED <<current, now, ws>>
        /\ ws[scan.file] = scan.inv[scan.file]
    <2>1. scan \in ScanRecord /\ now \in Nat /\ ws \in [Files -> Versions]
      BY DEF TypeOK, FilesOK
    <2>2. scan.file \in Files
      BY <2>1 DEF ScanRecord
    <2> QED BY <2>1, <2>2 DEF ScanCopy, tree, Unchanged
  <1>1. /\ scan'.inv = scan.inv /\ scan'.then = ws
        /\ \A f \in Files : scan'.snap[f] = IF f = scan.file THEN ws[f]
                                            ELSE scan.snap[f]
        /\ IF scan.file < MaxFiles
           THEN scan'.at = "copy" /\ scan'.file = scan.file + 1
           ELSE scan'.at = "verify" /\ scan'.file = 1
    BY <1>0 DEF ScanCopy, Advance, ScanRecord
  <1>2. Clock'
    BY <1>0, <1>1 DEF ScanInv, Clock
  <1>3. \A f \in 1..scan.file : scan'.snap[f] = scan'.inv[f]
    <2>1. \A f \in 1..(scan.file - 1) : scan.snap[f] = scan.inv[f]
      BY <1>0 DEF ScanInv, Copying
    <2>2. \A f \in 1..scan.file :
             f \in Files /\ (f = scan.file \/ f \in 1..(scan.file - 1))
      BY <1>0
    <2> QED BY <1>0, <1>1, <2>1, <2>2
  <1>4. Copying'
    <2>1. CASE scan.file < MaxFiles
      BY <1>0, <1>1, <1>3, <2>1 DEF Copying
    <2>2. CASE ~(scan.file < MaxFiles)
      <3>1. scan.file = MaxFiles /\ scan'.file = 1 /\ scan'.at = "verify"
        BY <1>0, <1>1, <2>2
      <3>2. \A f \in Files : scan'.snap[f] = scan'.inv[f] /\ ~(f < scan'.file)
        BY <1>3, <3>1
      <3>3. \A f \in Files :
               scan'.then[f] = scan'.inv[f] \/ ws'[f] # scan'.inv[f]
        BY <1>0, <1>1
      <3> QED BY <3>1, <3>2, <3>3 DEF Copying
    <2> QED BY <2>1, <2>2
  <1> QED BY <1>1, <1>2, <1>4 DEF ScanInv, SnapshotConsistent
LEMMA VerifyStep ==
    ASSUME TypeOK, ScanInv, ScanVerify
    PROVE  ScanInv'
  <1>0. /\ scan \in ScanRecord /\ scan.file \in Files /\ scan.at = "verify"
        /\ UNCHANGED <<current, now, ws>> /\ ~scan.moved
        /\ ws[scan.file] = scan.inv[scan.file]
    BY DEF TypeOK, FilesOK, ScanVerify, tree, ScanRecord, Verified, Unchanged
  <1>1. /\ scan'.inv = scan.inv /\ scan'.then = scan.then
        /\ scan'.snap = scan.snap /\ scan'.moved = scan.moved
        /\ IF scan.file < MaxFiles
           THEN scan'.at = "verify" /\ scan'.file = scan.file + 1
           ELSE scan'.at = "accepted"
    BY <1>0 DEF ScanVerify, Advance, ScanRecord
  <1>2. Clock'
    BY <1>0, <1>1 DEF ScanInv, Clock
  <1>3. \A f \in 1..scan.file : scan.then[f] = scan.inv[f]
    BY <1>0 DEF ScanInv, Copying
  <1>4. \A f \in Files : scan.snap[f] = scan.inv[f]
    BY <1>0 DEF ScanInv, Copying
  <1>5. CASE scan.file < MaxFiles
    <2>1. \A f \in Files : f < scan'.file => f \in 1..scan.file
      BY <1>0, <1>1, <1>5
    <2>2. Copying'
      BY <1>0, <1>1, <1>3, <1>4, <1>5, <2>1 DEF ScanInv, Copying
    <2> QED BY <1>1, <1>2, <1>5, <2>2 DEF ScanInv, SnapshotConsistent
  <1>6. CASE ~(scan.file < MaxFiles)
    <2>1. scan.file = MaxFiles
      BY <1>0, <1>6
    <2>2. \A f \in Files : scan.then[f] = scan.snap[f]
      BY <1>3, <1>4, <2>1
    <2>3. scan.then = scan.snap
      BY <1>0, <2>2 DEF ScanRecord
    <2> QED BY <1>1, <1>2, <1>6, <2>3
            DEF ScanInv, Copying, SnapshotConsistent
  <1> QED BY <1>5, <1>6

LEMMA ScanStep ==
    ASSUME TypeOK, ScanInv, [Next]_vars
    PROVE  ScanInv'
  <1>0. /\ scan \in ScanRecord /\ now \in Nat /\ ws \in [Files -> Versions]
        /\ current \in [Files -> Versions]
    BY DEF TypeOK, FilesOK
  <1>1. CASE UNCHANGED <<ws, current, now, scan>>
    BY <1>1 DEF ScanInv, Clock, Copying, SnapshotConsistent
  <1>2. CASE scan'.at \in {"off", "inventory"} /\ scan'.inv = Empty
             /\ scan'.snap = Empty /\ UNCHANGED <<ws, current, now>>
    BY <1>0, <1>2
       DEF ScanInv, Clock, Copying, SnapshotConsistent, Empty
  <1>3. CASE \E f \in Files : WorkerWrites(f)
    BY <1>3, WriteStep
  <1>4. CASE \E f \in Files : WorkerDeletes(f)
    <2>1. PICK f \in Files : WorkerDeletes(f)
      BY <1>4
    <2>2. scan' = Dir(TRUE) /\ UNCHANGED <<current, now>>
      BY <2>1 DEF WorkerDeletes
    <2>3. \A g \in Files : ws'[g] <= now
      BY <1>0, <2>1 DEF WorkerDeletes, ScanInv, Clock
    <2> QED BY <2>2, <2>3, MarkedStep
  <1>5. CASE Discard
    <2>1. CASE kind = "ci"
      BY <1>1, <1>5, <2>1 DEF Discard
    <2>2. CASE kind # "ci"
      <3>1. scan' = Dir(TRUE) /\ UNCHANGED <<current, now>> /\ ws' = Empty
        BY <1>5, <2>2 DEF Discard
      <3>2. \A g \in Files : ws'[g] <= now
        BY <1>0, <3>1 DEF Empty
      <3> QED BY <3>1, <3>2, MarkedStep
    <2> QED BY <2>1, <2>2
  <1>6. CASE PrepareInput
    <2>1. scan' = Dir(TRUE) /\ UNCHANGED <<current, now, ws>>
      BY <1>6 DEF PrepareInput
    <2>2. \A g \in Files : ws'[g] <= now
      BY <2>1 DEF ScanInv, Clock
    <2> QED BY <2>1, <2>2, MarkedStep
  <1>7. CASE \E f \in Files : PrepareFile(f)
    <2>1. PICK f \in Files : PrepareFile(f)
      BY <1>7
    <2>2. scan' = Dir(TRUE) /\ UNCHANGED <<current, now>>
      BY <2>1 DEF PrepareFile
    <2>3. \A g \in Files : ws'[g] <= now
      BY <1>0, <2>1 DEF PrepareFile, ScanInv, Clock
    <2> QED BY <2>2, <2>3, MarkedStep
  <1>8. CASE Scan
    BY <1>8, InventoryStep, CopyStep, VerifyStep DEF Scan
  <1>9. CASE Record
    <2>1. /\ UNCHANGED <<ws, now, scan>>
          /\ current' = current \/ current' = scan.snap
      BY <1>9 DEF Record, tree
    <2> QED BY <2>1 DEF ScanInv, Clock, Copying, SnapshotConsistent
  <1>10. CASE Return
    <2>1. /\ UNCHANGED <<current, now>> /\ ws' \in {ws, Empty}
          /\ scan' = NoScan
      BY <1>10 DEF Return
    <2> QED BY <1>0, <2>1
        DEF ScanInv, Clock, Copying, SnapshotConsistent, NoScan, Empty
  <1>11. ScanRefused \/ Observed \/ CaptureFails \/ Crash
           \/ TransactionFails \/ (\E late \in BOOLEAN : WaitReturns(late))
           \/ ProcessKilled
           \/ (\E code \in 0..2, children \in BOOLEAN :
                  ProcessExits(code, children))
           => scan'.at \in {"off", "inventory"} /\ scan'.inv = Empty
             /\ scan'.snap = Empty /\ UNCHANGED <<ws, current, now>>
    <2>1. ScanRefused \/ Observed \/ CaptureFails \/ Crash
            \/ TransactionFails \/ (\E late \in BOOLEAN : WaitReturns(late))
            \/ ProcessKilled
            \/ (\E code \in 0..2, children \in BOOLEAN :
                   ProcessExits(code, children))
            => scan' = NoScan /\ UNCHANGED <<ws, current, now>>
      BY DEF ScanRefused, Observed, CaptureFails, Crash, TransactionFails,
             GivesUp, WaitReturns, ProcessKilled, ProcessExits, tree
    <2> QED BY <2>1 DEF NoScan
  <1>12. ASSUME NEW by, ScanStart(by)
         PROVE  scan'.at \in {"off", "inventory"} /\ scan'.inv = Empty
                  /\ scan'.snap = Empty /\ UNCHANGED <<ws, current, now>>
    BY <1>12 DEF ScanStart, tree, NoScan
  <1>13. (\E k \in Kinds : StartActivity(k)) \/ RequestStop \/ MonitorCancels
           \/ LeaseExpires \/ TimerExpires \/ (\E k \in 1..2 : Drain(k))
           \/ Check \/ Prepared \/ Launch \/ NeverStarts \/ LaunchFails
           \/ SetupFails
           => UNCHANGED <<ws, current, now, scan>>
    BY DEF StartActivity, RequestStop, NeverStarts, LaunchFails,
           MonitorCancels, LeaseExpires, TimerExpires, Drain, Check,
           Prepared, Launch, SetupFails, tree
  <1>14. Terminate \/ Cleanup \/ Decide \/ Publish \/ ResultFails \/ Recover
           \/ UNCHANGED vars => UNCHANGED <<ws, current, now, scan>>
    BY DEF Terminate, Cleanup, Decide, Publish, ResultFails, Recover, tree,
           vars
  <1> QED BY <1>1, <1>2, <1>3, <1>4, <1>5, <1>6, <1>7, <1>8, <1>9, <1>10,
             <1>11, <1>12, <1>13, <1>14 DEF Next, Host

-----------------------------------------------------------------------------
(* The theorems.                                                           *)

LEMMA InvInit == Init => Inv
  <1> SUFFICES ASSUME Init PROVE Inv
    OBVIOUS
  <1>1. TypeOK
    BY TypeInit
  <1>2. Idle /\ Contexts /\ Process /\ Results
    BY DEF Init, Idle, Contexts, Process, Results, NoProc, NoResult, Setup,
           After
  <1>3. Stops /\ Decided /\ Recorded /\ HostScan
    BY DEF Init, Stops, Decided, Recorded, ResultIsOwn, StopIsNoVerdict,
           HostScan, NoScan
  <1>4. Log
    <2>1. log.kept = 0 /\ log.drained = 0 /\ log.truncated = FALSE
            /\ ~result.started
      BY DEF Init, NoLog, NoResult
    <2>2. (log.drained > Cap) = FALSE
      BY <2>1
    <2>3. log.truncated = (log.drained > Cap)
      BY <2>1, <2>2, Zenon
    <2>4. log.kept = IF log.drained > Cap THEN Cap ELSE log.drained
      BY <2>1, <2>2
    <2> QED BY <2>1, <2>3, <2>4, Zenon DEF Log
  <1>5. Clock
    BY DEF Init, Clock, NoScan, Empty
  <1>6. Copying /\ SnapshotConsistent
    BY DEF Init, Copying, SnapshotConsistent, NoScan
  <1> QED BY <1>1, <1>2, <1>3, <1>4, <1>5, <1>6 DEF Inv

LEMMA InvStep == Inv /\ [Next]_vars => Inv'
  <1> SUFFICES ASSUME Inv, [Next]_vars PROVE Inv'
    OBVIOUS
  <1>1. TypeOK /\ HostInv /\ ScanInv /\ Stops /\ Decided /\ Recorded
        /\ Log /\ HostScan
    BY DEF Inv, HostInv, ScanInv
  <1>2. TypeOK' /\ HostInv' /\ ScanInv'
    BY <1>1, TypeStep, HostStep, ScanStep
  <1>3. Stops' /\ Decided' /\ Recorded' /\ Log' /\ HostScan'
    BY <1>1, StopsStep, DecidedStep, LogStep, HostScanStep
  <1> QED BY <1>2, <1>3 DEF Inv, HostInv, ScanInv

LEMMA Invariance == Spec => []Inv
  BY InvInit, InvStep, PTL DEF Spec

\* Type correctness of the model of an activity.
THEOREM TypeCorrect == Spec => []TypeOK
  <1>1. Inv => TypeOK
    BY DEF Inv
  <1> QED BY <1>1, Invariance, PTL

\* What scheduler.go records as a program's own result is its own: neither a
\* kill by the deadline or a stop request nor a failed start is taken for it.
THEOREM OwnResult == Spec => []ResultIsOwn
  <1>1. Inv => ResultIsOwn
    BY DEF Inv, Recorded
  <1> QED BY <1>1, Invariance, PTL

\* A stop that is seen before the outcome is decided and before the lease is
\* over is what scheduler.go records, and an interrupt or a cancellation that
\* is durable before Complete is what Complete records.
THEOREM StopWins == Spec => []StopIsNoVerdict
  <1>1. Inv => StopIsNoVerdict
    BY DEF Inv, Recorded
  <1> QED BY <1>1, Invariance, PTL

\* capWriter cuts a log at the cap and says so exactly when it did, for every
\* cap and every division of the output into chunks.
THEOREM TruncationIsTold == Spec => []TruncationTold
  <1>1. Inv => TruncationTold
    BY DEF Inv, Log, TruncationTold
  <1> QED BY <1>1, Invariance, PTL

\* The two inventories of files.py capture make an accepted copy that of one
\* moment, for every number of files and of writes.
THEOREM ConsistentSnapshot == Spec => []SnapshotConsistent
  <1>1. Inv => SnapshotConsistent
    BY DEF Inv
  <1> QED BY <1>1, Invariance, PTL

\* The id in input.json keeps the tree of another activity from becoming the
\* current Artifact, across every crash and recovery.
THEOREM OwnTreeCaptured == Spec => []CapturesOwn
  <1>1. Inv => CapturesOwn
    BY DEF Inv, HostScan, CapturesOwn, Captured
  <1> QED BY <1>1, Invariance, PTL

=============================================================================
