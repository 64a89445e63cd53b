----------------------------- MODULE TasksProofs -----------------------------
(***************************************************************************)
(* The safety properties of Tasks, for every number of Tasks, schedulers,  *)
(* commands, recoveries, crashes and moves of repositories.                *)
(***************************************************************************)
EXTENDS Tasks, TLAPS, WellFoundedInduction

USE TasksAssumption DEF Tasks, None

-----------------------------------------------------------------------------
(* The inductive invariant.                                                *)

\* A Task that exists has a path, which resume resolves.
Placed == \A t \in Tasks : status[t] # "NONE" => path[t] \in Paths

\* What a command relies on: it holds the gate of its Task from Begin to its
\* answer, and with it keeps the cancellation it requested.
CommandOK(p) ==
    /\ proc[p].at = "create" => proc[p].path \in Paths
    /\ proc[p].at \in {"request", "wait", "finish"} =>
          /\ proc[p].task \in Tasks /\ status[proc[p].task] # "NONE"
          /\ gate[proc[p].task] = p
    /\ proc[p].at \in {"wait", "finish"} /\ Cancels(proc[p].op) =>
          proc[p].task \in cancelled
\* A scheduler owns the slot from its selection to the end of the activity.
SchedulerOK(s) ==
    sched[s].at \in {"selected", "working"} =>
        /\ sched[s].task \in Tasks /\ sched[s].kind # "none"
        /\ slot.owner = s
\* A recovery holds the gates it has locked, all it listed once it goes on;
\* it owns the slot once it has stolen it, so that nothing is admitted after
\* it settled the leases, and nobody cancels what it has dropped.
RecoveryOK(r) ==
    /\ rec[r].locked \subseteq rec[r].controlled
    /\ rec[r].at = "off" => rec[r].locked = {}
    /\ \A t \in rec[r].locked : gate[t] = r
    /\ rec[r].at \notin {"off", "gates"} => rec[r].locked = rec[r].controlled
    /\ rec[r].at \in {"settle", "unlock", "final", "done"} => slot.owner = r
    /\ rec[r].at \in {"unlock", "final", "done"} => leases = {}
    /\ rec[r].at = "done" => cancelled \cap rec[r].controlled = {}

Inv ==
    /\ TypeOK /\ Placed /\ OneActivePerRepository
    /\ \A p \in Procs : CommandOK(p)
    /\ \A s \in Scheds : SchedulerOK(s)
    /\ \A r \in Recoverers : RecoveryOK(r)

-----------------------------------------------------------------------------
(* Types.                                                                  *)

Holders == {"free"} \cup Procs \cup Scheds \cup Recoverers

\* A nonempty set of Tasks has a least one, which SortedTasks puts first.
LEMMA MinTask ==
    ASSUME NEW T \in SUBSET Tasks, T # {}
    PROVE  Min(T) \in T
  <1>1. T \subseteq Nat
    OBVIOUS
  <1>2. PICK x \in T : \A y \in T : ~ (<<y, x>> \in OpToRel(<, Nat))
    BY <1>1, NatLessThanWellFounded, WFMin
  <1>3. \A y \in T : ~ (y < x)
    BY <1>1, <1>2 DEF OpToRel
  <1>4. \A y \in T : x <= y
    BY <1>1, <1>3
  <1> QED BY <1>4 DEF Min

\* The fresh values are well-typed.
LEMMA FreshTypes ==
    /\ IdleSlot \in SlotRecord /\ NoProc \in ProcRecord
    /\ NoSched \in SchedRecord /\ NoRec \in RecRecord
  BY DEF IdleSlot, NoProc, NoSched, NoRec, SlotRecord, ProcRecord,
         SchedRecord, RecRecord
\* Gates that are freed, a slot that is released and a recovery that leaves.
LEMMA FreedType ==
    ASSUME TypeOK, NEW who
    PROVE  Freed(who) \in [Tasks -> Holders]
  BY DEF TypeOK, LocksOK, Freed, Holders
LEMMA ReleaseType ==
    ASSUME TypeOK, NEW who, Release(who)
    PROVE  slot' \in SlotRecord /\ pending' \subseteq Tasks
  BY FreshTypes DEF TypeOK, ActivitiesOK, Release
LEMMA LeavesType ==
    ASSUME TypeOK, NEW r \in Recoverers, Leaves(r)
    PROVE  /\ slot' \in SlotRecord /\ pending' \subseteq Tasks
           /\ gate' \in [Tasks -> Holders]
           /\ rec' \in [Recoverers -> RecRecord]
  <1>1. rec' \in [Recoverers -> RecRecord]
    BY FreshTypes DEF TypeOK, ProcessesOK, Leaves
  <1> QED BY <1>1, FreedType, ReleaseType DEF Leaves

\* What a step leaves alone stays well-typed.
LEMMA SameTypes ==
    ASSUME TypeOK
    PROVE  /\ UNCHANGED <<status, path, identity>> => BindingOK'
           /\ UNCHANGED document => BindingOK' /\ ActivitiesOK'
           /\ UNCHANGED <<cancelled, pending, leases, slot, blocked>> =>
                 ActivitiesOK'
           /\ UNCHANGED <<gate, runLock>> => LocksOK'
           /\ UNCHANGED <<proc, sched, rec>> => ProcessesOK'
           /\ UNCHANGED env => EnvOK'
  <1>1. UNCHANGED <<status, path, identity>> => BindingOK'
    BY DEF TypeOK, BindingOK
  <1>2. UNCHANGED <<cancelled, pending, leases, slot, blocked>> =>
           ActivitiesOK'
    BY DEF TypeOK, ActivitiesOK
  <1>3. UNCHANGED <<gate, runLock>> => LocksOK'
    BY DEF TypeOK, LocksOK
  <1>4. UNCHANGED <<proc, sched, rec>> => ProcessesOK'
    BY DEF TypeOK, ProcessesOK
  <1>5. UNCHANGED env => EnvOK'
    BY DEF TypeOK, EnvOK, env
  <1> QED BY <1>1, <1>2, <1>3, <1>4, <1>5 DEF document

LEMMA TypeInit == Init => TypeOK
  <1> SUFFICES ASSUME Init PROVE TypeOK
    OBVIOUS
  <1>1. BindingOK /\ LocksOK
    BY DEF Init, BindingOK, LocksOK
  <1>2. ActivitiesOK
    BY FreshTypes DEF Init, ActivitiesOK
  <1>3. ProcessesOK
    BY FreshTypes DEF Init, ProcessesOK
  <1>4. EnvOK
    BY DEF Init, EnvOK
  <1> QED BY <1>1, <1>2, <1>3, <1>4 DEF TypeOK

\* The steps of commands are well-typed.
LEMMA ProcType ==
    ASSUME TypeOK, NEW p \in Procs, NEW v \in ProcRecord,
           proc' = [proc EXCEPT ![p] = v], UNCHANGED <<sched, rec>>
    PROVE  ProcessesOK'
  BY DEF TypeOK, ProcessesOK
LEMMA CommandTypes ==
    ASSUME TypeOK, Placed, NEW p \in Procs, CommandOK(p),
           \/ \E d \in Paths : CreateReads(p, d)
           \/ CreateTask(p) \/ RequestCancellation(p) \/ Settled(p)
           \/ GiveUp(p) \/ Finish(p)
           \/ \E t \in Tasks : \E op \in {"resume", "suspend", "close",
                 "option", "stopOption"} : Begin(p, op, t)
    PROVE  TypeOK'
  <1> USE SameTypes
  <1>0. /\ BindingOK /\ ActivitiesOK /\ LocksOK /\ ProcessesOK /\ EnvOK
        /\ proc[p] \in ProcRecord
    BY DEF TypeOK, ProcessesOK
  <1> SUFFICES BindingOK' /\ ActivitiesOK' /\ LocksOK' /\ ProcessesOK'
                 /\ EnvOK'
    BY DEF TypeOK
  <1>1. CASE \E d \in Paths : CreateReads(p, d)
    <2>1. PICK d \in Paths : CreateReads(p, d)
      BY <1>1
    <2>2. [at |-> "create", op |-> "create", task |-> None, path |-> d,
           identity |-> at[d]] \in ProcRecord
      BY <1>0 DEF EnvOK, ProcRecord
    <2>3. ProcessesOK'
      BY <2>1, <2>2, ProcType DEF CreateReads
    <2> QED BY <2>1, <2>3 DEF CreateReads
  <1>2. CASE CreateTask(p)
    <2> DEFINE t == Min(Tasks \ Created)
    <2>1. ProcessesOK'
      BY <1>2, FreshTypes, ProcType DEF CreateTask
    <2>2. BindingOK'
      <3>1. /\ proc[p].path \in Paths \cup {"none"}
            /\ proc[p].identity \in Repos \cup {"none"}
        BY <1>0 DEF ProcRecord
      <3>2. \/ UNCHANGED <<status, path, identity>>
            \/ /\ status' = [status EXCEPT ![t] = "ACTIVE"]
               /\ path' = [path EXCEPT ![t] = proc[p].path]
               /\ identity' = [identity EXCEPT ![t] = proc[p].identity]
        BY <1>2 DEF CreateTask
      <3> HIDE DEF t
      <3> QED BY <1>0, <3>1, <3>2 DEF BindingOK
    <2> QED BY <1>2, <2>1, <2>2 DEF CreateTask
  <1>3. CASE RequestCancellation(p)
    <2>1. [proc[p] EXCEPT !.at = "wait"] \in ProcRecord
      BY <1>0 DEF ProcRecord
    <2>2. proc' = [proc EXCEPT ![p] = [proc[p] EXCEPT !.at = "wait"]]
      BY <1>3 DEF RequestCancellation
    <2>3. ProcessesOK'
      BY <1>3, <2>1, <2>2, ProcType DEF RequestCancellation
    <2>4. proc[p].task \in Tasks
      BY <1>3 DEF RequestCancellation, CommandOK
    <2>5. ActivitiesOK'
      BY <1>0, <1>3, <2>4 DEF RequestCancellation, ActivitiesOK
    <2> QED BY <1>3, <2>3, <2>5 DEF RequestCancellation
  <1>4. CASE Settled(p)
    <2>1. [proc[p] EXCEPT !.at = "finish"] \in ProcRecord
      BY <1>0 DEF ProcRecord
    <2>2. proc' = [proc EXCEPT ![p] = [proc[p] EXCEPT !.at = "finish"]]
      BY <1>4 DEF Settled
    <2>3. ProcessesOK'
      BY <1>4, <2>1, <2>2, ProcType DEF Settled
    <2> QED BY <1>4, <2>3 DEF Settled
  <1>5. CASE GiveUp(p)
    <2>1. ProcessesOK'
      BY <1>5, FreshTypes, ProcType DEF GiveUp, Answered
    <2>2. LocksOK'
      BY <1>0, <1>5, FreedType DEF GiveUp, Answered, LocksOK, Holders
    <2>3. EnvOK'
      BY <1>0, <1>5 DEF GiveUp, EnvOK
    <2> QED BY <1>5, <2>1, <2>2, <2>3 DEF GiveUp
  <1>6. CASE Finish(p)
    <2>1. ProcessesOK'
      BY <1>6, FreshTypes, ProcType DEF Finish, Answered
    <2>2. LocksOK'
      BY <1>0, <1>6, FreedType DEF Finish, Answered, LocksOK, Holders
    <2>3. BindingOK'
      <3>1. \E after \in {"SUSPENDED", "CLOSED", "ACTIVE"} :
               status' \in {status, [status EXCEPT ![proc[p].task] = after]}
        BY <1>6 DEF Finish
      <3>2. /\ path' = path
            /\ identity' \in {identity,
                  [identity EXCEPT ![proc[p].task] = proc[p].identity]}
        BY <1>6 DEF Finish
      <3>3. proc[p].identity \in Repos \cup {"none"}
        BY <1>0 DEF ProcRecord
      <3> QED BY <1>0, <3>1, <3>2, <3>3 DEF BindingOK
    <2>4. ActivitiesOK'
      <3>1. /\ cancelled' \in {cancelled, cancelled \ {proc[p].task}}
            /\ pending' \in {pending, pending \ {proc[p].task}}
            /\ UNCHANGED <<leases, slot>>
        BY <1>6 DEF Finish
      <3>2. blocked' \in BOOLEAN
        BY <1>6 DEF Finish
      <3> QED BY <1>0, <3>1, <3>2 DEF ActivitiesOK
    <2> QED BY <1>6, <2>1, <2>2, <2>3, <2>4 DEF Finish
  <1>7. CASE \E t \in Tasks : \E op \in {"resume", "suspend", "close",
                "option", "stopOption"} : Begin(p, op, t)
    <2>1. PICK t \in Tasks, op \in {"resume", "suspend", "close", "option",
                  "stopOption"} : Begin(p, op, t)
      BY <1>7
    <2> DEFINE v == [at |-> IF Cancels(op) THEN "request" ELSE "finish",
                     op |-> op, task |-> t, path |-> path[t],
                     identity |-> IF op = "resume" THEN at[path[t]]
                                  ELSE "none"]
    <2>2. op = "resume" => path[t] \in Paths
      BY <2>1 DEF Begin, Placed
    <2>3. v \in ProcRecord
      BY <1>0, <2>2 DEF ProcRecord, BindingOK, EnvOK
    <2>4. ProcessesOK'
      BY <2>1, <2>3, ProcType DEF Begin
    <2>5. LocksOK'
      BY <1>0, <2>1 DEF Begin, LocksOK
    <2> QED BY <2>1, <2>4, <2>5 DEF Begin
  <1> QED BY <1>1, <1>2, <1>3, <1>4, <1>5, <1>6, <1>7

\* The steps of schedulers are well-typed.
LEMMA SchedType ==
    ASSUME TypeOK, NEW s \in Scheds, NEW v \in SchedRecord,
           sched' = [sched EXCEPT ![s] = v], UNCHANGED <<proc, rec>>
    PROVE  ProcessesOK'
  BY DEF TypeOK, ProcessesOK
LEMMA SchedTypes ==
    ASSUME TypeOK, NEW s \in Scheds, SchedulerOK(s),
           \/ SchedStart(s) \/ SchedStop(s) \/ Admit(s) \/ LockForPromotion(s)
           \/ EndActivity(s) \/ SchedCrash(s)
           \/ \E t \in Tasks : \E kind \in {"attempt", "ci", "promotion"} :
                 Select(s, t, kind)
    PROVE  TypeOK'
  <1> USE SameTypes
  <1>0. /\ BindingOK /\ ActivitiesOK /\ LocksOK /\ ProcessesOK /\ EnvOK
        /\ sched[s] \in SchedRecord /\ sched \in [Scheds -> SchedRecord]
        /\ slot \in SlotRecord
    BY DEF TypeOK, ProcessesOK, ActivitiesOK
  <1>i. [NoSched EXCEPT !.at = "idle"] \in SchedRecord
    BY DEF NoSched, SchedRecord
  <1>w. [sched[s] EXCEPT !.at = "working"] \in SchedRecord
    BY <1>0 DEF SchedRecord
  <1> SUFFICES BindingOK' /\ ActivitiesOK' /\ LocksOK' /\ ProcessesOK'
                 /\ EnvOK'
    BY DEF TypeOK
  <1>1. CASE SchedStart(s)
    <2>1. LocksOK'
      BY <1>0, <1>1 DEF SchedStart, LocksOK
    <2>2. [sched[s] EXCEPT !.at = "idle"] \in SchedRecord
      BY <1>0 DEF SchedRecord
    <2>3. \/ UNCHANGED sched
          \/ sched' = [sched EXCEPT ![s] = [sched[s] EXCEPT !.at = "idle"]]
      BY <1>1 DEF SchedStart
    <2>4. ProcessesOK'
      BY <1>1, <2>2, <2>3, SchedType DEF SchedStart
    <2> QED BY <1>1, <2>1, <2>4 DEF SchedStart
  <1>2. CASE SchedStop(s)
    <2>1. LocksOK' /\ ProcessesOK'
      BY <1>0, <1>2, FreshTypes, SchedType DEF SchedStop, LocksOK
    <2> QED BY <1>2, <2>1 DEF SchedStop
  <1>3. CASE Admit(s)
    <2>1. CASE leases' = {<<sched[s].task, sched[s].kind>>}
                 /\ sched' = [sched EXCEPT ![s].at = "working"]
                 /\ UNCHANGED <<slot, pending, blocked>>
      <3>1. /\ sched[s].task \in Tasks /\ sched[s].kind # "none"
            /\ sched[s].kind # "promotion"
        BY <1>3 DEF Admit, SchedulerOK
      <3>2. sched[s].kind \in {"attempt", "ci"}
        BY <1>0, <3>1 DEF SchedRecord
      <3>3. ActivitiesOK'
        BY <1>0, <1>3, <2>1, <3>1, <3>2 DEF Admit, ActivitiesOK
      <3>4. sched' = [sched EXCEPT ![s] = [sched[s] EXCEPT !.at = "working"]]
        BY <2>1
      <3>5. ProcessesOK'
        BY <1>3, <1>w, <3>4, SchedType DEF Admit
      <3> QED BY <1>3, <3>3, <3>5 DEF Admit
    <2>2. CASE Idle(s) /\ Release(s) /\ UNCHANGED leases
      <3>1. slot' \in SlotRecord /\ pending' \subseteq Tasks
        BY <2>2, ReleaseType
      <3>2. blocked' \in BOOLEAN
        BY <1>0, <1>3 DEF Admit, ActivitiesOK
      <3>3. ActivitiesOK'
        BY <1>0, <1>3, <2>2, <3>1, <3>2 DEF Admit, ActivitiesOK
      <3>4. ProcessesOK'
        BY <1>3, <1>i, <2>2, SchedType DEF Admit, Idle
      <3> QED BY <1>3, <3>3, <3>4 DEF Admit
    <2> QED BY <1>3, <2>1, <2>2 DEF Admit
  <1>4. CASE LockForPromotion(s)
    <2>1. CASE gate[sched[s].task] = "free"
      <3>1. LocksOK'
        BY <1>0, <1>4, <2>1 DEF LockForPromotion, LocksOK
      <3>2. sched' = [sched EXCEPT ![s] = [sched[s] EXCEPT !.at = "working"]]
        BY <1>4, <2>1 DEF LockForPromotion
      <3>3. ProcessesOK'
        BY <1>4, <1>w, <3>2, SchedType DEF LockForPromotion
      <3> QED BY <1>4, <2>1, <3>1, <3>3 DEF LockForPromotion
    <2>2. CASE gate[sched[s].task] # "free"
      <3>1. Idle(s) /\ Release(s) /\ UNCHANGED gate
        BY <1>4, <2>2 DEF LockForPromotion
      <3>2. ActivitiesOK'
        BY <1>0, <1>4, <3>1, ReleaseType DEF LockForPromotion, ActivitiesOK
      <3>3. ProcessesOK'
        BY <1>4, <1>i, <3>1, SchedType DEF LockForPromotion, Idle
      <3> QED BY <1>4, <3>1, <3>2, <3>3 DEF LockForPromotion
    <2> QED BY <2>1, <2>2
  <1>5. CASE EndActivity(s)
    <2>1. LocksOK'
      BY <1>0, <1>5, FreedType DEF EndActivity, LocksOK, Holders
    <2>2. ProcessesOK'
      BY <1>5, <1>i, SchedType DEF EndActivity, Idle
    <2>3. leases' \subseteq leases /\ pending' \subseteq pending
      BY <1>5, Zenon DEF EndActivity
    <2>4. ActivitiesOK'
      BY <1>0, <1>5, <2>3, FreshTypes DEF EndActivity, ActivitiesOK
    <2> QED BY <1>5, <2>1, <2>2, <2>4 DEF EndActivity
  <1>6. CASE SchedCrash(s)
    <2>1. LocksOK'
      BY <1>0, <1>6, FreedType DEF SchedCrash, LocksOK, Holders
    <2>2. ProcessesOK'
      BY <1>6, FreshTypes, SchedType DEF SchedCrash
    <2>3. slot' \in SlotRecord
      BY <1>0, <1>6 DEF SchedCrash, SlotRecord
    <2>4. ActivitiesOK'
      BY <1>0, <1>6, <2>3 DEF SchedCrash, ActivitiesOK
    <2>5. EnvOK'
      BY <1>0, <1>6 DEF SchedCrash, EnvOK
    <2> QED BY <1>6, <2>1, <2>2, <2>4, <2>5 DEF SchedCrash
  <1>7. CASE \E t \in Tasks : \E kind \in {"attempt", "ci", "promotion"} :
                Select(s, t, kind)
    <2>1. PICK t \in Tasks, kind \in {"attempt", "ci", "promotion"} :
             Select(s, t, kind)
      BY <1>7
    <2>2. [at |-> "selected", kind |-> kind, task |-> t] \in SchedRecord
      BY DEF SchedRecord
    <2>3. ProcessesOK'
      BY <2>1, <2>2, SchedType DEF Select
    <2>4. slot' \in SlotRecord
      BY <2>1 DEF Select, SlotRecord
    <2>5. ActivitiesOK'
      BY <1>0, <2>1, <2>4 DEF Select, ActivitiesOK
    <2> QED BY <2>1, <2>3, <2>5 DEF Select
  <1> QED BY <1>1, <1>2, <1>3, <1>4, <1>5, <1>6, <1>7

\* The steps of recoveries are well-typed.
LEMMA RecType ==
    ASSUME TypeOK, NEW r \in Recoverers, NEW v \in RecRecord,
           rec' = [rec EXCEPT ![r] = v]
    PROVE  rec' \in [Recoverers -> RecRecord]
  BY DEF TypeOK, ProcessesOK
LEMMA RecoverTypes ==
    ASSUME TypeOK, NEW r \in Recoverers, RecoveryOK(r),
           RecoverStart(r) \/ RecoverStep(r) \/ RecoverFails(r)
              \/ RecoverCrash(r)
    PROVE  TypeOK'
  <1> USE SameTypes
  <1>0. /\ BindingOK /\ ActivitiesOK /\ LocksOK /\ ProcessesOK /\ EnvOK
        /\ rec[r] \in RecRecord /\ rec \in [Recoverers -> RecRecord]
        /\ slot \in SlotRecord
    BY DEF TypeOK, ProcessesOK, ActivitiesOK
  <1>l. ASSUME Leaves(r)
        PROVE  /\ slot' \in SlotRecord /\ pending' \subseteq Tasks
               /\ gate' \in [Tasks -> Holders]
               /\ rec' \in [Recoverers -> RecRecord]
    BY <1>l, LeavesType
  <1>g. ASSUME NEW a \in {"gates", "steal", "settle", "unlock", "final",
                          "done"},
               rec' = [rec EXCEPT ![r].at = a]
        PROVE  rec' \in [Recoverers -> RecRecord]
    <2>1. [rec[r] EXCEPT !.at = a] \in RecRecord
      BY <1>0 DEF RecRecord
    <2>2. rec' = [rec EXCEPT ![r] = [rec[r] EXCEPT !.at = a]]
      BY <1>g
    <2> QED BY <2>1, <2>2, RecType
  <1> SUFFICES BindingOK' /\ ActivitiesOK' /\ LocksOK' /\ ProcessesOK'
                 /\ EnvOK'
    BY DEF TypeOK
  <1>1. CASE RecoverStart(r)
    <2>1. [rec[r] EXCEPT !.at = "gates", !.controlled = Created] \in RecRecord
      BY <1>0 DEF RecRecord, Created
    <2>2. rec' = [rec EXCEPT ![r] =
                    [rec[r] EXCEPT !.at = "gates", !.controlled = Created]]
      BY <1>0, <1>1 DEF RecoverStart
    <2>3. rec' \in [Recoverers -> RecRecord]
      BY <2>1, <2>2, RecType
    <2> QED BY <1>0, <1>1, <2>3 DEF RecoverStart, ProcessesOK
  <1>2. CASE RecoverGate(r)
    <2> DEFINE t == Min(rec[r].controlled \ rec[r].locked)
    <2>1. CASE gate[t] = "free"
      <3>1. /\ gate' = [gate EXCEPT ![t] = r]
            /\ rec' = [rec EXCEPT ![r].locked = @ \cup {t}]
            /\ UNCHANGED <<slot, pending>>
        BY <1>2, <2>1 DEF RecoverGate, TakesGate
      <3>2. t \in Tasks
        <4>1. rec[r].controlled \subseteq Tasks
          BY <1>0 DEF RecRecord
        <4>2. rec[r].controlled \ rec[r].locked # {}
          BY <1>2, <4>1 DEF RecoverGate, RecoveryOK
        <4> QED BY <4>1, <4>2, MinTask
      <3> HIDE DEF t
      <3>3. [rec[r] EXCEPT !.locked = @ \cup {t}] \in RecRecord
        BY <1>0, <3>2 DEF RecRecord
      <3>4. rec' = [rec EXCEPT ![r] = [rec[r] EXCEPT !.locked = @ \cup {t}]]
        BY <3>1
      <3>5. rec' \in [Recoverers -> RecRecord]
        BY <3>3, <3>4, RecType
      <3>6. gate' \in [Tasks -> Holders]
        BY <1>0, <3>1, <3>2 DEF LocksOK, Holders
      <3>7. LocksOK'
        BY <1>0, <1>2, <3>6 DEF RecoverGate, LocksOK, Holders
      <3> QED BY <1>0, <1>2, <3>1, <3>5, <3>7 DEF RecoverGate, ProcessesOK
    <2>2. CASE gate[t] # "free"
      <3>1. Leaves(r)
        BY <1>2, <2>2 DEF RecoverGate, TakesGate
      <3> QED BY <1>0, <1>2, <1>l, <3>1
              DEF RecoverGate, ActivitiesOK, LocksOK, ProcessesOK, Holders
    <2> QED BY <2>1, <2>2
  <1>3. CASE RecoverReads(r)
    <2>1. CASE Alive(slot.owner)
      <3>1. Leaves(r)
        BY <1>3, <2>1 DEF RecoverReads
      <3> QED BY <1>0, <1>3, <1>l, <3>1
              DEF RecoverReads, ActivitiesOK, LocksOK, ProcessesOK, Holders
    <2>2. CASE ~Alive(slot.owner)
      <3> DEFINE read == {l[1] : l \in Attempts}
      <3>1. /\ rec' = [rec EXCEPT ![r] =
                         [rec[r] EXCEPT !.at = "steal", !.snapshot = read]]
            /\ UNCHANGED <<slot, pending, gate>>
        BY <1>0, <1>3, <2>2 DEF RecoverReads
      <3>2. read \subseteq Tasks
        BY <1>0 DEF Attempts, ActivitiesOK
      <3>3. [rec[r] EXCEPT !.at = "steal", !.snapshot = read] \in RecRecord
        <4> HIDE DEF read
        <4> QED BY <1>0, <3>2 DEF RecRecord
      <3>4. rec' \in [Recoverers -> RecRecord]
        BY <3>1, <3>3, RecType
      <3> QED BY <1>0, <1>3, <3>1, <3>4 DEF RecoverReads, ProcessesOK
    <2> QED BY <2>1, <2>2
  <1>4. CASE RecoverSteal(r)
    <2>1. CASE Alive(slot.owner)
      <3>1. Leaves(r)
        BY <1>4, <2>1 DEF RecoverSteal
      <3> QED BY <1>0, <1>4, <1>l, <3>1
              DEF RecoverSteal, ActivitiesOK, LocksOK, ProcessesOK, Holders
    <2>2. CASE ~Alive(slot.owner)
      <3>1. /\ slot' = [owner |-> r, task |-> None]
            /\ rec' = [rec EXCEPT ![r].at = "settle"]
            /\ UNCHANGED <<pending, gate>>
        BY <1>4, <2>2 DEF RecoverSteal
      <3>2. slot' \in SlotRecord
        BY <3>1 DEF SlotRecord
      <3> QED BY <1>0, <1>4, <1>g, <3>1, <3>2
              DEF RecoverSteal, ActivitiesOK, ProcessesOK
    <2> QED BY <2>1, <2>2
  <1>5. CASE \E t \in Tasks : RecoverAttempt(r, t)
    <2>1. PICK t \in Tasks : RecoverAttempt(r, t)
      BY <1>5
    <2>2. [rec[r] EXCEPT !.snapshot = @ \ {t}] \in RecRecord
      BY <1>0 DEF RecRecord
    <2>3. rec' = [rec EXCEPT ![r] = [rec[r] EXCEPT !.snapshot = @ \ {t}]]
      BY <2>1 DEF RecoverAttempt
    <2>4. rec' \in [Recoverers -> RecRecord]
      BY <2>2, <2>3, RecType
    <2>5. leases' \subseteq leases /\ pending' \subseteq pending
      BY <2>1, Zenon DEF RecoverAttempt
    <2>6. ActivitiesOK'
      BY <1>0, <2>1, <2>5 DEF RecoverAttempt, ActivitiesOK
    <2> QED BY <1>0, <2>1, <2>4, <2>6 DEF RecoverAttempt, ProcessesOK
  <1>6. CASE RecoverLeases(r)
    <2>1. CASE NoAttemptLease
      <3>1. /\ leases' = Attempts
            /\ pending' = pending \ {l[1] : l \in leases}
            /\ rec' = [rec EXCEPT ![r].at = "unlock"]
            /\ UNCHANGED <<slot, blocked, gate>>
        BY <1>6, <2>1 DEF RecoverLeases
      <3>2. leases' \subseteq leases /\ pending' \subseteq pending
        BY <3>1 DEF Attempts
      <3>3. ActivitiesOK'
        BY <1>0, <1>6, <3>1, <3>2 DEF RecoverLeases, ActivitiesOK
      <3> QED BY <1>0, <1>6, <1>g, <3>1, <3>3 DEF RecoverLeases, ProcessesOK
    <2>2. CASE ~NoAttemptLease
      <3>1. Leaves(r) /\ blocked' = TRUE /\ UNCHANGED leases
        BY <1>6, <2>2 DEF RecoverLeases
      <3> QED BY <1>0, <1>6, <1>l, <3>1
              DEF RecoverLeases, ActivitiesOK, LocksOK, ProcessesOK, Holders
    <2> QED BY <2>1, <2>2
  <1>7. CASE RecoverUnlock(r)
    <2>1. LocksOK'
      BY <1>0, <1>7 DEF RecoverUnlock, LocksOK
    <2>2. rec' \in [Recoverers -> RecRecord]
      BY <1>7, <1>g DEF RecoverUnlock
    <2> QED BY <1>0, <1>7, <2>1, <2>2 DEF RecoverUnlock, ProcessesOK
  <1>8. CASE RecoverFinal(r)
    <2>1. CASE \A t \in rec[r].controlled : TaskQuiescent(t)
      <3>1. /\ cancelled' = cancelled \ Drops(r)
            /\ pending' = pending \ Drops(r)
            /\ rec' = [rec EXCEPT ![r].at = "done"]
            /\ UNCHANGED <<slot, gate>>
        BY <1>8, <2>1 DEF RecoverFinal
      <3>2. ActivitiesOK'
        BY <1>0, <1>8, <3>1 DEF RecoverFinal, ActivitiesOK
      <3> QED BY <1>0, <1>8, <1>g, <3>1, <3>2 DEF RecoverFinal, ProcessesOK
    <2>2. CASE ~\A t \in rec[r].controlled : TaskQuiescent(t)
      <3>1. Leaves(r) /\ UNCHANGED cancelled
        BY <1>8, <2>2 DEF RecoverFinal
      <3> QED BY <1>0, <1>8, <1>l, <3>1
              DEF RecoverFinal, ActivitiesOK, LocksOK, ProcessesOK, Holders
    <2> QED BY <2>1, <2>2
  <1>9. CASE RecoverDone(r) \/ RecoverFails(r)
    <2>1. /\ Leaves(r)
          /\ UNCHANGED <<status, path, identity, cancelled, leases, blocked,
                         runLock, proc, sched, env>>
      BY <1>9 DEF RecoverDone, RecoverFails
    <2> QED BY <1>0, <1>l, <2>1
            DEF ActivitiesOK, LocksOK, ProcessesOK, Holders
  <1>10. CASE RecoverCrash(r)
    <2>1. LocksOK'
      BY <1>0, <1>10, FreedType DEF RecoverCrash, LocksOK, Holders
    <2>2. rec' \in [Recoverers -> RecRecord]
      BY <1>10, FreshTypes, RecType DEF RecoverCrash
    <2>3. slot' \in SlotRecord
      BY <1>0, <1>10 DEF RecoverCrash, SlotRecord
    <2>4. ActivitiesOK'
      BY <1>0, <1>10, <2>3 DEF RecoverCrash, ActivitiesOK
    <2>5. EnvOK'
      BY <1>0, <1>10 DEF RecoverCrash, EnvOK
    <2> QED BY <1>0, <1>10, <2>1, <2>2, <2>4, <2>5
            DEF RecoverCrash, ProcessesOK
  <1> QED BY <1>1, <1>2, <1>3, <1>4, <1>5, <1>6, <1>7, <1>8, <1>9, <1>10
          DEF RecoverStep

LEMMA TypeStep ==
    ASSUME Inv, [Next]_vars
    PROVE  TypeOK'
  <1>0. /\ TypeOK /\ Placed
        /\ \A p \in Procs : CommandOK(p)
        /\ \A s \in Scheds : SchedulerOK(s)
        /\ \A r \in Recoverers : RecoveryOK(r)
    BY DEF Inv
  <1> USE SameTypes
  <1>1. CASE ResolveBlocker
    <2>1. ActivitiesOK'
      BY <1>0, <1>1 DEF ResolveBlocker, TypeOK, ActivitiesOK
    <2> QED BY <1>0, <1>1, <2>1 DEF ResolveBlocker, TypeOK
  <1>2. CASE \E d \in Paths, repo \in Repos : Move(d, repo)
    <2>1. EnvOK'
      BY <1>0, <1>2 DEF Move, TypeOK, EnvOK
    <2> QED BY <1>0, <1>2, <2>1 DEF Move, TypeOK
  <1>3. CASE UNCHANGED vars
    BY <1>0, <1>3 DEF vars, TypeOK
  <1> QED BY <1>0, <1>1, <1>2, <1>3, CommandTypes, SchedTypes, RecoverTypes
          DEF Next

-----------------------------------------------------------------------------
(* What a step of one process may do to what the others rely on.           *)

\* The gates of others stay theirs, and so does the slot.
GatesKept(who) ==
    \A t \in Tasks : gate[t] \notin {"free", who} => gate'[t] = gate[t]
SlotKept(who) ==
    slot.owner \notin {"none", "dead", who} => slot'.owner = slot.owner
\* Cancellations come and go only with the gate, leases come with the slot.
CancelsOwn(who) ==
    \A t \in Tasks : gate[t] # who => (t \in cancelled <=> t \in cancelled')
AdmitsOwn(who) == slot.owner # who /\ leases = {} => leases' = {}
StatusKept == \A t \in Tasks : status[t] # "NONE" => status'[t] # "NONE"
LocalsKept(who) ==
    /\ \A p \in Procs \ {who} : proc'[p] = proc[p]
    /\ \A s \in Scheds \ {who} : sched'[s] = sched[s]
    /\ \A r \in Recoverers \ {who} : rec'[r] = rec[r]
Interference(who) ==
    /\ GatesKept(who) /\ SlotKept(who) /\ CancelsOwn(who) /\ AdmitsOwn(who)
    /\ StatusKept /\ LocalsKept(who)

\* No process is taken for another, or for a mark of a gate or of the slot.
LEMMA Distinct ==
    /\ \A p \in Procs : p \notin Scheds /\ p \notin Recoverers
    /\ \A s \in Scheds : s \notin Recoverers
    /\ \A x \in Procs \cup Scheds \cup Recoverers :
          x \notin {"none", "dead", "free", "stale"}
  BY Zenon

\* Nothing that such a step does disturbs another process.
LEMMA Undisturbed ==
    ASSUME TypeOK, TypeOK', NEW who, Interference(who)
    PROVE  /\ \A p \in Procs \ {who} : CommandOK(p) => CommandOK(p)'
           /\ \A s \in Scheds \ {who} : SchedulerOK(s) => SchedulerOK(s)'
           /\ \A r \in Recoverers \ {who} : RecoveryOK(r) => RecoveryOK(r)'
  <1>0. GatesKept(who) /\ SlotKept(who) /\ CancelsOwn(who) /\ AdmitsOwn(who)
          /\ StatusKept /\ LocalsKept(who)
    BY DEF Interference
  <1>1. ASSUME NEW p \in Procs \ {who}, CommandOK(p)
        PROVE  CommandOK(p)'
    <2>1. proc'[p] = proc[p]
      BY <1>0 DEF LocalsKept
    <2>2. \A t \in Tasks : gate[t] = p => gate'[t] = p
      BY <1>0, Distinct DEF GatesKept
    <2>3. \A t \in Tasks : gate[t] = p /\ t \in cancelled => t \in cancelled'
      BY <1>0 DEF CancelsOwn
    <2> QED BY <1>0, <1>1, <2>1, <2>2, <2>3 DEF CommandOK, StatusKept
  <1>2. ASSUME NEW s \in Scheds \ {who}, SchedulerOK(s)
        PROVE  SchedulerOK(s)'
    <2>1. sched'[s] = sched[s]
      BY <1>0 DEF LocalsKept
    <2>2. slot.owner = s => slot'.owner = s
      BY <1>0, Distinct DEF SlotKept
    <2> QED BY <1>2, <2>1, <2>2 DEF SchedulerOK
  <1>3. ASSUME NEW r \in Recoverers \ {who}, RecoveryOK(r)
        PROVE  RecoveryOK(r)'
    <2>1. rec'[r] = rec[r]
      BY <1>0 DEF LocalsKept
    <2>2. \A t \in Tasks : gate[t] = r => gate'[t] = r
      BY <1>0, Distinct DEF GatesKept
    <2>3. slot.owner = r => slot'.owner = r
      BY <1>0, Distinct DEF SlotKept
    <2>4. \A t \in Tasks : gate[t] = r /\ t \notin cancelled =>
             t \notin cancelled'
      BY <1>0 DEF CancelsOwn
    <2>5. slot.owner = r /\ leases = {} => leases' = {}
      BY <1>0 DEF AdmitsOwn
    <2>6. rec[r].locked \subseteq Tasks /\ rec[r].controlled \subseteq Tasks
      BY DEF TypeOK, ProcessesOK, RecRecord
    <2>7. rec[r].at = "done" => cancelled' \cap rec[r].controlled = {}
      <3> SUFFICES ASSUME rec[r].at = "done", NEW t \in rec[r].controlled
                   PROVE  t \notin cancelled'
        OBVIOUS
      <3>1. t \in Tasks /\ gate[t] = r /\ t \notin cancelled
        BY <1>3, <2>6 DEF RecoveryOK
      <3> QED BY <2>4, <3>1
    <2>8. \A t \in rec[r].locked : gate'[t] = r
      BY <1>3, <2>2, <2>6 DEF RecoveryOK
    <2> QED BY <1>3, <2>1, <2>3, <2>5, <2>7, <2>8 DEF RecoveryOK
  <1> QED BY <1>1, <1>2, <1>3

\* Freed gates, a gate that was free, and a released slot are of no concern
\* to the others.
LEMMA FreedKept ==
    ASSUME TypeOK, NEW who
    PROVE  /\ gate' = Freed(who) => GatesKept(who)
           /\ \A t \in Tasks : gate[t] = "free" /\
                 gate' = [gate EXCEPT ![t] = who] => GatesKept(who)
           /\ UNCHANGED gate => GatesKept(who)
  <1>0. gate \in [Tasks -> Holders]
    BY DEF TypeOK, LocksOK, Holders
  <1>1. gate' = Freed(who) => GatesKept(who)
    BY DEF Freed, GatesKept
  <1>2. ASSUME NEW t \in Tasks, gate[t] = "free",
               gate' = [gate EXCEPT ![t] = who]
        PROVE  GatesKept(who)
    BY <1>0, <1>2 DEF GatesKept
  <1>3. UNCHANGED gate => GatesKept(who)
    BY DEF GatesKept
  <1> QED BY <1>1, <1>2, <1>3
LEMMA ReleaseKept ==
    ASSUME NEW who
    PROVE  (Release(who) \/ UNCHANGED slot) => SlotKept(who)
  BY DEF Release, SlotKept
\* What a step leaves alone concerns nobody.
LEMMA Kept ==
    ASSUME NEW who
    PROVE  /\ UNCHANGED cancelled => CancelsOwn(who)
           /\ UNCHANGED leases => AdmitsOwn(who)
           /\ UNCHANGED status => StatusKept
  BY DEF CancelsOwn, AdmitsOwn, StatusKept

\* A step of a process changes no other's variables.
LEMMA OwnLocals ==
    ASSUME TypeOK
    PROVE  /\ \A p \in Procs : \A v : proc' = [proc EXCEPT ![p] = v] /\
                 UNCHANGED <<sched, rec>> => LocalsKept(p) /\ proc'[p] = v
           /\ \A s \in Scheds : \A v : sched' = [sched EXCEPT ![s] = v] /\
                 UNCHANGED <<proc, rec>> => LocalsKept(s) /\ sched'[s] = v
           /\ \A r \in Recoverers : \A v : rec' = [rec EXCEPT ![r] = v] /\
                 UNCHANGED <<proc, sched>> => LocalsKept(r) /\ rec'[r] = v
  BY DEF TypeOK, ProcessesOK, LocalsKept

LEMMA CommandSteps ==
    ASSUME TypeOK, TypeOK', NEW p \in Procs, CommandOK(p),
           \/ \E d \in Paths : CreateReads(p, d)
           \/ CreateTask(p) \/ RequestCancellation(p) \/ Settled(p)
           \/ GiveUp(p) \/ Finish(p)
           \/ \E t \in Tasks : \E op \in {"resume", "suspend", "close",
                 "option", "stopOption"} : Begin(p, op, t)
    PROVE  Interference(p) /\ CommandOK(p)'
  <1> USE Kept, FreedKept, ReleaseKept
  <1>0. /\ proc[p] \in ProcRecord /\ BindingOK
        /\ gate \in [Tasks -> Holders]
    BY DEF TypeOK, ProcessesOK, LocksOK, Holders
  <1>n. proc'[p] = NoProc => CommandOK(p)'
    BY DEF CommandOK, NoProc
  <1>1. CASE \E d \in Paths : CreateReads(p, d)
    <2>1. PICK d \in Paths : CreateReads(p, d)
      BY <1>1
    <2>2. LocalsKept(p) /\ proc'[p] = [at |-> "create", op |-> "create",
             task |-> None, path |-> d, identity |-> at[d]]
      <3> DEFINE q == [at |-> "create", op |-> "create", task |-> None,
                       path |-> d, identity |-> at[d]]
      <3>1. proc' = [proc EXCEPT ![p] = q] /\ sched' = sched /\ rec' = rec
        BY <2>1 DEF CreateReads
      <3> HIDE DEF q
      <3>2. LocalsKept(p) /\ proc'[p] = q
        BY <3>1, OwnLocals
      <3> QED BY <3>2 DEF q
    <2>3. CommandOK(p)'
      BY <2>2 DEF CommandOK
    <2> QED BY <2>1, <2>2, <2>3 DEF CreateReads, document, Interference
  <1>2. CASE CreateTask(p)
    <2> DEFINE t == Min(Tasks \ Created)
    <2>1. LocalsKept(p) /\ proc'[p] = NoProc
      BY <1>2, OwnLocals DEF CreateTask
    <2>2. status' = status \/ status' = [status EXCEPT ![t] = "ACTIVE"]
      BY <1>2 DEF CreateTask
    <2>3. StatusKept
      <3> HIDE DEF t
      <3> QED BY <1>0, <2>2 DEF StatusKept, BindingOK
    <2> QED BY <1>2, <1>n, <2>1, <2>3 DEF CreateTask, Interference
  <1>3. CASE RequestCancellation(p)
    <2>1. LocalsKept(p) /\ proc'[p] = [proc[p] EXCEPT !.at = "wait"]
      BY <1>3, OwnLocals DEF RequestCancellation
    <2>2. /\ proc[p].task \in Tasks /\ gate[proc[p].task] = p
          /\ status[proc[p].task] # "NONE"
          /\ cancelled' = cancelled \cup {proc[p].task}
          /\ UNCHANGED <<status, gate, slot, leases>>
      BY <1>3 DEF RequestCancellation, CommandOK
    <2>3. CancelsOwn(p)
      BY <2>2 DEF CancelsOwn
    <2>4. proc'[p].at = "wait" /\ proc'[p].task = proc[p].task
      BY <1>0, <2>1 DEF ProcRecord
    <2>5. CommandOK(p)'
      BY <2>2, <2>4 DEF CommandOK
    <2> QED BY <2>1, <2>2, <2>3, <2>5 DEF Interference
  <1>4. CASE Settled(p)
    <2>1. LocalsKept(p) /\ proc'[p] = [proc[p] EXCEPT !.at = "finish"]
      BY <1>4, OwnLocals DEF Settled
    <2>2. /\ proc[p].at = "wait" /\ proc'[p].at = "finish"
          /\ proc'[p].task = proc[p].task /\ proc'[p].op = proc[p].op
      BY <1>0, <1>4, <2>1 DEF ProcRecord, Settled
    <2>3. UNCHANGED <<status, gate, slot, leases, cancelled>>
      BY <1>4 DEF Settled, document
    <2>4. CommandOK(p)'
      BY <2>2, <2>3 DEF CommandOK
    <2> QED BY <2>1, <2>3, <2>4 DEF Interference
  <1>5. CASE GiveUp(p)
    <2>1. LocalsKept(p) /\ proc'[p] = NoProc
      BY <1>5, OwnLocals DEF GiveUp, Answered
    <2> QED BY <1>5, <1>n, <2>1
            DEF GiveUp, Answered, document, Interference
  <1>6. CASE Finish(p)
    <2> DEFINE t == proc[p].task
    <2>1. LocalsKept(p) /\ proc'[p] = NoProc
      BY <1>6, OwnLocals DEF Finish, Answered
    <2>2. t \in Tasks /\ gate[t] = p
      BY <1>6 DEF Finish, CommandOK
    <2>3. cancelled' \in {cancelled, cancelled \ {t}}
      BY <1>6 DEF Finish
    <2>4. CancelsOwn(p)
      BY <2>2, <2>3 DEF CancelsOwn
    <2>5. \E after \in {"SUSPENDED", "CLOSED", "ACTIVE"} :
             status' \in {status, [status EXCEPT ![t] = after]}
      BY <1>6 DEF Finish
    <2>6. StatusKept
      BY <1>0, <2>2, <2>5 DEF StatusKept, BindingOK
    <2>7. GatesKept(p) /\ UNCHANGED <<leases, slot>>
      BY <1>6 DEF Finish, Answered
    <2> QED BY <1>n, <2>1, <2>4, <2>6, <2>7 DEF Interference
  <1>7. CASE \E t \in Tasks : \E op \in {"resume", "suspend", "close",
                "option", "stopOption"} : Begin(p, op, t)
    <2>1. PICK t \in Tasks, op \in {"resume", "suspend", "close", "option",
                  "stopOption"} : Begin(p, op, t)
      BY <1>7
    <2> DEFINE v == [at |-> IF Cancels(op) THEN "request" ELSE "finish",
                     op |-> op, task |-> t, path |-> path[t],
                     identity |-> IF op = "resume" THEN at[path[t]]
                                  ELSE "none"]
    <2>2. LocalsKept(p) /\ proc'[p] = v
      <3>1. proc' = [proc EXCEPT ![p] = v] /\ UNCHANGED <<sched, rec>>
        BY <2>1 DEF Begin
      <3> HIDE DEF v
      <3> QED BY <3>1, OwnLocals
    <2>3. /\ proc'[p].at \in {"request", "finish"} /\ proc'[p].task = t
          /\ proc'[p].at = "finish" => ~Cancels(proc'[p].op)
      BY <2>2
    <2>4. status[t] # "NONE"
      BY <2>1 DEF Begin
    <2>5. gate[t] = "free" /\ gate' = [gate EXCEPT ![t] = p]
            /\ UNCHANGED document
      BY <2>1 DEF Begin
    <2>6. gate'[t] = p
      BY <1>0, <2>5
    <2>7. CommandOK(p)'
      BY <2>3, <2>4, <2>5, <2>6 DEF CommandOK, document
    <2> QED BY <2>2, <2>5, <2>7 DEF document, Interference
  <1> QED BY <1>1, <1>2, <1>3, <1>4, <1>5, <1>6, <1>7

LEMMA SchedSteps ==
    ASSUME TypeOK, TypeOK', NEW s \in Scheds, SchedulerOK(s),
           \/ SchedStart(s) \/ SchedStop(s) \/ Admit(s) \/ LockForPromotion(s)
           \/ EndActivity(s) \/ SchedCrash(s)
           \/ \E t \in Tasks : \E kind \in {"attempt", "ci", "promotion"} :
                 Select(s, t, kind)
    PROVE  Interference(s) /\ SchedulerOK(s)'
  <1> USE Kept, FreedKept, ReleaseKept
  <1>0. sched[s] \in SchedRecord /\ slot \in SlotRecord
    BY DEF TypeOK, ProcessesOK, ActivitiesOK
  <1>n. sched'[s].at \notin {"selected", "working"} => SchedulerOK(s)'
    BY DEF SchedulerOK
  <1>i. Idle(s) /\ UNCHANGED <<proc, rec>> =>
           LocalsKept(s) /\ sched'[s].at = "idle"
    <2>1. Idle(s) /\ UNCHANGED <<proc, rec>> =>
             LocalsKept(s) /\ sched'[s] = [NoSched EXCEPT !.at = "idle"]
      BY OwnLocals DEF Idle
    <2> QED BY <2>1 DEF NoSched
  <1>w. sched' = [sched EXCEPT ![s].at = "working"] /\ UNCHANGED <<proc, rec>>
          => /\ LocalsKept(s) /\ sched'[s].task = sched[s].task
             /\ sched'[s].kind = sched[s].kind
    <2> SUFFICES ASSUME sched' = [sched EXCEPT ![s].at = "working"],
                        UNCHANGED <<proc, rec>>
                 PROVE  /\ LocalsKept(s) /\ sched'[s].task = sched[s].task
                        /\ sched'[s].kind = sched[s].kind
      OBVIOUS
    <2>1. LocalsKept(s) /\ sched'[s] = [sched[s] EXCEPT !.at = "working"]
      BY OwnLocals
    <2> QED BY <1>0, <2>1 DEF SchedRecord
  <1>1. CASE SchedStart(s)
    <2>1. LocalsKept(s) /\ sched'[s].at \in {"off", "idle"}
      <3>1. CASE UNCHANGED sched
        BY <1>1, <3>1 DEF SchedStart, LocalsKept
      <3>2. CASE sched' = [sched EXCEPT ![s].at = "idle"]
        <4>1. LocalsKept(s) /\ sched'[s] = [sched[s] EXCEPT !.at = "idle"]
          BY <1>1, <3>2, OwnLocals DEF SchedStart
        <4> QED BY <1>0, <4>1 DEF SchedRecord
      <3> QED BY <1>1, <3>1, <3>2 DEF SchedStart
    <2> QED BY <1>1, <1>n, <2>1 DEF SchedStart, document, Interference
  <1>2. CASE SchedStop(s)
    <2>1. LocalsKept(s) /\ sched'[s].at = "off"
      <3>1. LocalsKept(s) /\ sched'[s] = NoSched
        BY <1>2, OwnLocals DEF SchedStop
      <3> QED BY <3>1 DEF NoSched
    <2> QED BY <1>2, <1>n, <2>1 DEF SchedStop, document, Interference
  <1>3. CASE Admit(s)
    <2>1. sched[s].at = "selected" /\ slot.owner = s
      BY <1>3 DEF Admit, SchedulerOK
    <2>2. AdmitsOwn(s)
      BY <2>1 DEF AdmitsOwn
    <2>3. UNCHANGED <<status, cancelled, gate, proc, rec>>
      BY <1>3 DEF Admit
    <2>4. CASE sched' = [sched EXCEPT ![s].at = "working"]
                 /\ UNCHANGED <<slot, pending, blocked>>
      <3>1. SchedulerOK(s)'
        BY <1>w, <2>1, <2>3, <2>4 DEF SchedulerOK
      <3> QED BY <1>w, <2>2, <2>3, <2>4, <3>1 DEF Interference
    <2>5. CASE Idle(s) /\ Release(s)
      BY <1>i, <1>n, <2>2, <2>3, <2>5 DEF Interference
    <2> QED BY <1>3, <2>4, <2>5 DEF Admit
  <1>4. CASE LockForPromotion(s)
    <2>1. sched[s].at = "selected" /\ sched[s].task \in Tasks
      BY <1>4 DEF LockForPromotion, SchedulerOK
    <2>2. UNCHANGED <<status, cancelled, leases, proc, rec>>
      BY <1>4 DEF LockForPromotion
    <2>3. CASE gate[sched[s].task] = "free"
      <3>1. /\ gate' = [gate EXCEPT ![sched[s].task] = s]
            /\ sched' = [sched EXCEPT ![s].at = "working"]
            /\ UNCHANGED <<slot, pending>>
        BY <1>4, <2>3 DEF LockForPromotion
      <3>2. GatesKept(s)
        BY <2>1, <2>3, <3>1
      <3>3. SchedulerOK(s)'
        BY <1>w, <2>1, <2>2, <3>1 DEF SchedulerOK
      <3> QED BY <1>w, <2>2, <3>1, <3>2, <3>3 DEF Interference
    <2>4. CASE gate[sched[s].task] # "free"
      <3>1. Idle(s) /\ Release(s) /\ UNCHANGED gate
        BY <1>4, <2>4 DEF LockForPromotion
      <3> QED BY <1>i, <1>n, <2>2, <3>1 DEF Interference
    <2> QED BY <2>3, <2>4
  <1>5. CASE EndActivity(s)
    <2>1. slot.owner = s
      BY <1>5 DEF EndActivity, SchedulerOK
    <2>2. SlotKept(s) /\ AdmitsOwn(s)
      BY <2>1 DEF SlotKept, AdmitsOwn
    <2> QED BY <1>5, <1>i, <1>n, <2>2 DEF EndActivity, Interference
  <1>6. CASE SchedCrash(s)
    <2>1. LocalsKept(s) /\ sched'[s].at = "off"
      <3>1. LocalsKept(s) /\ sched'[s] = NoSched
        BY <1>6, OwnLocals DEF SchedCrash
      <3> QED BY <3>1 DEF NoSched
    <2>2. SlotKept(s)
      BY <1>6 DEF SchedCrash, SlotKept
    <2> QED BY <1>6, <1>n, <2>1, <2>2 DEF SchedCrash, Interference
  <1>7. CASE \E t \in Tasks : \E kind \in {"attempt", "ci", "promotion"} :
                Select(s, t, kind)
    <2>1. PICK t \in Tasks, kind \in {"attempt", "ci", "promotion"} :
             Select(s, t, kind)
      BY <1>7
    <2>2. LocalsKept(s) /\ sched'[s] = [at |-> "selected", kind |-> kind,
                                        task |-> t]
      <3> DEFINE q == [at |-> "selected", kind |-> kind, task |-> t]
      <3>1. sched' = [sched EXCEPT ![s] = q] /\ proc' = proc /\ rec' = rec
        BY <2>1 DEF Select
      <3> HIDE DEF q
      <3>2. LocalsKept(s) /\ sched'[s] = q
        BY <3>1, OwnLocals
      <3> QED BY <3>2 DEF q
    <2>3. slot.owner = "none" /\ slot'.owner = s
      BY <2>1 DEF Select
    <2>4. SchedulerOK(s)'
      BY <2>2, <2>3 DEF SchedulerOK
    <2>5. SlotKept(s)
      BY <2>3 DEF SlotKept
    <2> QED BY <2>1, <2>2, <2>4, <2>5 DEF Select, Interference
  <1> QED BY <1>1, <1>2, <1>3, <1>4, <1>5, <1>6, <1>7

\* A recovery that leaves gives back what is its own, and nothing else.
LEMMA LeavesKept ==
    ASSUME TypeOK, NEW r \in Recoverers, Leaves(r), UNCHANGED <<proc, sched>>
    PROVE  /\ GatesKept(r) /\ SlotKept(r) /\ LocalsKept(r)
           /\ RecoveryOK(r)'
  <1>1. LocalsKept(r) /\ rec'[r] = NoRec
    BY OwnLocals DEF Leaves
  <1>2. RecoveryOK(r)'
    BY <1>1 DEF RecoveryOK, NoRec
  <1> QED BY <1>1, <1>2, FreedKept, ReleaseKept DEF Leaves

LEMMA RecoverSteps ==
    ASSUME TypeOK, TypeOK', NEW r \in Recoverers, RecoveryOK(r),
           RecoverStart(r) \/ RecoverStep(r) \/ RecoverFails(r)
              \/ RecoverCrash(r)
    PROVE  Interference(r) /\ RecoveryOK(r)'
  <1> USE Kept, FreedKept, ReleaseKept
  <1>0. /\ rec[r] \in RecRecord /\ slot \in SlotRecord
        /\ gate \in [Tasks -> Holders] /\ cancelled \subseteq Tasks
    BY DEF TypeOK, ProcessesOK, ActivitiesOK, LocksOK, Holders
  <1>l. ASSUME Leaves(r),
               UNCHANGED <<status, cancelled, leases, proc, sched>>
        PROVE  Interference(r) /\ RecoveryOK(r)'
    BY <1>l, LeavesKept DEF Interference
  \* A step that only moves on relies on what it leaves alone.
  <1>m. ASSUME NEW a \in {"settle", "unlock", "final", "done"},
               rec' = [rec EXCEPT ![r].at = a], UNCHANGED <<proc, sched>>
        PROVE  /\ LocalsKept(r) /\ rec'[r].at = a
               /\ rec'[r].controlled = rec[r].controlled
               /\ rec'[r].locked = rec[r].locked
    <2>1. LocalsKept(r) /\ rec'[r] = [rec[r] EXCEPT !.at = a]
      BY <1>m, OwnLocals
    <2> QED BY <1>0, <2>1 DEF RecRecord
  <1>1. CASE RecoverStart(r)
    <2>1. rec' = [rec EXCEPT ![r] =
                    [rec[r] EXCEPT !.at = "gates", !.controlled = Created]]
      BY <1>1 DEF RecoverStart, TypeOK, ProcessesOK
    <2>2. /\ LocalsKept(r)
          /\ rec'[r] = [rec[r] EXCEPT !.at = "gates", !.controlled = Created]
      BY <1>1, <2>1, OwnLocals DEF RecoverStart
    <2>3. rec'[r].at = "gates" /\ rec'[r].locked = {}
      <3>1. rec[r].locked = {}
        BY <1>1 DEF RecoverStart, RecoveryOK
      <3> QED BY <1>0, <2>2, <3>1 DEF RecRecord
    <2>4. RecoveryOK(r)'
      BY <2>3 DEF RecoveryOK
    <2> QED BY <1>1, <2>2, <2>4 DEF RecoverStart, document, Interference
  <1>2. CASE RecoverGate(r)
    <2> DEFINE t == Min(rec[r].controlled \ rec[r].locked)
    <2>1. CASE gate[t] = "free"
      <3>1. /\ gate' = [gate EXCEPT ![t] = r]
            /\ rec' = [rec EXCEPT ![r] = [rec[r] EXCEPT !.locked = @ \cup {t}]]
            /\ UNCHANGED <<status, cancelled, leases, slot, proc, sched>>
        BY <1>2, <2>1 DEF RecoverGate, TakesGate
      <3>2. t \in rec[r].controlled /\ t \in Tasks
        <4>1. rec[r].controlled \subseteq Tasks
          BY <1>0 DEF RecRecord
        <4>2. rec[r].controlled \ rec[r].locked # {}
          BY <1>2, <4>1 DEF RecoverGate, RecoveryOK
        <4>3. rec[r].controlled \ rec[r].locked \in SUBSET Tasks
          BY <4>1
        <4>4. t \in rec[r].controlled \ rec[r].locked
          BY <4>2, <4>3, MinTask
        <4> QED BY <4>1, <4>4
      <3> HIDE DEF t
      <3>3. /\ LocalsKept(r)
            /\ rec'[r] = [rec[r] EXCEPT !.locked = @ \cup {t}]
        BY <3>1, OwnLocals
      <3>4. /\ rec'[r].at = "gates" /\ rec'[r].locked = rec[r].locked \cup {t}
            /\ rec'[r].controlled = rec[r].controlled
        BY <1>0, <1>2, <3>3 DEF RecRecord, RecoverGate
      <3>5. \A u \in rec'[r].locked : gate'[u] = r
        BY <1>0, <3>1, <3>2, <3>4 DEF RecoveryOK, RecRecord
      <3>6. RecoveryOK(r)'
        BY <3>2, <3>4, <3>5 DEF RecoveryOK
      <3>7. GatesKept(r)
        BY <2>1, <3>1, <3>2
      <3> QED BY <3>1, <3>3, <3>6, <3>7 DEF Interference
    <2>2. CASE gate[t] # "free"
      <3>1. Leaves(r)
        BY <1>2, <2>2 DEF RecoverGate, TakesGate
      <3> QED BY <1>2, <1>l, <3>1 DEF RecoverGate
    <2> QED BY <2>1, <2>2
  <1>3. CASE RecoverReads(r)
    <2>1. CASE Alive(slot.owner)
      BY <1>3, <1>l, <2>1 DEF RecoverReads
    <2>2. CASE ~Alive(slot.owner)
      <3> DEFINE read == {l[1] : l \in Attempts}
      <3>1. /\ rec' = [rec EXCEPT ![r] =
                         [rec[r] EXCEPT !.at = "steal", !.snapshot = read]]
            /\ UNCHANGED <<status, cancelled, leases, slot, gate, proc, sched>>
        BY <1>3, <2>2 DEF RecoverReads, TypeOK, ProcessesOK
      <3> HIDE DEF read
      <3>2. /\ LocalsKept(r)
            /\ rec'[r] = [rec[r] EXCEPT !.at = "steal", !.snapshot = read]
        BY <3>1, OwnLocals
      <3>3. /\ rec'[r].at = "steal" /\ rec'[r].locked = rec[r].locked
            /\ rec'[r].controlled = rec[r].controlled
            /\ rec[r].locked = rec[r].controlled
        BY <1>0, <1>3, <3>2 DEF RecRecord, RecoverReads
      <3>4. RecoveryOK(r)'
        BY <3>1, <3>3 DEF RecoveryOK
      <3> QED BY <3>1, <3>2, <3>4 DEF Interference
    <2> QED BY <2>1, <2>2
  <1>4. CASE RecoverSteal(r)
    <2>1. CASE Alive(slot.owner)
      BY <1>4, <1>l, <2>1 DEF RecoverSteal
    <2>2. CASE ~Alive(slot.owner)
      <3>1. /\ slot' = [owner |-> r, task |-> None]
            /\ rec' = [rec EXCEPT ![r].at = "settle"]
            /\ UNCHANGED <<status, cancelled, leases, gate, proc, sched>>
        BY <1>4, <2>2 DEF RecoverSteal
      <3>2. SlotKept(r)
        BY <1>0, <2>2 DEF SlotKept, Alive, SlotRecord
      <3>3. RecoveryOK(r)'
        BY <1>4, <1>m, <3>1 DEF RecoverSteal, RecoveryOK
      <3> QED BY <1>m, <3>1, <3>2, <3>3 DEF Interference
    <2> QED BY <2>1, <2>2
  <1>5. CASE \E t \in Tasks : RecoverAttempt(r, t)
    <2>1. PICK t \in Tasks : RecoverAttempt(r, t)
      BY <1>5
    <2>2. /\ LocalsKept(r)
          /\ rec'[r] = [rec[r] EXCEPT !.snapshot = @ \ {t}]
      BY <2>1, OwnLocals DEF RecoverAttempt
    <2>3. /\ rec'[r].at = "settle" /\ rec'[r].locked = rec[r].locked
          /\ rec'[r].controlled = rec[r].controlled /\ rec[r].at = "settle"
      BY <1>0, <2>1, <2>2 DEF RecRecord, RecoverAttempt
    <2>4. /\ leases' \subseteq leases
          /\ UNCHANGED <<status, cancelled, slot, gate>>
      BY <2>1 DEF RecoverAttempt
    <2>5. RecoveryOK(r)'
      BY <2>3, <2>4 DEF RecoveryOK
    <2>6. AdmitsOwn(r)
      BY <2>4 DEF AdmitsOwn
    <2> QED BY <2>2, <2>4, <2>5, <2>6 DEF Interference
  <1>6. CASE RecoverLeases(r)
    <2>1. CASE NoAttemptLease
      <3>1. /\ leases' = {} /\ rec' = [rec EXCEPT ![r].at = "unlock"]
            /\ UNCHANGED <<status, cancelled, slot, gate, proc, sched>>
        BY <1>6, <2>1 DEF RecoverLeases, NoAttemptLease
      <3>2. RecoveryOK(r)'
        BY <1>6, <1>m, <3>1 DEF RecoverLeases, RecoveryOK
      <3>3. AdmitsOwn(r)
        BY <3>1 DEF AdmitsOwn
      <3> QED BY <1>m, <3>1, <3>2, <3>3 DEF Interference
    <2>2. CASE ~NoAttemptLease
      BY <1>6, <1>l, <2>2 DEF RecoverLeases
    <2> QED BY <2>1, <2>2
  <1>7. CASE RecoverUnlock(r)
    <2>1. /\ rec' = [rec EXCEPT ![r].at = "final"] /\ rec[r].at = "unlock"
          /\ UNCHANGED <<status, cancelled, leases, slot, gate, proc, sched>>
      BY <1>7 DEF RecoverUnlock, document
    <2>2. RecoveryOK(r)'
      BY <1>m, <2>1 DEF RecoveryOK
    <2> QED BY <1>m, <2>1, <2>2 DEF Interference
  <1>8. CASE RecoverFinal(r)
    <2>1. CASE \A t \in rec[r].controlled : TaskQuiescent(t)
      <3>1. /\ cancelled' = cancelled \ Drops(r)
            /\ rec' = [rec EXCEPT ![r].at = "done"] /\ rec[r].at = "final"
            /\ UNCHANGED <<status, leases, slot, gate, proc, sched>>
        BY <1>8, <2>1 DEF RecoverFinal
      <3>2. \A t \in Drops(r) : gate[t] = r
        BY <3>1 DEF RecoveryOK, Drops
      <3>3. CancelsOwn(r)
        BY <3>1, <3>2 DEF CancelsOwn
      <3>4. cancelled' \cap rec[r].controlled = {}
        BY <3>1 DEF Drops
      <3>5. RecoveryOK(r)'
        BY <1>m, <3>1, <3>4 DEF RecoveryOK
      <3> QED BY <1>m, <3>1, <3>3, <3>5 DEF Interference
    <2>2. CASE ~\A t \in rec[r].controlled : TaskQuiescent(t)
      BY <1>8, <1>l, <2>2 DEF RecoverFinal
    <2> QED BY <2>1, <2>2
  <1>9. CASE RecoverDone(r) \/ RecoverFails(r)
    BY <1>9, <1>l DEF RecoverDone, RecoverFails
  <1>10. CASE RecoverCrash(r)
    <2>1. LocalsKept(r) /\ rec'[r] = NoRec
      BY <1>10, OwnLocals DEF RecoverCrash
    <2>2. RecoveryOK(r)'
      BY <2>1 DEF RecoveryOK, NoRec
    <2>3. SlotKept(r)
      BY <1>10 DEF RecoverCrash, SlotKept
    <2> QED BY <1>10, <2>1, <2>2, <2>3 DEF RecoverCrash, Interference
  <1> QED BY <1>1, <1>2, <1>3, <1>4, <1>5, <1>6, <1>7, <1>8, <1>9, <1>10
          DEF RecoverStep

-----------------------------------------------------------------------------
(* What Tasks are bound to.                                                *)

\* A binding stays unique under every step, because "task create" and "task
\* resume" compare with the other Tasks in the transaction that binds.
LEMMA BindingStep ==
    ASSUME Inv, [Next]_vars
    PROVE  Placed' /\ OneActivePerRepository'
  <1> USE DEF Inv
  <1>0. /\ status \in [Tasks -> {"NONE", "ACTIVE", "SUSPENDED", "CLOSED"}]
        /\ path \in [Tasks -> Paths \cup {"none"}]
        /\ identity \in [Tasks -> Repos \cup {"none"}]
    BY DEF TypeOK, BindingOK
  <1>1. CASE UNCHANGED <<status, path, identity>>
    BY <1>1 DEF Placed, OneActivePerRepository, Bound
  <1>2. CASE \E p \in Procs : CreateTask(p)
    <2>1. PICK p \in Procs : CreateTask(p)
      BY <1>2
    <2> DEFINE t == Min(Tasks \ Created)
    <2>2. CASE blocked \/ Tasks = Created \/ Bound(proc[p].identity, None)
      BY <1>1, <2>1, <2>2 DEF CreateTask
    <2>3. CASE ~(blocked \/ Tasks = Created \/ Bound(proc[p].identity, None))
      <3>1. /\ status' = [status EXCEPT ![t] = "ACTIVE"]
            /\ path' = [path EXCEPT ![t] = proc[p].path]
            /\ identity' = [identity EXCEPT ![t] = proc[p].identity]
        BY <2>1, <2>3 DEF CreateTask
      <3>2. t \in Tasks
        <4>1. Tasks \ Created \in SUBSET Tasks /\ Tasks \ Created # {}
          BY <2>3 DEF Created
        <4>2. t \in Tasks \ Created
          BY <4>1, MinTask
        <4> QED BY <4>2
      <3> HIDE DEF t
      <3>3. proc[p].path \in Paths
        BY <2>1 DEF CreateTask, CommandOK
      <3>4. Placed'
        BY <1>0, <3>1, <3>2, <3>3 DEF Placed
      <3>5. \A u \in Tasks : ~(status[u] = "ACTIVE"
                                 /\ identity[u] = proc[p].identity)
        BY <2>3 DEF Bound
      <3>6. OneActivePerRepository'
        BY <1>0, <3>1, <3>2, <3>5 DEF OneActivePerRepository, Bound
      <3> QED BY <3>4, <3>6
    <2> QED BY <2>2, <2>3
  <1>3. CASE \E p \in Procs : Finish(p)
    <2>1. PICK p \in Procs : Finish(p)
      BY <1>3
    <2> DEFINE t == proc[p].task
               new == proc[p].identity
    <2>2. path' = path /\ t \in Tasks /\ status[t] # "NONE"
      BY <2>1 DEF Finish, CommandOK
    <2>3. \/ UNCHANGED <<status, identity>>
          \/ /\ proc[p].op = "resume" /\ MayResume(p, t)
             /\ status' = [status EXCEPT ![t] = "ACTIVE"]
             /\ identity' = [identity EXCEPT ![t] = new]
          \/ /\ identity' = identity
             /\ \/ status' = [status EXCEPT ![t] = "SUSPENDED"]
                \/ status' = [status EXCEPT ![t] = "CLOSED"]
                \/ /\ status[t] = "ACTIVE"
                   /\ status' = [status EXCEPT ![t] = "ACTIVE"]
      BY <2>1 DEF Finish
    <2>4. Placed'
      BY <1>0, <2>2, <2>3 DEF Placed
    <2>5. CASE UNCHANGED <<status, identity>>
      BY <1>1, <2>2, <2>5
    <2>6. CASE /\ MayResume(p, t)
               /\ status' = [status EXCEPT ![t] = "ACTIVE"]
               /\ identity' = [identity EXCEPT ![t] = new]
      <3>1. \A u \in Tasks \ {t} : ~(status[u] = "ACTIVE"
                                       /\ identity[u] = new)
        BY <2>6 DEF MayResume, Bound
      <3>2. OneActivePerRepository'
        BY <1>0, <2>2, <2>6, <3>1 DEF OneActivePerRepository, Bound
      <3> QED BY <2>4, <3>2
    <2>7. CASE /\ identity' = identity
               /\ \/ status' = [status EXCEPT ![t] = "SUSPENDED"]
                  \/ status' = [status EXCEPT ![t] = "CLOSED"]
                  \/ /\ status[t] = "ACTIVE"
                     /\ status' = [status EXCEPT ![t] = "ACTIVE"]
      <3>1. \A u \in Tasks : status'[u] = "ACTIVE" => status[u] = "ACTIVE"
        BY <1>0, <2>2, <2>7
      <3>2. OneActivePerRepository'
        BY <2>7, <3>1 DEF OneActivePerRepository, Bound
      <3> QED BY <2>4, <3>2
    <2> QED BY <2>3, <2>5, <2>6, <2>7
  <1>4. ASSUME NEW p \in Procs,
               \/ \E d \in Paths : CreateReads(p, d)
               \/ RequestCancellation(p) \/ Settled(p) \/ GiveUp(p)
               \/ \E t \in Tasks : \E op \in {"resume", "suspend", "close",
                     "option", "stopOption"} : Begin(p, op, t)
        PROVE  UNCHANGED <<status, path, identity>>
    BY <1>4 DEF CreateReads, RequestCancellation, Settled, GiveUp, Begin,
                document
  <1>5. ResolveBlocker \/ (\E d \in Paths, repo \in Repos : Move(d, repo))
          \/ UNCHANGED vars => UNCHANGED <<status, path, identity>>
    BY DEF ResolveBlocker, Move, document, vars
  <1>6. ASSUME NEW s \in Scheds,
               \/ SchedStart(s) \/ SchedStop(s) \/ Admit(s)
               \/ LockForPromotion(s) \/ EndActivity(s) \/ SchedCrash(s)
               \/ \E t \in Tasks : \E kind \in {"attempt", "ci", "promotion"} :
                     Select(s, t, kind)
        PROVE  UNCHANGED <<status, path, identity>>
    BY <1>6 DEF SchedStart, SchedStop, Admit, LockForPromotion, EndActivity,
                SchedCrash, Select, document
  <1>7. ASSUME NEW r \in Recoverers,
               RecoverStart(r) \/ RecoverStep(r) \/ RecoverFails(r)
                  \/ RecoverCrash(r)
        PROVE  UNCHANGED <<status, path, identity>>
    BY <1>7 DEF RecoverStart, RecoverStep, RecoverFails, RecoverCrash,
                RecoverGate, RecoverReads, RecoverSteal, RecoverAttempt,
                RecoverLeases, RecoverUnlock, RecoverFinal, RecoverDone,
                document
  <1> QED BY <1>1, <1>2, <1>3, <1>4, <1>5, <1>6, <1>7 DEF Next

-----------------------------------------------------------------------------
(* The theorems.                                                           *)

LEMMA InvInit == Init => Inv
  <1> SUFFICES ASSUME Init PROVE Inv
    OBVIOUS
  <1>1. Placed /\ OneActivePerRepository
    BY DEF Init, Placed, OneActivePerRepository
  <1>2. \A p \in Procs : CommandOK(p)
    BY DEF Init, CommandOK, NoProc
  <1>3. \A s \in Scheds : SchedulerOK(s)
    BY DEF Init, SchedulerOK, NoSched
  <1>4. \A r \in Recoverers : RecoveryOK(r)
    BY DEF Init, RecoveryOK, NoRec
  <1> QED BY <1>1, <1>2, <1>3, <1>4, TypeInit DEF Inv

LEMMA InvStep == Inv /\ [Next]_vars => Inv'
  <1> SUFFICES ASSUME Inv, [Next]_vars PROVE Inv'
    OBVIOUS
  <1>0. /\ TypeOK
        /\ \A p \in Procs : CommandOK(p)
        /\ \A s \in Scheds : SchedulerOK(s)
        /\ \A r \in Recoverers : RecoveryOK(r)
    BY DEF Inv
  <1>1. TypeOK'
    BY TypeStep
  <1>2. Placed' /\ OneActivePerRepository'
    BY BindingStep
  <1> SUFFICES /\ \A p \in Procs : CommandOK(p)'
               /\ \A s \in Scheds : SchedulerOK(s)'
               /\ \A r \in Recoverers : RecoveryOK(r)'
    BY <1>1, <1>2 DEF Inv
  <1>3. ASSUME NEW p \in Procs,
               \/ \E d \in Paths : CreateReads(p, d)
               \/ CreateTask(p) \/ RequestCancellation(p) \/ Settled(p)
               \/ GiveUp(p) \/ Finish(p)
               \/ \E t \in Tasks : \E op \in {"resume", "suspend", "close",
                     "option", "stopOption"} : Begin(p, op, t)
        PROVE  /\ \A q \in Procs : CommandOK(q)'
               /\ \A s \in Scheds : SchedulerOK(s)'
               /\ \A r \in Recoverers : RecoveryOK(r)'
    <2>1. Interference(p) /\ CommandOK(p)'
      BY <1>0, <1>1, <1>3, CommandSteps
    <2> QED BY <1>0, <1>1, <2>1, Undisturbed, Distinct
  <1>4. ASSUME NEW s \in Scheds,
               \/ SchedStart(s) \/ SchedStop(s) \/ Admit(s)
               \/ LockForPromotion(s) \/ EndActivity(s) \/ SchedCrash(s)
               \/ \E t \in Tasks : \E kind \in {"attempt", "ci", "promotion"} :
                     Select(s, t, kind)
        PROVE  /\ \A p \in Procs : CommandOK(p)'
               /\ \A q \in Scheds : SchedulerOK(q)'
               /\ \A r \in Recoverers : RecoveryOK(r)'
    <2>1. Interference(s) /\ SchedulerOK(s)'
      BY <1>0, <1>1, <1>4, SchedSteps
    <2> QED BY <1>0, <1>1, <2>1, Undisturbed, Distinct
  <1>5. ASSUME NEW r \in Recoverers,
               RecoverStart(r) \/ RecoverStep(r) \/ RecoverFails(r)
                  \/ RecoverCrash(r)
        PROVE  /\ \A p \in Procs : CommandOK(p)'
               /\ \A s \in Scheds : SchedulerOK(s)'
               /\ \A q \in Recoverers : RecoveryOK(q)'
    <2>1. Interference(r) /\ RecoveryOK(r)'
      BY <1>0, <1>1, <1>5, RecoverSteps
    <2> QED BY <1>0, <1>1, <2>1, Undisturbed, Distinct
  <1>6. CASE ResolveBlocker \/ (\E d \in Paths, repo \in Repos : Move(d, repo))
               \/ UNCHANGED vars
    <2>1. UNCHANGED <<status, cancelled, leases, slot, gate, proc, sched, rec>>
      BY <1>6 DEF ResolveBlocker, Move, vars, document
    <2> QED BY <1>0, <2>1 DEF CommandOK, SchedulerOK, RecoveryOK
  <1> QED BY <1>3, <1>4, <1>5, <1>6 DEF Next

LEMMA Invariance == Spec => []Inv
  BY InvInit, InvStep, PTL DEF Spec

\* Type correctness of the model of several Tasks.
THEOREM TypeCorrect == Spec => []TypeOK
  <1>1. Inv => TypeOK
    BY DEF Inv
  <1> QED BY <1>1, Invariance, PTL

\* A repository has one ACTIVE Task, however commands interleave and wherever
\* users move repositories.
THEOREM UniqueBinding == Spec => []OneActivePerRepository
  <1>1. Inv => OneActivePerRepository
    BY DEF Inv
  <1> QED BY <1>1, Invariance, PTL

\* The gates keep every recovery, and every other command, from dropping the
\* cancellation of a command that waits for its Task to settle.
THEOREM CancellationIsHeld == Spec => []CancellationHeld
  <1>1. Inv => CancellationHeld
    BY DEF Inv, CommandOK, CancellationHeld
  <1> QED BY <1>1, Invariance, PTL

\* A recovery that reports success leaves no lease and no cancellation among
\* the Tasks it locked, for any number of recoveries and schedulers at once.
THEOREM RecoveryHasSettled == Spec => []RecoverySettles
  <1>1. Inv => RecoverySettles
    BY DEF Inv, RecoveryOK, RecoverySettles
  <1> QED BY <1>1, Invariance, PTL

=============================================================================
