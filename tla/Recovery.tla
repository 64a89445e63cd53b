------------------------------ MODULE Recovery ------------------------------
(***************************************************************************)
(* "scp recover": settles what a killed scheduler left behind.             *)
(***************************************************************************)
EXTENDS Document

\* The run.lock, if any, names a process that is gone.
RecoverStart ==
    /\ rec.at = "off" /\ runLock \notin Scheds
    /\ rec' = [rec EXCEPT !.at = "lock"]
    /\ UNCHANGED <<document, git, locks, schedVars, ctl, crashes>>
\* Mutant: nobody asks whether the owner of the slot is alive.
AnySlot == TRUE
SlotStealable == slot.owner \notin Scheds
RecoverRefused ==
    /\ rec.at = "lock" /\ (gate # "free" \/ ~SlotStealable)
    /\ rec' = NoRecovery
    /\ UNCHANGED <<document, git, locks, schedVars, ctl, crashes>>

\* It takes the gate, and the slot unless a live process has it.
RecoverSteal ==
    /\ rec.at = "lock" /\ gate = "free" /\ SlotStealable
    /\ gate' = "recovery"
    /\ slot' = [owner |-> "recovery", task |-> FALSE]
    /\ rec' = [rec EXCEPT !.at = "terminate"]
    /\ UNCHANGED <<change, evidence, work, journal, pending, task, blockers,
              git, runLock, schedVars, ctl, crashes>>

\* Both runners are terminated.
RecoverTerminate ==
    /\ rec.at = "terminate"
    /\ rec' = [rec EXCEPT !.at = "attempts"]
    /\ UNCHANGED <<document, git, locks, schedVars, ctl, crashes>>

\* Recovery returns an error from wherever it is: the deferred calls give the
\* slot and the gate back.
RecoverBails ==
    /\ \/ Release(change, "recovery")
       \/ /\ Outage /\ slot' = [slot EXCEPT !.owner = "dead"]
          /\ UNCHANGED <<change, pending>>
    /\ gate' = "free" /\ rec' = NoRecovery
\* A refusal of the environment is reported by a blocker, if that can be
\* written.
Reports(b) == blockers' = blockers \cup {b} \/ (Outage /\ EmergencyBlock)
\* What the environment may refuse: a runner, the repository, or one of the
\* transactions and reads from the settlement of the Attempts to the end.
RecoverFails ==
    /\ \/ /\ rec.at = "terminate" /\ "RUNNER_UNAVAILABLE" \in Faults
          /\ \E b \in {"RUNNER", "TEST_RUNNER"} : Reports(b)
       \/ /\ rec.at = "journals" /\ rec.todo # {}
          /\ "REPOSITORY_UNAVAILABLE" \in Faults /\ Reports("TASK")
       \/ /\ \/ rec.at = "attempts" /\ ActiveAttempts # {}
             \/ rec.at = "journals" /\ rec.todo = {}
          /\ {"RUNNER_UNAVAILABLE", "STORAGE_FAILURE"} \cap Faults # {}
          /\ UNCHANGED blockers
       \/ /\ rec.at \in {"attempts", "journals", "reconcile", "final"}
          /\ "STORAGE_FAILURE" \in Faults /\ EmergencyBlock
    /\ RecoverBails
    /\ UNCHANGED <<evidence, work, journal, task, git, runLock, schedVars,
              ctl, crashes>>

\* An Attempt left ACTIVE: what its workspace holds may be captured as a.
RecoverAttempt(k, a) ==
    LET c == attempt[k].change
        ch == IF a # None THEN Captured(change[c], a) ELSE change[c]
    IN
    /\ rec.at = "attempts" /\ k \in ActiveAttempts
    /\ a # None => attempt[k].op = "mutation" /\ Fresh(a, UnusedArtifacts)
    /\ owner' = IF a # None THEN [owner EXCEPT ![a] = c] ELSE owner
    /\ change' = [change EXCEPT ![c] =
           IF Terminal(c) THEN ch ELSE Set(ch, ch.stage, "PAUSED")]
    /\ attempt' = [attempt EXCEPT ![k].status = "ENDED"]
    /\ interrupts' = interrupts \ {k}
    /\ pending' = NoStep
    /\ requests' = requests \ {pending.request}
    /\ UNCHANGED <<run, latestCI, review, journal, slot, task, blockers,
              outside>>

\* Mutant: the Change stays RUNNING.
NotPaused(ch) == ch
Restarted(ch) ==
    IF ch.state = "RUNNING" THEN Set(ch, ch.stage, "PAUSED") ELSE ch
\* CI runs left active end TERMINATED and Changes left RUNNING are PAUSED.
RecoverLeases ==
    LET Ends(a) == {r \in ActiveRuns : run[r].artifact = a} IN
    /\ rec.at = "attempts" /\ ActiveAttempts = {}
    /\ run' = [r \in CIRuns |-> IF ActiveRun(r)
           THEN [run[r] EXCEPT !.status = "TERMINATED"] ELSE run[r]]
    /\ latestCI' = [a \in Artifacts |->
           IF Ends(a) = {} THEN latestCI[a] ELSE Last(Ends(a))]
    /\ requests' = requests \ ActiveRuns
    /\ pending' = IF ActiveRuns = {} THEN pending ELSE NoStep
    /\ change' = [c \in Changes |-> Restarted(change[c])]
    /\ rec' = [rec EXCEPT !.at = "journals",
           !.todo = {j \in Journals : journal[j].state = "PREPARED"}]
    /\ UNCHANGED <<owner, review, attempt, interrupts, journal, slot, task,
              blockers, git, locks, schedVars, ctl, crashes>>

\* Each PREPARED journal is settled by what the ref is now.
RecoverResolve(j) ==
    /\ rec.at = "journals" /\ j \in rec.todo
    /\ rec' = [at |-> "reconcile", todo |-> rec.todo \ {j}, journal |-> j,
               sha |-> ref]
    /\ UNCHANGED <<document, git, locks, schedVars, ctl, crashes>>
\* Mutant: old and new are swapped.
OutcomeSwapped(j, seen) ==
    IF seen = journal[j].old THEN "APPLIED"
    ELSE IF seen = journal[j].new THEN "NOT_APPLIED" ELSE "CONFLICT"
Outcome(j, seen) ==
    IF seen = journal[j].new THEN "APPLIED"
    ELSE IF seen = journal[j].old THEN "NOT_APPLIED" ELSE "CONFLICT"
RecoverJournal ==
    LET j == rec.journal
        outcome == Outcome(j, rec.sha)
        c == owner[journal[j].artifact]
        ch == CASE outcome = "APPLIED" -> Set(change[c], "PROMOTION", "DONE")
                [] outcome = "NOT_APPLIED" ->
                      Set(change[c], "AWAIT_PROMOTION", "QUEUED")
                [] OTHER -> Set(change[c], change[c].stage, "STALE")
    IN
    /\ rec.at = "reconcile"
    /\ IF Immutable(c, ch)
       THEN /\ journal' = [journal EXCEPT ![j].state = outcome]
            /\ taskSHA' = IF outcome = "APPLIED" THEN journal[j].new
                                                 ELSE taskSHA
            /\ change' = [change EXCEPT ![c] = ch]
            /\ pending' = NoStep
            /\ rec' = [rec EXCEPT !.at = "journals", !.journal = None,
                                  !.sha = None]
            /\ UNCHANGED <<slot, gate, blockers>>
       ELSE /\ RecoverBails /\ EmergencyBlock
            /\ UNCHANGED <<journal, taskSHA>>
    /\ UNCHANGED <<evidence, work, taskStatus, cancelled, git, runLock,
              schedVars, ctl, crashes>>

\* run.lock is removed, whoever made it.
RecoverUnlock ==
    /\ rec.at = "journals" /\ rec.todo = {}
    /\ runLock' = "free"
    /\ rec' = [rec EXCEPT !.at = "final"]
    /\ UNCHANGED <<document, git, gate, schedVars, ctl, crashes>>

\* The last transaction drops a cancellation nobody waits for any more.
RecoverDone ==
    /\ rec.at = "final" /\ TaskQuiescent
    /\ cancelled' = FALSE
    /\ pending' = IF cancelled THEN NoStep ELSE pending
    /\ slot' = IdleSlot /\ gate' = "free" /\ rec' = NoRecovery
    /\ UNCHANGED <<change, evidence, work, journal, taskStatus, taskSHA,
              blockers, git, runLock, schedVars, ctl, crashes>>

RecoverCrash ==
    /\ rec.at \notin {"off", "lock"}
    /\ crashes < MaxCrashes /\ crashes' = crashes + 1
    /\ slot' = [slot EXCEPT !.owner = "dead"]
    /\ gate' = "free" /\ rec' = NoRecovery
    /\ UNCHANGED <<change, evidence, work, journal, pending, task, blockers,
              git, runLock, schedVars, ctl>>

=============================================================================
