SPECIFICATION Spec
CONSTANTS
    Scheds = {"a"}
    MaxChanges = 2
    MaxArtifacts = 1
    MaxAttempts = 2
    MaxCIRuns = 1
    MaxJournals = 1
    MaxCommits = 2
    MaxCrashes = 0
    Faults <- AllFaults
    Commands = {"resume", "resolve", "ci"}
INVARIANTS NothingBesideAttempt RunningIsPending
PROPERTIES FailStopIsDurable
CHECK_DEADLOCK FALSE
