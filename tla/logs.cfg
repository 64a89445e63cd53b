SPECIFICATION Spec
CONSTANTS
    Scheds = {"a"}
    MaxChanges = 1
    MaxArtifacts = 1
    MaxAttempts = 2
    MaxCIRuns = 2
    MaxJournals = 1
    MaxCommits = 2
    MaxCrashes = 0
    Faults = {}
    Commands = {"ci","suspend","resume","retry"}
INVARIANTS WorkerSeesLogs
CHECK_DEADLOCK FALSE
