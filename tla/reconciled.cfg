SPECIFICATION Spec
CONSTANTS
    Scheds = {"a"}
    MaxChanges = 1
    MaxArtifacts = 1
    MaxAttempts = 2
    MaxCIRuns = 1
    MaxJournals = 1
    MaxCommits = 2
    MaxCrashes = 1
    Faults = {}
    Commands = {"abort","recover","giveUp"}
PROPERTIES ReconciledToDone
CHECK_DEADLOCK FALSE
