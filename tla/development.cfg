SPECIFICATION FairSpec
CONSTANTS
    Scheds = {"a"}
    MaxChanges = 1
    MaxArtifacts = 1
    MaxAttempts = 2
    MaxCIRuns = 1
    MaxJournals = 1
    MaxCommits = 2
    MaxCrashes = 0
    Faults = {}
    Commands <- DailyCommands
INVARIANTS TypeOK InactiveIsQuiet
PROPERTIES NoNewWork CommandAnswered SlotReturned
CHECK_DEADLOCK FALSE
