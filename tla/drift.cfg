SPECIFICATION Spec
CONSTANTS
    Scheds = {"a"}
    MaxChanges = 1
    MaxArtifacts = 2
    MaxAttempts = 3
    MaxCIRuns = 2
    MaxJournals = 1
    MaxCommits = 3
    MaxCrashes = 0
    Faults = {}
    Commands = {"ci", "abort", "move", "retry"}
INVARIANTS PromotionAuthorised EvidenceBelongs TimeoutsBlock
PROPERTIES TerminalForever PublishesAsAuthorised
CHECK_DEADLOCK FALSE
