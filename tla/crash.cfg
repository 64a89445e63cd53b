SPECIFICATION Spec
CONSTANTS
    Scheds = {a, b}
    MaxChanges = 1
    MaxArtifacts = 1
    MaxAttempts = 2
    MaxCIRuns = 1
    MaxJournals = 1
    MaxCommits = 2
    MaxCrashes = 2
    Faults = {"RUNNER_UNAVAILABLE", "REPOSITORY_UNAVAILABLE", "STORAGE_FAILURE"}
    Commands = {"resume", "recover", "abort"}
INVARIANTS Exclusive LeftRunningShows DoneIsPublished
PROPERTIES PublishesAsAuthorised
SYMMETRY SchedSymmetry
CHECK_DEADLOCK FALSE
