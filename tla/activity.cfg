SPECIFICATION FairSpec
CONSTANTS
    MaxFiles = 2
    MaxActivities = 2
    MaxVersions = 2
    MaxCrashes = 1
    Cap = 1
    MaxOutput = 2
    Kinds = {"mutation", "ci"}
    Faults = {"RUNNER_UNAVAILABLE", "STORAGE_FAILURE"}
INVARIANTS TypeOK ResultIsOwn StopIsNoVerdict TruncationTold SnapshotConsistent CapturesOwn
PROPERTIES ActivityEnds
CHECK_DEADLOCK FALSE
