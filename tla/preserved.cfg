SPECIFICATION Spec
CONSTANTS
    MaxFiles = 2
    MaxActivities = 1
    MaxVersions = 2
    MaxCrashes = 0
    Cap = 1
    MaxOutput = 1
    Kinds = {"mutation"}
    Faults = {}
PROPERTIES WorkPreserved
CHECK_DEADLOCK FALSE
