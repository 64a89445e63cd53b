SPECIFICATION FairSpec
CONSTANTS
    MaxTasks = 2
    Paths = {"p"}
    Repos = {"r1", "r2"}
    Scheds = {"s"}
    Procs = {"c"}
    Recoverers = {"r"}
    Operations = {"create", "resume", "suspend", "close", "option", "stopOption", "attempt", "ci", "promotion", "recover", "fail", "resolve"}
    MaxCrashes = 2
    MaxMoves = 1
INVARIANTS TypeOK OneActivePerRepository CancellationHeld RecoverySettles
PROPERTIES RecoveryEnds
CHECK_DEADLOCK FALSE
