SPECIFICATION Spec
CONSTANTS
    MaxOptions = 3
    MinRootAfterTransferMS = 1
    MaxInt = 4
    Budget = 3
    ExplorationN = 1
    Amounts = {1, 2}
    LeaseLimit = 2
    Commands <- TreeCommands
INVARIANTS TypeOK Conserved LeaseOnLive MergesDeepest
PROPERTIES RootRetained ClosedOnce
CHECK_DEADLOCK FALSE
