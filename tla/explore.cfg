SPECIFICATION FairSpec
CONSTANTS
    MaxOptions = 4
    MinRootAfterTransferMS = 1
    MaxInt = 3
    Budget = 3
    ExplorationN = 2
    Amounts = {0, 1}
    LeaseLimit = 1
    Commands = {"propose", "split", "allocate"}
INVARIANTS AllocatesNearestFirst
PROPERTIES ExplorationEnds
CHECK_DEADLOCK FALSE
