SPECIFICATION FairSpec
CONSTANTS
    MaxOptions = 3
    MinRootAfterTransferMS = 0
    MaxInt = 4
    Budget = 4
    ExplorationN = 1
    Amounts = {0, 1}
    LeaseLimit = 1
    Commands = {"close"}
PROPERTIES ExplorationEnds
CHECK_DEADLOCK FALSE
