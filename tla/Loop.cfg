SPECIFICATION FairSpec
CONSTANTS
    Kinds <- AllKinds
    Transactions = TRUE
    IsFirstLeader = TRUE
    ViewCapacity = 1
    BlockCapacity = 1
    MaxView = 3
    MaxCommit = 1
CHECK_DEADLOCK FALSE
INVARIANTS
    TypeOK
PROPERTIES
    ViewsInOrder
    ViewsReachLoop
    HandlerNotStuck
