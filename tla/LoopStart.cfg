SPECIFICATION FairSpec
CONSTANTS
    Kinds <- OnlyBlocks
    Transactions = TRUE
    IsFirstLeader = TRUE
    ViewCapacity = 1
    BlockCapacity = 1
    MaxView = 1
    MaxCommit = 1
CHECK_DEADLOCK FALSE
PROPERTIES
    MessagesHandled
