SPECIFICATION FairSpec
CONSTANTS
    N = 4
    Master = 0
    Sha1 <- MCSha1
    MaxView = 4
    TimeoutViews <- NoTimeouts
CHECK_DEADLOCK FALSE
INVARIANTS
    UniqueOrder
    PrefixFinalized
    DeliveredOnce
    DeliveredBelowLock
PROPERTIES
    Progress
    BufferedBlocksKept
