SPECIFICATION ForkSpec
CONSTANTS
    N = 4
    Master = 0
    Sha1 <- MCSha1
    MaxView = 8
    TimeoutViews <- ForkTimeouts
CHECK_DEADLOCK FALSE
INVARIANTS
    SingleChain
