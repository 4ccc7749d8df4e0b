SPECIFICATION AloneSpec
CONSTANTS
    N = 4
    Master = 0
    Sha1 <- MCSha1
    MaxView = 5
    TimeoutViews <- GapTimeouts
CHECK_DEADLOCK FALSE
INVARIANTS
    PrefixFinalized
