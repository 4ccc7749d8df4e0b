SPECIFICATION LastSpec
CONSTANTS
    N = 4
    Master = 0
    Sha1 <- MCSha1
    MaxView = 3
    TimeoutViews <- NoTimeouts
CHECK_DEADLOCK FALSE
INVARIANTS
    NoPanic
