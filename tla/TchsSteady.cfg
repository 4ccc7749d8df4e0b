SPECIFICATION Spec
CONSTANTS
    N = 4
    Master = 0
    Sha1 <- MCSha1
    MaxView = 4
    TimeoutViews <- NoTimeouts
INVARIANTS
    DeliversBeforeRest
CHECK_DEADLOCK FALSE
