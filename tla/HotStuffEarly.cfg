SPECIFICATION Spec
CONSTANTS
    N = 2
    Master = 0
    Sha1 <- MCSha1
    MaxView = 5
    TimeoutViews <- EarlyTimeouts
CHECK_DEADLOCK FALSE
INVARIANTS
    NoEquivocation
    TypeOK
    QCsAreBacked
    LockBelowHighQC
    DeliveredIsCertified
PROPERTIES
    StalledForever
    NeverBack
