SPECIFICATION Spec
CONSTANTS
    N = 2
    Master = 0
    Sha1 <- MCSha1
    MaxView = 5
    TimeoutViews <- SkipTimeouts
INVARIANTS
    TypeOK
    NoPanic
    QCsAreBacked
    DeliveredOnTwoChain
    CertifiedWithoutGaps
    
PROPERTIES
    SkipStalls
    
CHECK_DEADLOCK FALSE
