SPECIFICATION Spec
CONSTANTS
    N = 2
    Master = 0
    Sha1 <- MCSha1
    MaxView = 6
    TimeoutViews <- FirstTimeouts
CHECK_DEADLOCK FALSE
INVARIANTS
    TypeOK
    
    NoEquivocation
    DeliveredOnce
    DeliveredIsCertified
PROPERTIES
    LostForever
    NoSecondChance
