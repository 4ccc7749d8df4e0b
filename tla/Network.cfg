SPECIFICATION FairSpec
CONSTANTS
    Goroutine = {"loop", "phalanx"}
    Dest = {2}
    Sends <- MCSends
    MaxFaults = 2
    Attempts = 2
    QueueSize = 1
    ChanBufferSize = 1
    CrashEnds = TRUE
CHECK_DEADLOCK FALSE
INVARIANTS
    TypeOK
    InOrder
    TransportsBounded
    FaultsEnd
PROPERTIES
    ImplementsChannel
    
