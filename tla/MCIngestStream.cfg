CONSTANTS
    Streams <- MCStreams
    MaxBuffered = 4
    MaxFailed = 3
    Genesis = 1
    MaxFaults = 4
    MaxCrashes = 3
SPECIFICATION FairSpec
INVARIANTS
    DurablePrefix
    RoutingStable
    LookaheadHonoured
    
    CompletionIsTrue
PROPERTIES
    OneDayPerFlush
    
CHECK_DEADLOCK FALSE
