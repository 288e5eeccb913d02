SPECIFICATION FairSpec
CONSTANTS
    Workers = {w1, w2}
    Dispatcher = d
    MaxTiles = 3
    MaxJobs = 2
INVARIANTS
    TypeOK
    NoStaleJob
PROPERTIES
    ImplementsParallelFor
    DispatchReturns
CHECK_DEADLOCK FALSE
