SPECIFICATION Spec
CONSTANTS
    MaxHandle = 3
    Limit = 2
    MaxInput = 1
    MaxSerial = 6
    MaxResize = 1
    Foreign = {1}
    RingSize = 2
INVARIANTS
    TypeOK
    RingHoldsOne
    EventsInOrder
    IdsAgree
    CommitShowsDrawn
    NoOrphans
PROPERTY GoneLeavesNothing
CHECK_DEADLOCK FALSE
