SPECIFICATION FairSpec
CONSTANTS
    NumClients = 2
    NumSlots = 2
    PerClient = 2
    MaxId = 2
    Requests = {"attach", "badattach", "frame", "destroy"}
    HasDE = TRUE
    MaxItems = 2
    Inputs = {}
CHECK_DEADLOCK FALSE
PROPERTY FrameDelivered
