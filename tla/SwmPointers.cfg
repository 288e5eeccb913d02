SPECIFICATION Spec
CONSTANTS
    NumClients = 2
    NumSlots = 2
    PerClient = 2
    MaxId = 3
    Requests = {"attach", "role", "cursor", "destroy"}
    HasDE = FALSE
    MaxItems = 0
    Inputs = {"motion", "left", "alt"}
CHECK_DEADLOCK FALSE
INVARIANT PointersAlive
INVARIANT CursorFollowsPointer
PROPERTY NoSilentHandoff
