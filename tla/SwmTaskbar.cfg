SPECIFICATION Spec
CONSTANTS
    NumClients = 1
    NumSlots = 2
    PerClient = 2
    MaxId = 3
    Requests = {"attach", "role", "destroy"}
    HasDE = TRUE
    MaxItems = 1
    Inputs = {"left", "right", "menu", "escape"}
CHECK_DEADLOCK FALSE
INVARIANT TaskbarAgrees
