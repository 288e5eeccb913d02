SPECIFICATION Spec
CONSTANTS
    NumClients = 2
    NumSlots = 3
    PerClient = 2
    MaxId = 3
    Requests = {"role", "badrole", "destroy"}
    HasDE = FALSE
    MaxItems = 0
    Inputs = {}
CHECK_DEADLOCK FALSE
INVARIANT TypeOK
INVARIANT OwnersAgree
INVARIANT TreesOwned
PROPERTY ClientIsolation
PROPERTY ImplementsForest
