SPECIFICATION Spec
CONSTANTS
    Sizes = {3}
    MaxAddresses = 1
    Lengths = {1}
INVARIANTS
    BodyAsSent
CHECK_DEADLOCK FALSE
