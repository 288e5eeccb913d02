SPECIFICATION FairSpec
CONSTANTS
    MaxTimeouts = 3
INVARIANTS
    TypeOK
    DrawnOffScreen
    OneRead
PROPERTIES
    ComesBack
