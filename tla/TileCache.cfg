SPECIFICATION Spec
CONSTANTS
    Targets = {fb}
    Width = 3
    MaxCols = 2
    MaxCommands = 2
    Gpu = FALSE
    Word = 256
    Commands <- Clipped
INVARIANT SameImage
