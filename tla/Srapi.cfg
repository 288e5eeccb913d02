CONSTANTS
    Width = 2
    Height = 2
    Vertices = 1
    IndexValues = {1}
    Indices = 1
    Inks = {"red"}
    Areas = {{0}, {1}}
    MaxCommands = 2
    Size = 3
    Words = 4
    MaxMaps = 1
    Programs <- Shaders
    Registers = 2
    Inputs = 2
    Uniforms = 1
    Lanes = 2
    TileRows = 2
    Clips <- Rectangles
    Screen <- Frame
    Byte = 255
    NaN = NaN
    Largest = 300
    IntLimit = 200
    Reach = 2
    TiledWidth = 3
    MaxCols = 2
    TileCommands <- Drawn
    MaxTiled = 2
    Gpu = TRUE
    Modulus = 256
    Spans <- Strips
    Colours = {"red", "blue"}
    MaxBlit = 2
    MaxList = 2
    MaxRing = 1
    Cards = 2
    MaxConnectors = 2
    Room = 1
    Paths = {"e0"}
    Keys = {"caps"}
    Locks = {"caps"}
    Steps = {1}
    Wide = 1
    Initial = 2
    MaxQueue = 3
    MaxDevices = 2
    MaxId = 2
SPECIFICATION Spec
INVARIANTS
    TypeOK
    DrawingSafe
    DevicesSafe
PROPERTIES
    PartsSettle
CHECK_DEADLOCK FALSE
