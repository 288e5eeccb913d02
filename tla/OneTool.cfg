SPECIFICATION Spec
CONSTANTS
    Panels = {"p"}
    Buttons = {}
    Checks = {"k"}
    Textboxes = {"t"}
    Sliders = {"sl"}
    Popups = {"m"}
    Above <- PanelAndPopup
    Toggled = {"p"}
    Switched = {"k"}
    Dwell = 1
    Bubbles = {"m"}
    MaxSize = 1
    Modes = {"swm", "drm"}
    Tops = {"a"}
    Pops = {"b"}
    Subs = {"c"}
    Framing = {"b"}
    WithApp = TRUE
    Focusable = {"a", "b"}
    Keyboards = {"k1", "k2"}
    Keys = {"x", "lshift", "rshift", "ctrl", "caps"}
    Bit <- ShiftsAndCtrl
    CapsLock = "caps"
    MaxPressed = 1
    Params = {"p1"}
    Planes = {0, 1}
    MaxFds = 2
    Starts <- SomeStarts
    Lengths = {0, 3}
    Sizes = {1, 3}
    Offsets = {0, 1}
    Bounds = {0, 2, 3}
    LinkFiles <- SomeFiles
    MaxFiles = 3
    LinkLines <- SomeLines
    LinkerNames = {"end"}
    DefaultEntry = "start"
    RawSections <- SomeSections
    RawCommons <- SomeCommons
    MaxSections = 3
    MaxCommons = 2
    PageSize = 8
    Header = 2
    PhdrSize = 1
    CommonAlign = 2
    Word = 64
    Field = 16
    Addresses = {0, 7, 8, 31, 32, 63}
    Addends <- SomeAddends
    Cols = 2
    Rows = 3
    Scrollback = 2
    Counts = {1, 3}
    Tab = 2
    MaxOps = 4
    MaxKeys = 2
    Buffer = 1
    ShellOutput = {"text", "esc", "open", "digit", "final", "osc", "bel"}
    BodySizes = {0, 3}
    MaxAddresses = 1
    RuleLengths = {1, 2}
    Hosts = {"a", "b", "c"}
    Threads = {1, 2}
    Slots = 2
    MaxSessions = 3
    MaxClock = 3
    Servers = {1, 2, 3}
    Gives <- Options
    Noise <- Strays
INVARIANTS
    TypeOK
    GuiSafe
    RunsSafe
    ResultsRight
PROPERTIES
    ToolsSettle
CHECK_DEADLOCK FALSE
