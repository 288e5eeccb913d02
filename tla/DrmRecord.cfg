SPECIFICATION FairRecordSpec
CONSTANTS
    NSlots = 3
    MaxFrames = 6
INVARIANTS
    RecordTypeOK
    SlotsApart
    FileInOrder
PROPERTIES
    ImplementsRecording
    StopReturns
