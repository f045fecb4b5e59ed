CONSTANTS
    SeqCounts = {0, 2, 5}
    MaxPackets = 3
    MaxCalls = 1
    MaxSecond = 1
    Faults = {"write", "rename", "copy", "remove"}
    NoFile = NoFile
    NoPath = NoPath
SPECIFICATION Spec
INVARIANTS
    TypeOK
    ClosedAtReturn
    LastEndsFile
    AssembledIsRecorded
    StartedIsOpen
PROPERTIES
    ReportNamesGaps
CHECK_DEADLOCK FALSE
