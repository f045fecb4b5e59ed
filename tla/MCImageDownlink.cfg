CONSTANTS
    Downlink <- MCDownlink
    MaxPerPayload = 3
    MixedPayloads = FALSE
    MaxSecond = 1
    Faults = {"open", "write"}
    NoFile = NoFile
    NoPath = NoPath
SPECIFICATION Spec
INVARIANTS
    TypeOK
    DamageConfined
    NextImagePrepared
PROPERTIES
    ClearedIsSaved
    LastLeavesAccumulator
    ImplementsFeed
CHECK_DEADLOCK FALSE
