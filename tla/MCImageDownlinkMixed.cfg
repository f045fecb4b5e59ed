CONSTANTS
    Downlink <- MCDownlink
    MaxPerPayload = 3
    MixedPayloads = TRUE
    MaxSecond = 1
    Faults = {"open", "write"}
    NoFile = NoFile
    NoPath = NoPath
SPECIFICATION Spec
INVARIANT NextImagePrepared
CHECK_DEADLOCK FALSE
