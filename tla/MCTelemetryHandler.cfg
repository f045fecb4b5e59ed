CONSTANTS
    FixedHeader = 2
    Trailer = 1
    CspHeader = 1
    SecHeader = 2
    ImageData = 3
    BeaconSize = 4
    ReportSize = 5
    CspTail = 1
    StreamSizes = {2, 12, 19}
    FrameLengths <- MCFrameLengths
SPECIFICATION Spec
INVARIANTS
    TypeOK
    RemIsTheRest
PROPERTIES
    ReadsOwnPayload
    NoByteTwice
    Returns
CHECK_DEADLOCK FALSE
