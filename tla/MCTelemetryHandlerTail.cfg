CONSTANTS
    FixedHeader = 36
    Trailer = 8
    CspHeader = 4
    SecHeader = 16
    ImageData = 128
    BeaconSize = 143
    ReportSize = 152
    CspTail = 4
    StreamSizes = {264}
    FrameLengths = {68, 196}
SPECIFICATION Spec
INVARIANT TailNeverPushed
CHECK_DEADLOCK FALSE
