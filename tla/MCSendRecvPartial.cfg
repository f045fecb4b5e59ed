CONSTANTS
    Kind <- MCKind
SPECIFICATION Spec
INVARIANT PartialFrameIsKept
CHECK_DEADLOCK FALSE
