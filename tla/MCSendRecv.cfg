CONSTANTS
    Kind <- MCKind
SPECIFICATION Spec
INVARIANTS
    TypeOK
    WholeFramesDecoded
PROPERTIES
    ImplementsFeed
    StopsOrIdles
    KeepsTrying
CHECK_DEADLOCK FALSE
