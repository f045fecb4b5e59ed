CONSTANTS
    Fragments = {f1, f2}
    MaxSecond = 1
    MaxFragments = 2
    Faults = {"mkdir", "open", "rename"}
    NoFile = NoFile
    NoPath = NoPath
SPECIFICATION Spec
INVARIANTS
    TypeOK
    OpenHasPart
PROPERTIES
    NoOrphanPart
    ClosingPublishesWhole
