CONSTANTS
    Calls = {"beacon", "ingest"}
    Beacons = {"beacon"}
    Work <- MCWork
    MaxPolls = 2
    NoTable = NoTable
SPECIFICATION Spec
INVARIANTS
    TypeOK
    ValuesInPlace
    OneRowPerName
    StoresPrefix
PROPERTY PageCatchesUp
CHECK_DEADLOCK FALSE
