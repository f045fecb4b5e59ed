CONSTANTS
    Stations = {g1, g2}
    MaxSends = 2
    MaxVisits = 2
    MaxFaults = 2
SPECIFICATION Spec
INVARIANT TypeOK
PROPERTIES
    ImplementsFeed
    CommandsMoveOn
CHECK_DEADLOCK FALSE
