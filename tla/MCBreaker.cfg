SPECIFICATION FairSpec
CONSTANTS
    r1 = r1
    r2 = r2
    Requests <- TwoRequests
    ErrorThreshold = 2
    Window = 1
    ProbeInterval = 3
    Limit = 1
    Outage = 3
    MaxTime = 9
INVARIANTS
    TypeOK
    OneProbe
    HalfOpenHasProbe
PROPERTIES
    ProbeKeepsInterval
    Recovers
