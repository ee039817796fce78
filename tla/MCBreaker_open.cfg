SPECIFICATION Spec
CONSTANTS
    r1 = r1
    r2 = r2
    Requests <- TwoRequests
    ErrorThreshold = 2
    Window = 1
    ProbeInterval = 3
    Limit = 1
    Outage = 4
    MaxTime = 4
PROPERTY OpenForInterval
