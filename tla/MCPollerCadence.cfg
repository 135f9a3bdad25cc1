CONSTANTS
    DefaultInterval = 3
    MaxBackoff = 7
    DegradedInterval = 4
    RetryAfters = {0, 5}
    RefreshFloor = 2
    FetchTimeout = 2
    IntervalRequests = {1, 5}
    Callers = {c1}
    MaxTime = 9
SPECIFICATION Spec
PROPERTIES
    NeverFasterThanCadence
