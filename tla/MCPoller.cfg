CONSTANTS
    DefaultInterval = 3
    MaxBackoff = 7
    DegradedInterval = 4
    RetryAfters = {0, 5}
    RefreshFloor = 2
    FetchTimeout = 2
    IntervalRequests = {1, 5}
    Callers = {c1, c2}
    MaxTime = 9
SPECIFICATION FairSpec
INVARIANTS
    TypeOK
    FloorInv
    OldFiguresAreStale
    NextPollAtIsTheTimer
PROPERTIES
    GrantsOverlapOnlyInSlowPolls
    UserPollSpacing
    TimerNeverBeatsFloor
    RefreshServed
    CancelStops
