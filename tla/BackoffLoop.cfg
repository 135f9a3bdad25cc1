CONSTANTS
    DefaultInterval = 5
    MaxBackoff = 30
    DegradedInterval = 15
    RetryAfters = {0, 1, 40, 1440}
    Half = 2048
    Intervals = {5, 7, 10, 15, 29, 30, 31, 60, 1023, 1024, 1025, 2047}
    MaxFailures = 14
SPECIFICATION Spec
INVARIANTS
    LoopComputesBackoff
CHECK_DEADLOCK FALSE
