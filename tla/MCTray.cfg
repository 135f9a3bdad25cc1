CONSTANTS
    Count = 2
    Documented = {1}
    Readings = {none, r1}
    NoReading = none
    Accounts = {a1}
    NoAccount = noAccount
SPECIFICATION FairSpec
INVARIANTS
    TypeOK
    ScreenIsCurrent
PROPERTIES
    ClickIsAnswered
    QuitEnds
CHECK_DEADLOCK FALSE
