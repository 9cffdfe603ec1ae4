SPECIFICATION FairSpec
CONSTANTS
    RetryInterval = 2
    MaxDays = 3
    MaxRestarts = 1
INVARIANTS
    TypeOK
    FailureHidden
    StaleIsTransient
    NextRefreshKnown
PROPERTIES
    RecoveryIsReal
    HiddenInTheEnd
    MorningComesAlive
    ReconcileRetried
CHECK_DEADLOCK FALSE
