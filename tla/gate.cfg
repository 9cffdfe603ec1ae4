SPECIFICATION FairSpec
CONSTANTS
    Caller = {poll, archive, probe}
    Attempts = 3
    RecoveryFailures = 2
    ReleaseDelay = 2
    RecoveryCooldown = 9
    MaxRestarts = 1
    NoAddress = NoAddress
INVARIANTS
    TypeOK
    GateInv
    MutualExclusion
    NoLeakedLock
    IssueKnown
PROPERTIES
    PersistentFailureReported
    ImplementsLease
    EveryCallEnds
