SPECIFICATION Spec
CONSTANTS
    Caller = {poll}
    Attempts = 1
    RecoveryFailures = 2
    ReleaseDelay = 1
    RecoveryCooldown = 2
    MaxRestarts = 1
    NoAddress = NoAddress
PROPERTY IssueClearedBySuccess
