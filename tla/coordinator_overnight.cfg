SPECIFICATION Spec
CONSTANTS
    RetryInterval = 1
    MaxDays = 2
    MaxRestarts = 0
INVARIANT UnavailableOvernight
CHECK_DEADLOCK FALSE
