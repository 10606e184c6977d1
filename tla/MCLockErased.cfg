\* The lock another request's late write erases.
SPECIFICATION Spec
CONSTANTS
    a1 = a1
    a2 = a2
    a3 = a3
    Attempts = {a1, a2}
    MaxFailures = 2
    WindowSeconds = 2
    BaseLockSeconds = 2
    MaxLockSeconds = 5
    TtlSlack = 1
    NoEntry = NoEntry
    MaxTries = 4
    MaxTime = 4
PROPERTIES
    LockHonoured
CHECK_DEADLOCK FALSE
