SPECIFICATION Spec
CONSTANTS
    LIMIT = 2
    Lifetimes = {0, 1, 2}
    MaxLifetime = 2
    MaxRetries = 1
    InstallRules = TRUE
    MaxObjects = 2
INVARIANT RefreshAssertHolds
CHECK_DEADLOCK FALSE
