SPECIFICATION Spec
CONSTANTS
    LIMIT = 4
    Lifetimes = {0, 1, 2}
    MaxLifetime = 1
    MaxRetries = 1
    InstallRules = TRUE
    MaxObjects = 1
    First = 6
    MaxNumbers = 4
    MaxReopened = 1
INVARIANTS ActiveOnlyIfAccepted TeardownEffective
PROPERTY OrphanEnds
CHECK_DEADLOCK FALSE
