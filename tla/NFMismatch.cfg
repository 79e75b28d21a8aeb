SPECIFICATION Spec
CONSTANTS
    LIMIT = 2
    Lifetimes = {0, 1, 2}
    MaxLifetime = 1
    MaxRetries = 1
    InstallRules = TRUE
    MaxObjects = 2
PROPERTY MismatchReported
CHECK_DEADLOCK FALSE
