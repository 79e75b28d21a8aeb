SPECIFICATION FairSpec
CONSTANTS
    LIMIT = 2
    Lifetimes = {0, 1, 2}
    MaxLifetime = 1
    MaxRetries = 1
    InstallRules = TRUE
    MaxObjects = 2
INVARIANTS
    TypeOK
    TimerGuardsState
PROPERTIES
    SuccessAnswersCreate
    PendingEndReported
    ImplementsLifecycle
    SoftState
CHECK_DEADLOCK FALSE
