SPECIFICATION FairSpec
CONSTANTS
    LIMIT = 2
    Lifetimes = {0, 1, 2, 3}
    MaxLifetime = 2
    MaxRetries = 2
    InstallRules = TRUE
    MaxObjects = 2
INVARIANTS
    TypeOK
    TimerGuardsState
PROPERTIES
    PromiseKept
    CreateAnswered
    ImplementsLifecycle
    PendingEnds
    SoftState
CHECK_DEADLOCK FALSE
