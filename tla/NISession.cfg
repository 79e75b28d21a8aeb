SPECIFICATION FairSpec
CONSTANTS
    LIMIT = 2
    Lifetimes = {0, 1, 2}
    MaxLifetime = 2
    MaxRetries = 1
    InstallRules = TRUE
    MaxObjects = 2
INVARIANTS
    TypeOK
    TimerGuardsState
    RetransmissionHasMessage
PROPERTIES
    TornDownForGood
    SentMessagesAreFresh
    ImplementsLifecycle
    PendingEnds
    TeardownCompletes
CHECK_DEADLOCK FALSE
