SPECIFICATION Spec
CONSTANTS
    Threads = {t1}
    NetIds = {sidA}
    Config <- EitherNode
    Arrivals <- Openings
    MaxMessages = 3
    DoneSize = 300
    None = None
PROPERTY AnswersReachSessions
CHECK_DEADLOCK FALSE
