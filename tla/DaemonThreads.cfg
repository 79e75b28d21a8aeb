SPECIFICATION Spec
CONSTANTS
    Threads = {t1, t2}
    NetIds = {sidA}
    Config <- AllNodes
    Arrivals <- MCArrivals
    MaxMessages = 2
    DoneSize = 300
    None = None
INVARIANTS
    TypeOK
    AuctionProcessUpToDate
PROPERTY ShutdownCompletes
CHECK_DEADLOCK FALSE
