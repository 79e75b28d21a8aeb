SPECIFICATION FairSpec
CONSTANTS
    Threads = {t1, t2}
    Sids = {sidA}
    Objects = {o1, o2}
    DoneSize = 1
    None = None
PROPERTY ThreadReturns
CHECK_DEADLOCK FALSE
