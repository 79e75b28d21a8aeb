SPECIFICATION MCSpec
CONSTANTS
    Threads = {t1, t2}
    Sids = {sidA, sidB}
    Objects = {o1, o2, o3}
    DoneSize = 1
    None = None
SYMMETRY Symmetry
INVARIANTS
    TypeOK
    MutualExclusion
    DeletedAtMostOnce
    AloneRemovalSafe
    AloneOpenSessionsInTable
    AloneNoUseAfterDelete
CHECK_DEADLOCK FALSE
