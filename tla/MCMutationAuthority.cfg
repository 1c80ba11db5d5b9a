SPECIFICATION FairSpec
CONSTANTS
    Threads = {t1, t2}
    Requests = {r1, r2, r3}
    None = None
    MaxPending = 2
    MaxDepth = 2
INVARIANTS
    TypeOK
    NoLostWakeup
    PermitHolderIsLive
    WorkerIsCovered
    MutualExclusion
    PendingIsExact
PROPERTIES
    ImplementsFifoPermit
    EveryRequestEnds
