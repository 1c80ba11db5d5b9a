SPECIFICATION Spec
CONSTANTS
    Threads = {t1}
    Requests = {r1}
    None = None
    MaxPending = 1
    MaxDepth = 1
INVARIANT CancellationIsReported
