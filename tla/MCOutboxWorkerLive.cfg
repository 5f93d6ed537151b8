SPECIFICATION WorkerFairSpec
CONSTANTS
    w1 = w1
    w2 = w2
    u1 = u1
    u2 = u2
    d1 = d1
    NoWorker = NoWorker
    NotJSON = NotJSON
    Timestamps = {"now"}
    UUIDOf <- MCUUIDOf
    NULBodies = {}
    Worker = {w1}
    Arrivals <- TwoArrivals
    LockTTL = 1
    RetryDelay = 1
    RetryCap = 2
    BatchSize = 1
PROPERTY EveryRowPublished
