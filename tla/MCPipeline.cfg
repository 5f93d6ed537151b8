SPECIFICATION PipelineSpec
CONSTANTS
    c1 = c1
    w1 = w1
    p1 = p1
    u1 = u1
    u2 = u2
    d1 = d1
    NoConsumer = NoConsumer
    NoWorker = NoWorker
    NotJSON = NotJSON
    Consumer = {c1}
    Partition = {p1}
    Log <- MixedLog
    MaxPoll = 2
    CommitScope = "processed"
    Timestamps = {"now"}
    UUIDOf <- MCUUIDOf
    Registries = {{"expense"}, {"expense", "travel"}}
    NULBodies = {}
    Worker = {w1}
    Arrivals <- NoArrivals
    LockTTL = 1
    RetryDelay = 1
    RetryCap = 1
    BatchSize = 2
INVARIANT DeliveredFaithfully
PROPERTY ImplementsCourier
VIEW View
