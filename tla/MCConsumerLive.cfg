SPECIFICATION ConsumerFairSpec
CONSTANTS
    c1 = c1
    c2 = c2
    p1 = p1
    p2 = p2
    u1 = u1
    u2 = u2
    d1 = d1
    NoConsumer = NoConsumer
    NoWorker = NoWorker
    NotJSON = NotJSON
    Consumer = {c1}
    Partition = {p1, p2}
    Log <- AllKinds
    MaxPoll = 2
    CommitScope = "processed"
    Timestamps <- MCTimestamps
    UUIDOf <- MCUUIDOf
    Registries <- MCRegistries
    NULBodies <- MCNULBodies
    Worker = {}
    LockTTL = 1
    RetryDelay = 1
    RetryCap = 1
    BatchSize = 1
PROPERTY LogIsDrained
