SPECIFICATION LifeFairSpec
CONSTANTS
    RPC = {r1}
    RedisModes = {"optional"}
    DrainDelay = 1
    ShutdownTimeout = 1
    PingTimeout = 1
    ProbePeriod = 1
    RemovalLag = 0
PROPERTY DegradesOnlyWhileDown
