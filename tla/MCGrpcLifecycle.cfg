SPECIFICATION LifeFairSpec
CONSTANTS
    RPC = {r1}
    RedisModes = {"required", "optional"}
    DrainDelay = 4
    ShutdownTimeout = 1
    PingTimeout = 1
    ProbePeriod = 1
    RemovalLag = 1
INVARIANT LifeTypeOK
PROPERTIES NobodyIsTurnedAway InFlightGetsTheTime ShutdownEnds ReadyOnceHealthy
