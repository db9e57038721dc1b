SPECIFICATION MCSpec
CONSTANTS
    Requests = {r1, r2}
    CacheTTL = 2
    ReadyTimeout = 2
    RedisTimeout = 1
    MaxClock = 3
    MaxFlips = 1
    None = None
INVARIANTS
    ServesOnlyWhenSound
    AnswersAreFresh
    AnswersInTime
    ProbesDoNotPileUp
PROPERTIES
    FaultEndsTheProcess
CHECK_DEADLOCK FALSE
