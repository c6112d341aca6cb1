CONSTANTS
    QueueKey = {k1, k2}
    MAX_QUEUED_PER_CONTRACT = 3
    MAX_TOTAL_FAIR_QUEUE = 6
    CLIENT_LOCAL_RESERVE = 2
    RELAY_STARVATION_FLOOR = 2
    MAX_DRAIN_BATCH = 2
SPECIFICATION FairQueueSpec
INVARIANTS
    TurnsAreExact
    CountsAreExact
    ReserveIsKept
    StarvationIsBounded
    NoKeyOvertakesTwice
PROPERTIES
    ForegroundIsServed
CHECK_DEADLOCK FALSE
