SPECIFICATION FairConnSpec
CONSTANTS
    near = near
    far = far
    Addrs = {near, far}
    Gateways = {near}
    Candidates = {near}
    Strangers = {near}
    Tasks = {t1}
    Side <- MCSide
    Distance <- MCDistance
    MinConns = 1
    MaxConns = 1
    Slack = 1
    Budget = 1
    Word = 3
    IsGateway = FALSE
    MaxTimers = 1
INVARIANTS
    CeilingHolds
PROPERTY
    PhantomsAreSwept
CHECK_DEADLOCK FALSE
