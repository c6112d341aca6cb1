SPECIFICATION ConnSpec
CONSTANTS
    near = near
    far = far
    Addrs = {near}
    Gateways = {near}
    Candidates = {near}
    Strangers = {near}
    Tasks = {t1}
    Side <- MCSide
    Distance <- MCDistance
    MinConns = 1
    MaxConns = 1
    Slack = 1
    Budget = 2
    Word = 4
    IsGateway = FALSE
    MaxTimers = 1
INVARIANT ClosedReleasesSlot
CHECK_DEADLOCK FALSE
