SPECIFICATION FairClientResultsSpec
CONSTANTS
    r1 = r1  r2 = r2  a = a  b = b  site = site
    NoTx = NoTx  NoRequest = NoRequest  NoResource = NoResource
    Request = {r1, r2}
    Client = {a, b}
    Resource = {site}
    ClientOf <- MCClientOf
    ResourceOf <- MCResourceOf
    MAX_PENDING_RESULTS = 2
    ResultCapacity = 1
    SessionCapacity = 1
CHECK_DEADLOCK FALSE
INVARIANTS
    NoOperationAfterDrain
    CompletionLeavesNoTrace
    AnsweredAtMostOnce
    WaitersAreCorrelated
PROPERTIES
    HeardIsAnswered
