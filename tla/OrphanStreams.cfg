SPECIFICATION OrphanSpec
CONSTANTS
    Stream = {k1, k2}
    Claimer = {c1, c2, c3}
    Handle = {h1, h2}
    None = None
    CLAIMED_CAP = 1
INVARIANTS
    HandleHasOneOwner
    OneClaimPerStream
CHECK_DEADLOCK FALSE
