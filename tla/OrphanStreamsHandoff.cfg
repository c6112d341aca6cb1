SPECIFICATION OrphanSpec
CONSTANTS
    Stream = {k1, k2}
    Claimer = {c1, c2, c3}
    Handle = {h1}
    None = None
    CLAIMED_CAP = 2
INVARIANTS
    NoMissedHandoff
CHECK_DEADLOCK FALSE
