SPECIFICATION FairPutSpec
CONSTANTS
    p1 = p1
    Peers = {p1}
    Budgets <- MCBudgets
    MaxAttempts = 2
    ExecCapacity = 1
    NoteCapacity = 1
INVARIANTS BareCloseNeedsSlip SlotsAreReleased
PROPERTIES ParkedDriverIsWoken PutEndsClean
CHECK_DEADLOCK FALSE
