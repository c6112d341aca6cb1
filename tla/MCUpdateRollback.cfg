CONSTANTS
  MaxVersion = 3
  Wedged <- MCWedged
  Corrupt <- MCCorrupt
  ROLLBACK_CRASH_THRESHOLD = 2
  INSTALL_FAILURE_GATE_THRESHOLD = 2
  MAX_UPDATE_FAILURES = 2
  StartLimitBurst = 4
  MaxUpsets = 2
  None = None
  Torn = Torn
SPECIFICATION FairSpec
INVARIANTS
  RollbackIsExact
PROPERTIES
  NoReapply
  RollbackBeatsLimiter
  ExitLoopEnds
