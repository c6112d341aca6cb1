CONSTANTS
  p1 = p1
  p2 = p2
  Pusher <- MCPusher
  Base = 2
  MaxRepeats = 1
SPECIFICATION FairStreamSpec
INVARIANTS FrontierIsExact AssembleIsExact EndedMissesOnlyOverflow InboundCompletes
PROPERTIES ForkOutlivesCancel ReadersFinish
CHECK_DEADLOCK FALSE
