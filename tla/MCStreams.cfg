SPECIFICATION FairSpec
CONSTANTS
  Threshold = 2
  Cooldown = 1
  MaxLag = 0
  MaxClock = 0
  Backends = {b1, b2}
  Requests = {r1, r2}
  None = None
  Kinds <- StreamKind
  Concurrency = 1
  L2Enabled = FALSE
  MaxChunks = 2
PROPERTIES
  ServesOneAnswer
  EveryRequestEnds
CHECK_DEADLOCK FALSE
