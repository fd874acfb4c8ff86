SPECIFICATION Spec
CONSTANTS
  Threshold = 1
  Cooldown = 1
  MaxLag = 0
  MaxClock = 0
  Backends = {b1}
  Requests = {r1}
  None = None
  Kinds <- CacheKinds
  Concurrency = 1
  L2Enabled = TRUE
  MaxChunks = 1
PROPERTY
  EmbeddingFailureSkipsL2
CHECK_DEADLOCK FALSE
