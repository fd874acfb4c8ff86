SPECIFICATION Spec
CONSTANTS
  Threshold = 1
  Cooldown = 1
  MaxLag = 0
  MaxClock = 1
  Backends = {b1, b2}
  Requests = {r1, r2}
  None = None
  Kinds <- MixedKinds
  Concurrency = 1
  L2Enabled = TRUE
  MaxChunks = 1
INVARIANTS
  TypeOK
  CacheHoldsWholeAnswers
  NoStoreBypassesCache
  PermitsConserved
  ServedIsAccounted
  GivesUpLast
PROPERTIES
  ServesOneAnswer
  UsesBreakerProperly
SYMMETRY Interchangeable
CHECK_DEADLOCK FALSE
