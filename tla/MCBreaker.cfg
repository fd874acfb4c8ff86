SPECIFICATION FairSpec
CONSTANTS
  Threshold = 2
  Cooldown = 2
  MaxLag = 1
  MaxClock = 5
  Backends = {b1}
  Requests = {r1, r2, r3}
  None = None
INVARIANTS
  TypeOK
  TrippedByFailures
  CooldownHonoured
  OpenedAtIsLastFailure
PROPERTY
  ReopensForTraffic
