SPECIFICATION FairSpec
CONSTANTS
  NumBackends = 2
  Requests = {r1, r2}
  Policies = {"latency", "cost"}
  Simple = {r1}
  Window = 2
  Percent = 50
  MaxPrice = 1
  MaxElapsed = 1
  MaxCancels = 1
INVARIANTS
  TypeOK
  KeepsNewest
  OverflowIsUntrimmed
  P95IsQuantile
PROPERTY
  ColdGetsAChance
