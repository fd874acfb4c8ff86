SPECIFICATION Spec
CONSTANTS
  NumBackends = 3
  Requests = {r1}
  Policies = {"latency", "cost"}
  Simple = {r1}
  Window = 1
  Percent = 50
  MaxPrice = 1
  MaxElapsed = 1
  MaxCancels = 0
INVARIANT
  FailoverByPriority
