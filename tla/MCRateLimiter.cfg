SPECIFICATION FairSpec
CONSTANTS
  Requests = {r1, r2, r3}
  Estimates = {1, 2}
  Actuals = {0, 1, 3}
  Budget = 3
  Window = 2
  MaxLag = 1
INVARIANTS
  TypeOK
  NoDoubleCharge
  EstimateStaysCharged
  OutstandingWithinBudget
PROPERTY
  EventuallyAdmitted
