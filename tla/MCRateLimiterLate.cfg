SPECIFICATION FairSpec
CONSTANTS
  Requests = {r1, r2}
  Estimates = {1}
  Actuals = {1, 2}
  Budget = 2
  Window = 2
  MaxLag = 0
PROPERTY
  CorrectedAfterCompletion
