SPECIFICATION Spec
CONSTANTS
  Requests = {r1, r2, r3}
  Processes = {p1}
  Models = {m1, m2}
  Roles = {"user", "system"}
  Words = {"a", "b", "|", "user", ":"}
  Prompts <- TwoPrompts
  Points = {0, 2}
  Near = 1
  EfSearch = {1}
  Nobody = Nobody
SYMMETRY Interchangeable
INVARIANT
  NearDuplicatesHitL2
CHECK_DEADLOCK FALSE
