SPECIFICATION Spec
CONSTANTS
  Requests = {r1, r2, r3}
  Processes = {p1}
  Models = {m1, m2}
  Roles = {"user", "system"}
  Words = {"a", "b", "|", "user", ":"}
  Prompts <- ThreePrompts
  Points = {0, 2}
  Near = 1
  EfSearch = {2}
  Nobody = Nobody
SYMMETRY Interchangeable
INVARIANTS
  TypeOK
  NeverCrossServes
  L1ExactWithoutSeparators
  NoRepeatedCall
PROPERTY
  ImplementsStore
CHECK_DEADLOCK FALSE
