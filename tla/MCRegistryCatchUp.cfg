SPECIFICATION FairSpec
CONSTANTS
  Replicas = {p1, p2}
  Admins = {a1}
  Backends = {b1}
  Requests = {}
  None = None
PROPERTY
  HealsWithTheSchema
CHECK_DEADLOCK FALSE
