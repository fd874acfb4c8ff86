SPECIFICATION FairSpec
CONSTANTS
  Replicas = {p1, p2}
  Admins = {a1, a2}
  Backends = {b1, b2}
  Requests = {r1}
  None = None
INVARIANT
  AcknowledgedIsServed
CHECK_DEADLOCK FALSE
