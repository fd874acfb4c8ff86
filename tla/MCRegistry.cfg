SPECIFICATION FairSpec
CONSTANTS
  Replicas = {p1}
  Admins = {a1, a2}
  Backends = {b1, b2}
  Requests = {r1}
  None = None
INVARIANTS
  TypeOK
  ClientsAccounted
  ReadsOwnWrite
PROPERTY
  AdminRepairs
CHECK_DEADLOCK FALSE
