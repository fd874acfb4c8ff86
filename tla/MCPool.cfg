SPECIFICATION FairSpec
CONSTANTS
  Chats = {c1, c2}
  Others = {o1}
  Connections = {d1, d2, d3}
  MaxSessions = 3
INVARIANTS
  TypeOK
  ConnectionsAccounted
  SomeoneProceeds
PROPERTY
  EveryRequestEnds
CHECK_DEADLOCK FALSE
