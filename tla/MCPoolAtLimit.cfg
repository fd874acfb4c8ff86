SPECIFICATION FairSpec
CONSTANTS
  Chats = {c1, c2}
  Others = {o1}
  Connections = {d1, d2}
  MaxSessions = 3
INVARIANT
  OneEachSuffices
CHECK_DEADLOCK FALSE
