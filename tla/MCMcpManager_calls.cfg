SPECIFICATION FairSpec
CONSTANTS
  Servers = {s1}
  Calls = {c1, c2, c3}
  Conns = {k1, k2, k3, k4}
  None = none
  MaxLosses = 2
CHECK_DEADLOCK FALSE
INVARIANTS
  TypeOK
  SessionsOwned
  TableIsLive
  SingleReconnect
PROPERTIES
  CallsAndCloseEnd
