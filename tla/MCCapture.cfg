SPECIFICATION FairSpec
CONSTANTS
  c1 = c1
  c2 = c2
  Containers = {c1, c2}
  Agents = {a1}
  Requests <- SomeRequests
  NoToken = NoToken
  Desktops = {d1}
  Ttl = 2
  Skew = 1
  TokenRequired = TRUE
  Grace = 1
  Cleanup = 1
  StopTimeout = 3
  MaxTime = 4
INVARIANTS
  TypeOK
  NoOrphan
PROPERTIES
  PositionsHold
  StreamsEnd
CHECK_DEADLOCK FALSE
