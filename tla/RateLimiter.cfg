SPECIFICATION Spec
CONSTANTS
  phone = phone
  Keys = {k1, k2}
  Clients = {phone}
  Client <- MCClient
  Cost = 2
  Cap = 3
  Period = 2
  Idle = 3
  MaxTime = 8
  None = None
SYMMETRY Connections
INVARIANTS TypeOK WindowBound IdleBucketsGo
PROPERTIES ImplementsTokenBucket
CHECK_DEADLOCK FALSE
