SPECIFICATION Spec
CONSTANTS
  alice = alice
  bob = bob
  Requests = {r1, r2}
  Users = {alice, bob}
  Params <- MCParams
  ServerTimeout = 3
  ClientTimeout = 2
  Grace = 2
  None = None
INVARIANTS TypeOK AnswerIsTrue NoAnswerIsLost
PROPERTIES EveryRequestEnds
CHECK_DEADLOCK FALSE
