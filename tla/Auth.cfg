SPECIFICATION Spec
CONSTANTS
  Users = {alice}
  Requests = {r1, r2, r3, r4}
  AccessTTL = 1
  RefreshTTL = 2
  MaxTime = 3
  MaxFailures = 1
  None = None
SYMMETRY Interchangeable
INVARIANTS TypeOK OnlyRefreshTokensAreExchanged SpentRowsStaySpent SessionsLast NoExpiredSession
CHECK_DEADLOCK FALSE
