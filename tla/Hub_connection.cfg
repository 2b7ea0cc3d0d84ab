SPECIFICATION Spec
CONSTANTS
  alice = alice
  Users = {alice}
  Clients = {a1}
  Owner <- MCOwner
  Callers = {h1}
  Cap = 2
  MaxCalls = 4
  None = None
INVARIANTS DeliveredInCallOrder
PROPERTIES EveryCallReturns ConnectionIsCleanedUp
CHECK_DEADLOCK FALSE
