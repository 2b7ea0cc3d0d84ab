SPECIFICATION Spec
CONSTANTS
  alice = alice
  Users = {alice}
  Clients = {a1, a2}
  Owner <- MCOwner
  Callers = {h1}
  Cap = 1
  MaxCalls = 2
  None = None
SYMMETRY Devices
INVARIANTS TypeOK NoPanic OnlineUsersAreConnected
PROPERTIES EveryDeviceServed CloseFrameIsLast ImplementsMailbox
CHECK_DEADLOCK FALSE
