SPECIFICATION Spec
CONSTANTS
  alice = alice
  bob = bob
  carol = carol
  ab = ab
  bc = bc
  Users = {alice, bob, carol}
  Active = {alice, bob}
  Devices = {alice}
  Convs = {ab, bc}
  Members <- MCMembers
  Requests = {r1, r2}
  Kinds <- Everything
  MaxFaults = 1
  None = None
INVARIANTS TypeOK EventsAreTrue SuccessIsComplete InOrder
PROPERTIES StoredMessageIsFannedOut
CHECK_DEADLOCK FALSE
