SPECIFICATION Spec
CONSTANTS
  alice = alice
  bob = bob
  carol = carol
  ab = ab
  bc = bc
  Users = {alice, bob}
  Active = {alice, bob}
  Devices = {alice, bob}
  Convs = {ab}
  Members <- MCMembers
  Requests = {r1}
  Kinds <- WsSends
  MaxFaults = 0
  None = None
PROPERTIES WsMessageIsStored
CHECK_DEADLOCK FALSE
