SPECIFICATION Spec
CONSTANTS
  alice = alice
  bob = bob
  carol = carol
  ALICE = ALICE
  nobody = nobody
  Users = {alice, bob, carol}
  Names = {alice, bob, carol, ALICE, nobody}
  Person <- MCPerson
  Requests = {r1, r2, r3}
  MaxOthers = 2
  MaxFailures = 1
  None = None
SYMMETRY Interchangeable
INVARIANTS TypeOK NoPartialConversation AnswerFitsRequest DuplicatesOverlap
CHECK_DEADLOCK FALSE
