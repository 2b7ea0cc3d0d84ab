SPECIFICATION Spec
CONSTANTS
  Writers = {"plain", "logged"}
  Requests = {"handshake", "other"}
  Buffer = 2
  MaxMessages = 3
INVARIANTS TypeOK StreamsArePrefixes
PROPERTIES NobodyStaysRegistered ClientLearns
CHECK_DEADLOCK FALSE
