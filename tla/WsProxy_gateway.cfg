SPECIFICATION Spec
CONSTANTS
  Writers = {"logged"}
  Requests = {"handshake", "other"}
  Buffer = 1
  MaxMessages = 1
PROPERTIES HandshakeSucceeds
CHECK_DEADLOCK FALSE
