SPECIFICATION Spec
CONSTANTS
  c1 = c1
  c2 = c2
  Cameras = {c1, c2}
  Requests <- TwoClients
  MaxRequests = 5
  MaxConnections = 3
INVARIANTS
  FreeSlotIsFree
CHECK_DEADLOCK FALSE
