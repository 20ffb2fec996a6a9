SPECIFICATION FairSpec
CONSTANTS
  c1 = c1
  c2 = c2
  Cameras = {c1, c2}
  Requests <- ModelRequests
  MaxRequests = 3
  MaxConnections = 2
INVARIANTS
  TypeOK
  AnswersInOrder
  OwnPicture
  RefusedOnlyAfterLoss
PROPERTIES
  EveryRequestAnswered
CHECK_DEADLOCK FALSE
