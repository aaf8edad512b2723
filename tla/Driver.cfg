SPECIFICATION Spec
CONSTANTS
  MaxClients = 2
  MaxRequests = 3
  MaxNotices = 1
  SendsFail = TRUE
  Thread = {w1, w2}
  None = None
  Job <- JobsOfDriver
INVARIANTS
  FlowMatchesState
  RobotOfItsClient
  MovingIsKnown
  OneWorker
PROPERTIES
  ServesInOrder
  ServesAll
  GoneClientReleasesRobot
CHECK_DEADLOCK FALSE
