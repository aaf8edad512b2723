SPECIFICATION Spec
CONSTANTS
  MaxClients = 2
  MaxRequests = 1
  MaxNotices = 1
  SendsFail = FALSE
  Thread = {w1, w2}
  None = None
  Job <- JobsOfDriver
PROPERTIES
  QueuedJobsBegin
CHECK_DEADLOCK FALSE
