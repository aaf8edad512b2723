SPECIFICATION Spec
CONSTANTS
  Callers = {c1}
  Receiver = rx
  Timers = {k1, k2}
  NoThread = NoThread
  MaxSends = 3
  IdSpace = 2
  Timeouts = {1}
  MinimalTimeout = 1
  Resends = FALSE
  WriteFailures = FALSE
  Closable = FALSE
CHECK_DEADLOCK FALSE
PROPERTY ReplyReachesItsRequest
