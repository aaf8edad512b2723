SPECIFICATION JavaFairSpec
CONSTANTS
  Callers = {c1, c2}
  Receiver = rx
  Timers = {k1, k2}
  NoThread = NoThread
  MaxSends = 2
  IdSpace = 8
  Timeouts = {1, 2}
  MinimalTimeout = 1
  Resends = TRUE
  WriteFailures = TRUE
  Closable = TRUE
CHECK_DEADLOCK FALSE
PROPERTY SendProceeds
