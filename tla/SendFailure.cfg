SPECIFICATION NotifyFairSpec
CONSTANTS
  Callers = {mover}
  Receiver = rx
  Timers = {k1, k2}
  NoThread = NoThread
  MaxSends = 2
  IdSpace = 8
  Timeouts = {0}
  MinimalTimeout = 1
  Resends = TRUE
  WriteFailures = TRUE
  Closable = FALSE
  Notifications = {s1}
  Nobody = Nobody
  Tries = 2
CHECK_DEADLOCK FALSE
PROPERTY SendProceeds
