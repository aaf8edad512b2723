SPECIFICATION NotifyFairSpec
CONSTANTS
  Callers = {mover}
  Receiver = rx
  Timers = {k1, k2, k3}
  NoThread = NoThread
  MaxSends = 4
  IdSpace = 8
  Timeouts = {0}
  MinimalTimeout = 1
  Resends = TRUE
  WriteFailures = TRUE
  Closable = FALSE
  Notifications = {s1, s2}
  Nobody = Nobody
  Tries = 2
CHECK_DEADLOCK FALSE
INVARIANTS
  RetryAccounting
  OneAttemptAtATime
  SilentOnceTold
PROPERTIES
  EverySendSettles
