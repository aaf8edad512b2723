SPECIFICATION Spec
CONSTANTS
  Callers = {c1, c2}
  Receiver = rx
  Timers = {k1, k2, k3}
  NoThread = NoThread
  MaxSends = 3
  IdSpace = 8
  Timeouts = {1, 3}
  MinimalTimeout = 2
  Resends = FALSE
  WriteFailures = TRUE
  Closable = TRUE
SYMMETRY Interchangeable
CHECK_DEADLOCK FALSE
INVARIANTS
  TypeOK
  AtMostOnce
  NeverForgotten
  Custody
  DeadlineOrder
  TimerPresent
  OneTimer
  RegisteredBeforeReply
PROPERTIES
  ReplyReachesItsRequest
  NoEarlyTimeout
