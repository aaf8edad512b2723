SPECIFICATION Spec
CONSTANTS
  empty = empty
  short = short
  huge = huge
  Message = {empty, short, huge}
  Size <- Sizes
  Sender = {s1, s2}
  Header = 2
  MaxBody = 1
  MaxFaults = 2
  None = None
INVARIANTS SoundMessagesArrive
PROPERTY Recovers
CHECK_DEADLOCK FALSE
