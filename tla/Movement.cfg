SPECIFICATION FairSpec
CONSTANTS
  MaxOps = 3
  MaxCycles = 2
  None = None
  Halt = Halt
INVARIANTS
  TypeOK
  CutIsAborted
  StartedIsToldOnce
  AdjusterPaired
PROPERTIES
  HaltCancels
  HaltStops
  StartedIsTold
  AdjusterEnds
