SPECIFICATION FairSpec
CONSTANTS
  MaxOps = 3
  MaxCycles = 1
  None = None
  Halt = Halt
INVARIANTS
  StillMeansStill
