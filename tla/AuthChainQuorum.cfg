SPECIFICATION FairSpec
CONSTANTS
  Z = 2
  D = 4
  Modes = {"quorum"}
  MaxCircuits = 2
  MaxRounds = 2
  MaxFaults = 1
PROPERTIES UnreachableIsDenied
CHECK_DEADLOCK FALSE
