SPECIFICATION FairSpec
CONSTANTS
  p1 = p1  p2 = p2  p3 = p3
  Procs <- ThreeProcs
  Slots = 2
  MaxTries = 2
PROPERTIES
  FatalMeansUninitialised
CHECK_DEADLOCK FALSE
