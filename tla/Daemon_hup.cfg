\* SIGHUP at any moment.
SPECIFICATION Spec
CONSTANTS
  NumChildren = 3
  NumClients = 2
  NumMessages = 2
  Backlog = 1
  MaxFd = 5
  MaxHups = 3
  MaxMoves = 2
  MaxFailures = 2
  Ticks = 2
  MaxSent = 4
PROPERTIES
  EveryHupReopens
CHECK_DEADLOCK FALSE
