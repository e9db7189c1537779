\* The interval timer of api3/timer_example.c, with a signal from outside.
SPECIFICATION Spec
CONSTANTS
  NumChildren = 3
  NumClients = 2
  NumMessages = 2
  Backlog = 1
  MaxFd = 5
  MaxHups = 3
  MaxMoves = 2
  MaxFailures = 2
  Ticks = 2
  MaxSent = 1
PROPERTIES
  FiveTurns
CHECK_DEADLOCK FALSE
