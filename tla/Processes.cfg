\* Three children to wait for; two clients that send two messages each and
\* do not both fit in the backlog.
SPECIFICATION Spec
CONSTANTS
  NumChildren = 3
  NumClients = 2
  NumMessages = 2
  Backlog = 1
  MaxFd = 5
  MaxHups = 3
  MaxMoves = 2
  MaxFailures = 2
  Ticks = 2
  MaxSent = 4
INVARIANTS
  TypesOK
  NoZombieForgotten
  EchoComplete
  DescriptorsPrivate
  Detached
PROPERTIES
  ParentEnds
  AllServed
  HupHonoured
  WaiterWakes
  QuitHonoured
  JumpUnblocks
  TicksEnd
\* Parents, children and clients end.
CHECK_DEADLOCK FALSE
