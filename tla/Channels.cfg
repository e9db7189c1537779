\* Two clients or a child, one process killed; a FIFO whose writer comes back;
\* two servers that fight over one message queue; two runs that lock; three
\* users of a name.
SPECIFICATION Spec
CONSTANTS
  NumMsgs = 2
  MaxKills = 1
  MaxChunks = 2
  MaxOpens = 2
  Servers = {s1, s2}
  Clients = {c1, c2}
  Lockers = {p1, p2}
  Bytes = {0, 1}
  Users = {u1, u2, u3}
INVARIANTS
  TypesOK
  PipeDelivers
  NothingForgotten
  OwnQueue
  BeliefsAgree
  SeenWhole
PROPERTIES
  GetThrough
  LevelTriggered
  SentIsReceived
\* Clients and children end, and servers wait for ever.
CHECK_DEADLOCK FALSE
