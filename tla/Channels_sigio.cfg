\* Two lines typed while alt_io_signal sleeps, one that ends where a buffer
\* begins.
SPECIFICATION Spec
CONSTANTS
  NumMsgs = 2
  MaxKills = 1
  MaxChunks = 2
  MaxOpens = 2
  Servers = {s1, s2}
  Clients = {c1, c2}
  Lockers = {p1, p2}
  Bytes = {0, 1}
  Users = {u1, u2, u3}
INVARIANT
  ReadsAll
CHECK_DEADLOCK FALSE
