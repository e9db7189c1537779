\* The documented order: the writer first.  A killed earlier run may have
\* left the semaphores in any state.
SPECIFICATION FairSpec
CONSTANTS
  Input <- ThreeChunks
  MaxErrors = 2
  WriterFirst = TRUE
  Leftovers <- AnyLeftover
INVARIANTS
  TypeOK
  OneToken
PROPERTIES
  ImplementsStream
  AllDelivered
\* Both programs end.
CHECK_DEADLOCK FALSE
