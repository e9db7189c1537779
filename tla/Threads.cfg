\* Three additions per thread; two threads making two pieces of work each,
\* or two threads of the timer at a time.
SPECIFICATION Spec
CONSTANTS
  Count = 3
  Producers = {p1, p2}
  Rounds = 2
  NumTurns = 2
INVARIANTS
  TypesOK
  ResultExact
  NoWorkSleptOn
  WorkConserved
  EndsClean
PROPERTIES
  ImplementsSlotLock
  AllConsumed
\* The programs end.
CHECK_DEADLOCK FALSE
