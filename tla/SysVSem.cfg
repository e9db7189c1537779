\* Three processes against two slots: two inside and one blocked, any of them
\* killed.  No symmetry: liveness.
SPECIFICATION FairSpec
CONSTANTS
  p1 = p1  p2 = p2  p3 = p3
  Procs <- ThreeProcs
  Slots = 2
  MaxTries = 2
INVARIANTS
  TypeOK
  UnitsConserved
PROPERTIES
  ImplementsLock
  BlockedGetsIn
\* Every process ends: done, fatal or killed.
CHECK_DEADLOCK FALSE
