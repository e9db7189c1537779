\* Every way of starting the programs: one notified program or both, writers
\* before or after a registration, a foreign SIGUSR1, a reader in between.
SPECIFICATION FairSpec
CONSTANTS
  w1 = w1  w2 = w2  r1 = r1  t1 = t1  t2 = t2  t3 = t3
  Writers <- TwoWriters
  Readers <- OneReader
  Threads <- ThreeThreads
  MqSize = 2
  MaxStrays = 1
INVARIANTS
  TypeOK
  OneRegistration
  NoLostWakeup
PROPERTIES
  AllRead
\* The notified programs wait for messages for ever.
CHECK_DEADLOCK FALSE
