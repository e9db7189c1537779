\* The reader may be started at any time.
SPECIFICATION FairSpec
CONSTANTS
  Input <- ThreeChunks
  MaxErrors = 0
  WriterFirst = FALSE
  Leftovers <- Fresh
INVARIANTS
  ReaderGotSegment
CHECK_DEADLOCK FALSE
