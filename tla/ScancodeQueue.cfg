\* A ring of three slots (two usable) and four bytes, one of them the mouse's,
\* fill the ring, lap it and meet every window of the main loop.
SPECIFICATION FairSpec
CONSTANTS
  QSize = 3
  DrainMax = 2
  NBytes = 4
  AuxBytes <- MCAuxBytes
INVARIANTS
  NoGhostScancode
  FifoUnlessRaced
  AtMostTwice
PROPERTIES
  FlushedNeverDispatched
  EveryByteRead
  QueueIsEmptied
