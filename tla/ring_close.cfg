CONSTANTS
  Producers = {p1, p2}
  Cap = 2
  MaxWrites = 2
  Grace = 1
  MaxFaults = 1
SPECIFICATION FairRingSpec
INVARIANTS
  OneFlusher
  EveryRowCounted
  CleanMeansComplete
  CleanMeansNoGap
PROPERTIES
  CloseReturns
  PublishedReachesDisk
CHECK_DEADLOCK FALSE
