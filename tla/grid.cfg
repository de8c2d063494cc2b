CONSTANTS
  Interval = 2
  Frames = 2
  Idr = {0}
  Phase = 1
  Rungs = {lo, hi}
  Starts <- EarlyOrLate
  MaxTime = 9
SPECIFICATION FairSpec
INVARIANTS
  ProducersStopFirst
  EverySlotHasItsRow
PROPERTIES
  ShutdownEnds
CHECK_DEADLOCK FALSE
