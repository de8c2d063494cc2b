CONSTANTS
  Modes = {"profile", "gcc"}
  QMax = 2
  MaxNow = 5
SPECIFICATION SendSpec
INVARIANTS
  DrainComplete
  EverySlotOnce
PROPERTIES
  ClosedIsFinal
  ShutdownEnds
CHECK_DEADLOCK FALSE
