CONSTANTS
  Producers = {p1, p2}
  Cap = 2
  MaxWrites = 2
  MaxFaults = 1
SPECIFICATION FairGnbSpec
INVARIANTS
  FooterTellsAll
  OnlyTailMissing
PROPERTIES
  ShutdownReturns
CHECK_DEADLOCK FALSE
