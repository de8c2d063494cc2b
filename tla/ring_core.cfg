CONSTANTS
  Producers = {p1, p2}
  Cap = 2
  MaxWrites = 3
SPECIFICATION CoreSpec
SYMMETRY Threads
INVARIANTS
  NoTornAccess
PROPERTIES
  ImplementsLog
CHECK_DEADLOCK FALSE
