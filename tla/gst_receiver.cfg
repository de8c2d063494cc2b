CONSTANTS
  Ours = Ours
  Foreign = Foreign
  NoSource = NoSource
  Frames = {0, 1, 2}
  Ring = 2
  Attempts = 2
  Packets = 2
  Reorder = 1
  MaxPackets = 4
  MaxStrays = 1
SPECIFICATION GstSpec
INVARIANTS
  ReportsAreWhole
  UnknownHasReason
  AckMeansReady
PROPERTIES
  ImplementsMap
CHECK_DEADLOCK FALSE
