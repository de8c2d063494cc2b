CONSTANTS
  Roles = {"sender", "receiver"}
  MaxMsgs = 4
  MaxTicks = 3
SPECIFICATION SessionSpec
INVARIANTS
  NoWriterLeft
PROPERTIES
  CallsReturn
  SessionEnds
CHECK_DEADLOCK FALSE
