CONSTANTS
  Stream <- FourAus
  Modulus = 16
  FirstSeq = {0, 10}
  MaxDropout = 5
  MaxMisorder = 2
  kBuffers = 3
  Cap = 4
  Window = 5
  Ahead = 9
  MaxStrays = 2
SPECIFICATION DepackSpec
INVARIANTS
  WholeNals
  CompleteIsWhole
  EveryPacketAccounted
  NothingVanishes
CHECK_DEADLOCK FALSE
