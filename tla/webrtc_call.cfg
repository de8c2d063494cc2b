CONSTANTS
  s1 = s1
  s2 = s2
  s3 = s3
  r1 = r1
  r2 = r2
  camA = camA
  camB = camB
  edge = edge
  None = None
  Senders = {s1, s2, s3}
  Receivers = {r1, r2}
  Streams = {camA, camB}
  Ids = {edge}
  StreamOf <- TwoCameras
  IdOf <- OneEdge
  Target <- ToOneEdge
  MaxDeaths = 1
SPECIFICATION WebSpec
INVARIANTS
  OneCallerPerReceiver
PROPERTIES
  SuccessorStays
  AcceptedIsAnswered
  FirstPairsConnect
CHECK_DEADLOCK FALSE
