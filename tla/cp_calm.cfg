CONSTANTS
  s1 = s1
  s2 = s2
  r1 = r1
  r2 = r2
  camA = camA
  camB = camB
  edge = edge
  edge2 = edge2
  None = None
  Senders = {s1, s2}
  Receivers = {r1, r2}
  Streams = {camA, camB}
  Ids = {edge, edge2}
  StreamOf <- TwoCameras
  IdOf <- TwoEdges
  Target <- ToOneEdge
  MaxDeaths = 2
  Slow = FALSE
SPECIFICATION FairSpec
PROPERTIES
  HandshakeCompletes
CHECK_DEADLOCK FALSE
