CONSTANTS
  s1 = s1
  s2 = s2
  r1 = r1
  r2 = r2
  camA = camA
  camB = camB
  edge = edge
  edge2 = edge2
  None = None
  Senders = {s1, s2}
  Receivers = {r1, r2}
  Streams = {camA}
  Ids = {edge}
  StreamOf <- OneCamera
  IdOf <- OneEdge
  Target <- ToOneEdge
  MaxDeaths = 2
  Slow = TRUE
SPECIFICATION FairSpec
INVARIANTS
  StreamingIsServed
  PendingIsLive
PROPERTIES
  HandshakeDecides
  ListedUntilGone
CHECK_DEADLOCK FALSE
