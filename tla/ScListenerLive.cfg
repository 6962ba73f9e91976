\* Liveness: peers that may stop reading, one socket reused, two URIs.
CONSTANTS
  w1 = w1  w2 = w2  u1 = u1  u2 = u2
  Sockets = {w1}
  Uris = {u1, u2}
  None = None
  kMaxTxQueueFrames = 1
  MayStall = TRUE
  MaxClients = 1
  MaxFrames = 2
  MaxReceived = 1
SPECIFICATION FairSpec
PROPERTIES
  RequestedCloseCompletes
  ListenerComesBack
