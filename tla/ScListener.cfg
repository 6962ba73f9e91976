\* Two peers, two URIs, a queue of two frames.
CONSTANTS
  w1 = w1  w2 = w2  u1 = u1  u2 = u2
  Sockets = {w1, w2}
  Uris = {u1, u2}
  None = None
  kMaxTxQueueFrames = 2
  MayStall = FALSE
  MaxClients = 2
  MaxFrames = 3
  MaxReceived = 1
SPECIFICATION Spec
INVARIANTS
  EveryPeerIsReportedOnce
  StringsNameTheirPeers
  NothingIsLostBeforeANormalClose
  NoLostWakeup
  ListensWhereWanted
SYMMETRY ListenerSymmetry
