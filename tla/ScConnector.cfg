\* A primary and a failover hub, two dials of each.
CONSTANTS
  h1 = h1  h2 = h2
  Hubs = {h1, h2}
  kMaxTxQueueFrames = 1
  MaxAttempts <- MCMaxAttempts
  MaxFrames = 2
SPECIFICATION DialSpec
INVARIANTS
  WsiIsLive
  EventsAreOfThisAttempt
PROPERTY
  DialsAreAnswered
