\* A reload while a dial is under way.
CONSTANTS
  h1 = h1  h2 = h2
  Hubs = {h1}
  kMaxTxQueueFrames = 1
  MaxAttempts <- MCMaxAttempts
  MaxFrames = 1
SPECIFICATION FairSpec
PROPERTY
  RequestedCloseCompletes
