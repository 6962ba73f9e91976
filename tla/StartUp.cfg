\* Up to three of 26 phrases; two device instances, three keys and a process that may
\* stop anywhere; a run limit of two seconds in three; two devices and two lists of
\* one size.  The device stops at the limit.
CONSTANTS
  Phrases <- SmallPhrases
  TestLimits = {"", "0", "5"}
  Number <- SmallNumbers
  On = {"on", "1"}
  Off = {"off", "0"}
  WssUris = {"wss://h/", "wss://g/"}
  BadNames = {"toolong"}
  MaxPhrases = 3
  Instances = {1, 2}
  Keys = {k1, k2, k3}
  NoFile = NoFile
  Empty = Empty
  kMaxAttempts = 3
  HostZones <- SmallZones
  HostTimes = {500}
  SyncTimes <- SmallSyncTimes
  Offsets <- SmallOffsets
  RunLimit = 2
  MaxTime = 3
  d1 = d1  d2 = d2
  l1 = l1  l2 = l2
  Devices = {d1, d2}
  Lists = {l1, l2}
  Broken = Broken  Absent = Absent  Down = Down
  Revokes <- SmallRevokes
  Size <- SmallSizes
  CheckInterval = 2
  MaxSecond = 3
  PipeSize = 3
  BufferSize = 2
  DupFails = FALSE
  MaxLines = 6
SPECIFICATION AroundSpec
INVARIANTS
  OptionsAreWhatWasGiven
  PasswordFitsTheKey
  UtcFollowsSync
  ConsoleKeepsOrder
  LogIsComplete
PROPERTIES
  KeyIsNeverReplaced
  RequestHasItsKey
  RevokedDevicesAreDropped
  StopReturns
CHECK_DEADLOCK FALSE
