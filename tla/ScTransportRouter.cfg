\* Messages of up to three octets against a ceiling and a buffer of two, queues of two,
\* connection strings that fit and that do not, a tool and a device, and a history that
\* counts beyond what PassedOverOnce allows.
CONSTANTS
  x = x  y = y
  Octets = {x, y}
  Fragments <- SmallFragments
  kMaxIngressBytes = 2
  MaxMessage = 3
  MaxQueue = 2
  BoundPort = BoundPort
  Empty = Empty
  OtherPorts = {tool}
  IpEnabled = TRUE
  NameLengths = {6, 7}
  MaxLength = 2
  maxConnectionStringLength = 6
  MaxWaiting = 2
  MaxPassed = 3
  Frames <- SmallFrames
  Tools = {t1, t2}
  NoTool = NoTool
SPECIFICATION HalvesSpec
INVARIANTS
  PassedOverOnce
  OnlyAnswersAreCopied
PROPERTIES
  ImplementsChannel
  TakenIsHandedOver
