\* Three addresses, a table of two, limits of 1 and 2 a second, for two seconds; two
\* connections and three requests for a hub of one device.
CONSTANTS
  a1 = a1  a2 = a2  a3 = a3
  Addresses = {a1, a2, a3}
  kMaxTrackedAddresses = 2
  PerAddress = 1
  Total = 2
  Second = 3
  MaxTime = 7
  Devices = {1, 2}
  Headers <- SmallHeaders
  MaxHubConnections = 1
  MaxTxFrames = 1
  MaxPeers = 2
  MaxRequests = 3
SPECIFICATION LimitsSpec
INVARIANTS
  AddressWithinLimit
  ListenerWithinLimit
  FewAddressesNeverHitTotal
  AuditNamesADevice
  CountMatchesTheHub
SYMMETRY AddressSymmetry
