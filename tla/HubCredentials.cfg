\* Commissioned or not; crashes, temp files and the request's rename may fail.
CONSTANTS
  k1 = k1  k2 = k2
  a = a  b = b
  Keys = {k1, k2, k3}
  CAs = {a, b}
  Uploads <- MCUploads
  MayFail = {"temp", "csr"}
  NoKey = NoKey  NoFile = NoFile  Empty = Empty
  Garbage = Garbage  NotStaged = NotStaged  Closed = Closed
SPECIFICATION HubSpec
INVARIANTS
  CertificateHasKey
  RunsWithMatchingPair
  ActivatedFilesAreUsable
  ListenerServesActivated
  BundleTrustsBothSlots
PROPERTY
  ImplementsIdentity
