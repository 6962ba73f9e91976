\* Liveness under the fairness of the main loop.
CONSTANTS
  k1 = k1  k2 = k2
  a = a  b = b
  Keys = {k1, k2}
  CAs = {a, b}
  Uploads <- RenewalUploads
  MayFail = {"temp"}
  NoKey = NoKey  NoFile = NoFile  Empty = Empty
  Garbage = Garbage  NotStaged = NotStaged  Closed = Closed
SPECIFICATION FairHubSpec
PROPERTY
  StaysReachable
