\* Any file operation may fail, the bundle too, and the process may stop anywhere.
CONSTANTS
  k1 = k1  k2 = k2
  a = a  b = b
  Keys = {k1, k2}
  CAs = {a, b}
  Uploads <- FailureUploads
  MayFail = {"temp", "rename", "csr", "bundle"}
  NoKey = NoKey  NoFile = NoFile  Empty = Empty
  Garbage = Garbage  NotStaged = NotStaged  Closed = Closed
SPECIFICATION HubSpec
INVARIANTS
  ListenerIsCoherent
  OnlyCheckedFilesOnDisk
PROPERTY
  FailedCommitCanBeRetried
