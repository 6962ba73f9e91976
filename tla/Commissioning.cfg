\* Imports between runs of the hub, cut off or not; the hub's own files do not fail.
CONSTANTS
  k1 = k1  k2 = k2
  a = a  b = b
  Keys = {k1, k2}
  CAs = {a, b}
  Uploads <- MCUploads
  Responses <- MCResponses
  MayFail = {}
  Layouts <- MCLayouts
  IssuerNames <- MCIssuerNames
  StrayNames = {"ca.pem"}
  Rank <- MCRank
  IllegalNames = {"", ".", ".."}
  MAX_ZIP_BYTES = 100
  MAX_ENTRIES = 20
  MAX_TOTAL_UNCOMPRESSED = 20
  Noise = Noise
  NoKey = NoKey  NoFile = NoFile  Empty = Empty  NoResponse = NoResponse
  Garbage = Garbage  NotStaged = NotStaged  Closed = Closed
SPECIFICATION CommissionSpec
INVARIANTS
  ImportReplacesTrust
  ResponseIsTakenAsSent
