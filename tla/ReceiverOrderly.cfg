CONSTANTS
  p1 = p1
  p2 = p2
  p3 = p3
  p4 = p4
  f1 = f1
  f2 = f2
  alice = alice
  bob = bob
  NoSession = NoSession
  Requests = {p1, p2, p3, p4}
  FileIds = {f1, f2}
  Peers = {alice, bob}
  FilesOf <- MCFilesOf
  SenderOf <- MCSenderOf
  Overtakers = {}
  Vanishers = {p1, p2, p3, p4}
SPECIFICATION Spec
INVARIANTS SavedOnce OnlyApprovedFiles OneSession NoStrayUpload
PROPERTIES SessionEndsWithLastFile ImplementsSingleSession
