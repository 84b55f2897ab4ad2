CONSTANTS
  p1 = p1
  p2 = p2
  p3 = p3
  f1 = f1
  f2 = f2
  alice = alice
  NoSession = NoSession
  NoFile = NoFile
  Requests = {p1, p2, p3}
  FileIds = {f1, f2}
  Peers = {alice}
  FilesOf <- MCFilesOf
  SenderOf <- OneSender
  Aborters = {p1}
  EarlyAborters = {p1}
  Breakers = {p1}
  Crashers = {p1, p2}
  Restarts = TRUE
SPECIFICATION FairSpec
INVARIANTS TypeOK DoneMeansSaved
PROPERTIES TransferEnds ReceiverFreed ImplementsReceiver
