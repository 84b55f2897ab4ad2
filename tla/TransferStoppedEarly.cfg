CONSTANTS
  p1 = p1
  p2 = p2
  p3 = p3
  f1 = f1
  f2 = f2
  alice = alice
  NoSession = NoSession
  NoFile = NoFile
  Requests = {p1, p2, p3}
  FileIds = {f1, f2}
  Peers = {alice}
  FilesOf <- AllFiles
  SenderOf <- OneSender
  Aborters = {}
  EarlyAborters = {p1, p2, p3}
  Breakers = {}
  Crashers = {}
  Restarts = FALSE
SPECIFICATION FairSpec
PROPERTY StopFreesReceiver
