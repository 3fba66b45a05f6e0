SPECIFICATION FairSpec
CONSTANTS
  None = None
  Bad = Bad
  Responses <- MCResponses
  HttpsTimeout = 1
  Grace = 1
  MaxThrows = 2
  Upgrades <- MCUpgrades
  Streams <- MCStreams
  UpgradeTimeout = 2
  Keepalive = 3
  Requests <- MCRequests
  MaxHeader = 3
  MaxPost = 3
  ResponseSize = 3
  ServerBufSize = 2
  ServerTimeout = 1
  Thread = {io, app}
  Io = io
  Host = {h1}
  Hour = 2
  MaxCalls = 3
  MaxTime = 4
  Accepted = {a1, a2}
  Client = {c1}
  Port = {8443}
  Key = {"old.pem", "new.pem"}
  Fd = {3, 4, 5}
  MaxServers = 2
  MaxRedirects = 3
  MaxUrls = 2
  MaxStarts = 2
  EngineConn = {"tls", "plain"}
  EnginePlaintext = {"plain"}
  EngineFd = {3, 4}
INVARIANTS
  HttpsAnswersOnce
  FramesInOrder
  NothingWaits
  ServerAnswersOnce
  CachedIsGood
  ServedAreKept
PROPERTIES
  HttpsCompletes
  UpgradeDecided
  ServerEnds
  WrittenIsSent
  MarkedLeaves
CHECK_DEADLOCK FALSE
