SPECIFICATION GetSpec
CONSTANTS
  r1 = r1
  r2 = r2
  v1 = v1
  Runs = {r1}
  Versions = {v1}
  Partial = partial
  Corrupt = corrupt
  Torn = torn
  NoFile = noFile
  NoVersion = noVersion
  Artifacts <- ServedWithSidecar
  MaxPublish = 1
  MaxBegin = 2
  MaxCrash = 0
  Schemes = {"http", "https"}
  ResponseHeader = 1
  IdleRead = 2
  maxRedirects = 3
  MaxPieces = 2
CHECK_DEADLOCK FALSE
INVARIANTS
  GetTypeOK
  IdleReadWaited
  HttpsIsKept
PROPERTIES
  GetReturns
  CancelledGetReturns
  ImplementsFairFetch
