SPECIFICATION FairSpec
CONSTANTS
  c1 = c1
  h1 = h1
  h2 = h2
  h3 = h3
  unrecognized = unrecognized
  denied = denied
  NoHost = NoHost
  NoCid = NoCid
  Hosts <- ThreeHosts
  Scenarios <- Faults
  Sessions = 1
  DeniedHosts <- OneDeniedHost
  MaxFlushes = 1
  Cids <- TwoCids
  Unrecognized = unrecognized
  CategoryOf <- ThreeCategoryOf
  DeniedCids <- OneDeniedCid
  KnownRows <- OneKnown
  Recognizers <- TwoRecognizers
  MaxReloads = 1
  MaxEdits = 1
  Connections <- OneConnection
  IpOf <- OneIpOf
  Timeout = 2
  MaxErrors = 1
  MaxRequests = 2
CHECK_DEADLOCK FALSE
INVARIANTS TypeOK TablesComplete MemoryBacked InsertsSucceed EditsReachMemory
PROPERTIES ForwardedWasAllowed AnalysisEnds ReloadEnds ConnectionEnds
