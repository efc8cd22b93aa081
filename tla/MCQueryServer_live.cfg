SPECIFICATION FairSpec
CONSTANTS
  good = good
  bad = bad
  log = log
  LogText = log
  Lines <- MCGoodBad
  ErrLines <- MCBad
  HttpRequests <- MCPairs
  MaxRequests = 1
  StartLines = 0
  MaxNoise = 2
  PipeCap = 1
  MayExit = TRUE
PROPERTIES DeathReleasesAll EveryRequestReturns
CHECK_DEADLOCK FALSE
