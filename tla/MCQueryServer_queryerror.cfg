SPECIFICATION FairSpec
CONSTANTS
  good = good
  bad = bad
  log = log
  LogText = log
  Lines <- MCGoodBad
  ErrLines <- MCBad
  HttpRequests <- MCSingles
  MaxRequests = 1
  StartLines = 0
  MaxNoise = 0
  PipeCap = 1
  MayExit = FALSE
PROPERTY QueryErrorReturnsToQuery
CHECK_DEADLOCK FALSE
