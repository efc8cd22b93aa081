SPECIFICATION Spec
CONSTANTS
  good = good
  bad = bad
  log = log
  LogText = log
  Lines <- MCGoodLines
  ErrLines <- MCNone
  HttpRequests <- MCSingles
  MaxRequests = 1
  StartLines = 1
  MaxNoise = 1
  PipeCap = 1
  MayExit = FALSE
INVARIANT WritesTheQueryLine
CHECK_DEADLOCK FALSE
