SPECIFICATION Spec
CONSTANTS
  good = good
  bad = bad
  log = log
  LogText = log
  Lines <- MCGoodBad
  ErrLines <- MCBad
  HttpRequests <- MCMixed
  MaxRequests = 1
  StartLines = 1
  MaxNoise = 3
  PipeCap = 1
  MayExit = TRUE
INVARIANTS TypeOK OneAtATime TimerRetired StrandedBound QuietBetweenQueries AnswersOwnLines ErrorMeansGone
PROPERTY ServesSerially
CHECK_DEADLOCK FALSE
