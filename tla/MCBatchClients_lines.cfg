SPECIFICATION ClientSpec
CONSTANTS
  s1 = s1  s2 = s2  s3 = s3  s4 = s4
  Sources <- MCSources
  MaxWorkers = 2
  Clients = {"dump"}
  Steps <- MCSteps
  LeftOut <- MCLeftOut
  Scenarios <- MCScenarios
  Formats = {"lines"}
INVARIANT AnswersJudged
CHECK_DEADLOCK FALSE
