SPECIFICATION FairClientSpec
CONSTANTS
  s1 = s1  s2 = s2  s3 = s3  s4 = s4
  Sources <- MCSources
  MaxWorkers = 2
  Clients = {"compile", "dump"}
  Steps <- MCSteps
  LeftOut <- MCLeftOut
  Scenarios <- MCScenarios
  Formats = {"lines", "fraction"}
INVARIANTS ReportedOnce NoOrphans RunSummed VerdictsTrue
PROPERTY RunEnds
CHECK_DEADLOCK FALSE
