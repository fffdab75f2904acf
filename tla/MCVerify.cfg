SPECIFICATION FairSpec
CONSTANTS
  Content <- MCContent
  Complete <- MCComplete
  Projects <- MCProjects
  Near <- MCNear
  Runs <- SuiteRuns
  Scripts <- SuiteScripts
  Plan <- MCPlan
  Critical <- MCCritical
  Limit <- SuiteLimit
  Present <- MCPresent
  Check <- MCCheck
  MaxEdits = 1
INVARIANTS
  DefectReported
  FailureHasCause
  ReadyMeansSound
  NoOverrun
PROPERTIES
  GateSpec
  RunEnds
