\* A careful caller that checks for rollbacks; two rollbacks within one task trip the breaker.
CONSTANTS
  TaskClasses = {"c"}
  RecordWindow = 1
  OutcomeWindow = 3
  RefreshEvery = 1
  DriftSamples = 1
  MinBestSamples = 1
  FailureClusterMin = 1
  RollbackDrop = 5
  BreakerRollbacks = 2
  BreakerWindow = 1
  ConservativeTasks = 4
  HasHarness = TRUE
  CallerWaitsFor = {"review", "evaluation"}
  RootCauses = {"retrieval_failure", "tool_selection_error"}
  Drafts <- NoDrafts
  MaxTasks = 8
  MaxDeployments = 2
SPECIFICATION Spec
INVARIANTS ConservativeAsDocumented
