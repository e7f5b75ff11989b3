\* Any caller and any proposal; the breaker trips at two rollbacks.
CONSTANTS
  TaskClasses = {"c"}
  RecordWindow = 1
  OutcomeWindow = 2
  RefreshEvery = 1
  DriftSamples = 1
  MinBestSamples = 1
  FailureClusterMin = 2
  RollbackDrop = 5
  BreakerRollbacks = 2
  BreakerWindow = 1
  ConservativeTasks = 2
  HasHarness = TRUE
  CallerWaitsFor = {}
  RootCauses = {"retrieval_failure", "tool_selection_error"}
  Drafts <- AnyDrafts
  MaxTasks = 4
  MaxDeployments = 2
SPECIFICATION Spec
INVARIANTS TypeOK DropsRolledBack RollbacksCounted OnlyMeasuredRollBack
PROPERTIES BreakerHolds
