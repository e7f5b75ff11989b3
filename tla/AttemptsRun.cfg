\* Two tasks of any stakes under fairness: every pattern of failing steps, rejected answers
\* and exhausted budgets, plans that raise or have no step, a sink that may fail.
CONSTANTS
  TaskClasses = {"c"}
  TaskBudgets <- SmallTaskBudgets
  StakesMultiplier <- MCStakesMultiplier
  HardCeiling = 32000
  Split <- MCSplit
  NoveltyThreshold = 3000
  TemplateActions = {"act"}
  MinStepTokens = 256
  RecordWindow = 2
  OutcomeWindow = 2
  RefreshEvery = 1
  DriftSamples = 2
  MinBestSamples = 1
  Components = {"router", "verifier", "observer", "sink", "memory"}
  AutoRefresh = TRUE
  MaxReplans = 2
  PassThreshold = 60
  MaxEpisodes = 2
  BuiltWith <- AnyBuild
  Requests <- OneOfEachStakes
  ReportedTokens <- MoreTokens
  Scores = {30, 90}
  MaxTasks = 2
  MaxProcedures = 0
  OfferedTemplates = {}
  MaxUses = 0
SPECIFICATION FairSpec
INVARIANTS AttemptBound PlansExecutable InputsReady CostBounded NoEarlyGiveUp HighStakesScored LedgersAgree
PROPERTIES ImplementsRetryProtocol RunEnds
\* The system rests when no caller submits a task.
CHECK_DEADLOCK FALSE
