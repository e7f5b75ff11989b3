\* Four tasks of two classes through small buffers, a template of either class that comes and
\* goes and makes plan() raise while it is served; no sink that could fail.
CONSTANTS
  TaskClasses = {"c", "d"}
  TaskBudgets <- MCTaskBudgets
  StakesMultiplier <- MCStakesMultiplier
  HardCeiling = 32000
  Split <- MCSplit
  NoveltyThreshold = 3000
  TemplateActions = {"act"}
  MinStepTokens = 256
  RecordWindow = 3
  OutcomeWindow = 2
  RefreshEvery = 2
  DriftSamples = 2
  MinBestSamples = 2
  Components = {"router", "verifier", "observer", "memory"}
  AutoRefresh = TRUE
  MaxReplans = 0
  PassThreshold = 60
  MaxEpisodes = 2
  BuiltWith <- Unbuilt
  Requests <- MediumAndHigh
  ReportedTokens <- NoTokens
  Scores = {30, 90}
  MaxTasks = 4
  MaxProcedures = 1
  OfferedTemplates <- Raising
  MaxUses = 1
SPECIFICATION Spec
INVARIANTS TypeOK SkipEarned SelfModelMeasured SelfModelFresh LedgersAgree
\* The system rests when no caller submits a task.
CHECK_DEADLOCK FALSE
