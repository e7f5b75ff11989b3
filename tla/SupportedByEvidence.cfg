\* What counts as evidence for the claims of an output.
CONSTANTS
  TaskClasses = {"general", "medical", "creative_writing", "real_time_ops", "research", "analysis", "chat"}
  TaskBudgets <- MCTaskBudgets
  StakesMultiplier <- MCStakesMultiplier
  HardCeiling = 20000
  Split <- MCSplit
  NoveltyThreshold = 3000
  Requests <- MCRequests
  Beliefs <- MCBeliefs
  Novelties <- MCNovelties
  Suites <- MCSuites
  CostPercent = 20
  OtherTraces <- MCOtherTraces
  Keys = {"file", "lock"}
  Texts = {"", "v"}
  ActionNames = {"fetch", "edit", "free", "unheard_of"}
  Schemas <- MCSchemas
  Starts <- States
  MaxActions = 3
  CandidateSets <- MCCandidateSets
  Claims <- MCClaims
  Words = {"a", "b", "c", "d"}
  Confidences = {0, 40, 100}
  Severities = {0, 25, 100}
  PassThreshold = 60
  Samples <- MCSamples
  Observers = {"i1", "i2"}
SPECIFICATION Spec
INVARIANT SupportNeedsEvidence
