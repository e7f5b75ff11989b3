\* Four episodes through a store of three of which a forgetting cycle keeps two; a fresh
\* failure is worth more than a success of six days ago.
CONSTANTS
  TaskClasses = {"c"}
  Strategies = {"s"}
  MaxEpisodes = 3
  EpisodicMax = 2
  StaleAge = 5
  IdleRetire = 1
  MinCluster = 2
  DaySteps = {6}
  MaxDays = 6
  Recorded <- MCRecorded
  MaxAdded = 4
  MaxRemarks = 1
  MaxProcedures = 1
  MaxUses = 1
SPECIFICATION Spec
INVARIANTS TypeOK IndexAgrees EpisodesTrue LessonsGrounded
PROPERTIES KeepsValuable
