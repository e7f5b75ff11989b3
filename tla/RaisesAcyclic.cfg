\* The claim that only a plan without a dependency order is raised for, over the same plans.
CONSTANTS
  Action = "act"
  MaxSteps = 3
  MaxDeps = 2
SPECIFICATION Spec
INVARIANTS RaisesOnlyWithoutOrder
\* A call that returned or raised is over.
CHECK_DEADLOCK FALSE
