\* Every plan of up to three steps with up to two dependencies each.
CONSTANTS
  Action = "act"
  MaxSteps = 3
  MaxDeps = 2
SPECIFICATION Spec
INVARIANTS TypeOK ReturnsOrder RaisesOnlyWithCause
PROPERTIES Terminates
\* A call that returned or raised is over.
CHECK_DEADLOCK FALSE
