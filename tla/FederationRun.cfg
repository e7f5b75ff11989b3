\* Three instances of which two are enough; two classes; a rate at the threshold and one above.
CONSTANTS
  Instances = {i1, i2, i3}
  TaskClasses = {c, d}
  ReportedRates = {70, 85}
  Threshold = 70
  MinInstances = 2
  Adopters = {i1}
  MaxProcedures = 2
  MaxReports = 3
  MaxOverrides = 1
SPECIFICATION Spec
SYMMETRY Exchangeable
INVARIANTS TypeOK
PROPERTIES ImplementsRule
