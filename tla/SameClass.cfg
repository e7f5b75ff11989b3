\* Reports on two task classes, of which two good ones of different instances are enough.
CONSTANTS
  Instances = {"i1", "i2", "i3"}
  TaskClasses = {"c", "d"}
  ReportedRates = {70, 85}
  Threshold = 70
  MinInstances = 2
  Adopters = {"i1"}
  MaxProcedures = 2
  MaxReports = 4
  MaxOverrides = 1
SPECIFICATION Spec
INVARIANTS ValidatedOnSameClass
