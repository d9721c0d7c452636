SPECIFICATION Spec
CONSTANTS
  Places = {"in", "out"}
  TableScope = {"in"}
  Columns = {1, 2}
  Checks = {1, 2}
  Rules = {"r1", "r2"}
  CertOf <- TwoChecks
  Current = "current"
  Other = "other"
  MaxFindings = 2
  MaxLabels = 3
INVARIANT LabelsAreOfTheBundle
\* The label file is full.
CHECK_DEADLOCK FALSE
