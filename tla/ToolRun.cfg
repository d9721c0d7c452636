SPECIFICATION Spec
CONSTANTS
  Procs = {p1, p2, p3, p4}
  MaxRuns = 2
  Cap = 3
INVARIANTS
  TypeOK
  Confined
  FiguresAreOwn
  CapKillMeansOom
\* The process makes its runs and ends.
CHECK_DEADLOCK FALSE
SYMMETRY Interchangeable
