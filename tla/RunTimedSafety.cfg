SPECIFICATION Spec
CONSTANTS
  Inv = {i1, i2}
  Pids = {p1, p2}
  Codes = {"ok", "err"}
  Streams = {"out"}
  OutLen = 1
  Cap = 1
  Nobody = Nobody
INVARIANTS
  TypeOK
  KillHitsOwnChild
  KilledReports124
  ResultIsOwn
PROPERTIES
  TimedOutSettles
  Implements
