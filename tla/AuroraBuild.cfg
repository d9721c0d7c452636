SPECIFICATION Spec
CONSTANTS
  Procs = {p1, p2}
  Pin = Pin
  Other = Other
  Nothing = Nothing
  Dirs = 4
  Defined = {1, 2, 4}
  MaxTime = 6
INVARIANTS
  TypeOK
  ScanUsesPinned
  ReadyStaysReady
