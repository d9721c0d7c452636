SPECIFICATION Spec
CONSTANTS
  Runs = {r1, r2}
  MaxClock = 1
  Nowhere = Nowhere
INVARIANTS
  TypeOK
  FinalIsWhole
  LoadIsConsistent
PROPERTIES
  FinalIsFrozen
  ActsAsLedger
\* Every process ends.
CHECK_DEADLOCK FALSE
