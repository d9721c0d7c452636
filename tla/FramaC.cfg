SPECIFICATION FairSpec
CONSTANTS
  TUs = 3
  Defined <- ThreeUnits
  MaxEntries = 2
  Jobs = 2
  N = 4
  Budgeted = TRUE
  Outcomes <- EvaOutcomes
  NoOutcome = NoOutcome
INVARIANTS
  TypeOK
  NothingOutlivesThePool
  NotPartialMeansAll
  ShallowScan
PROPERTIES
  PoolEnds
  ActsAsLoop
\* The call ends; PoolEnds says that it never stops before.
CHECK_DEADLOCK FALSE
