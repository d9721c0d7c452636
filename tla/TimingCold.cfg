SPECIFICATION Spec
CONSTANTS
  Repeats = 2
  Warmup = 1
  KeySets = {ka, kb}
  Nothing = Nothing
INVARIANT ColdIsCold
\* The measurement ends.
CHECK_DEADLOCK FALSE
