SPECIFICATION Spec
CONSTANTS
  Sources = {1, 2, 3}
  InScope = {1, 2}
  Headers = {9}
  MaxEntries = 3
INVARIANT ShortfallIsRecorded
\* The run ends.
CHECK_DEADLOCK FALSE
