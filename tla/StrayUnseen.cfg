SPECIFICATION Spec
CONSTANT MaxTouches = 2
INVARIANTS StraysAreRefused
CHECK_DEADLOCK FALSE
