SPECIFICATION KillSpec
CONSTANTS
  Inv = {i1}
  Pids = {p1}
  Codes = {"ok"}
  Streams = {"out", "err"}
  OutLen = 2
  Cap = 1
  Nobody = Nobody
PROPERTIES
  TimedCallReturns
  ToolNeverStuck
