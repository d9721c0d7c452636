SPECIFICATION LoneSpec
CONSTANTS
  Inv = {i1}
  Pids = {p1}
  Codes = {"ok"}
  Streams = {"out", "err"}
  OutLen = 1
  Cap = 1
  Nobody = Nobody
PROPERTY TimeoutDoesNotHang
