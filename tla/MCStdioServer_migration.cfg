SPECIFICATION ServerSpec
CONSTANTS
  p1 = p1
  p2 = p2
  Pid <- MCPid
  NoPid = NoPid
  NoLock = NoLock
  SerialStarts = TRUE
  PidReuse = TRUE
INVARIANTS MarkedHasRows
