SPECIFICATION Spec
CONSTANTS
  p1 = p1
  p2 = p2
  p3 = p3
  Pid <- MCPid
  NoPid = NoPid
  NoLock = NoLock
  SerialStarts = FALSE
  PidReuse = FALSE
INVARIANTS AtMostOneWriter
