SPECIFICATION Spec
CONSTANTS
  r1 = r1
  r2 = r2
  c1 = c1
  c2 = c2
  k1 = k1
  k2 = k2
  Req <- MCReq
  Reader <- OneReader
  Kind <- TwoKinds
  Local = {"tool"}
  ReaderOf <- OneProcess
  KindOf <- PerKind
  NoResponse = NoResponse
  NoJob = NoJob
  MaxEdits = 0
  MaxFaults = 1
CHECK_DEADLOCK FALSE
PROPERTIES QueueDrains ChainMoves
