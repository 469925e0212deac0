SPECIFICATION Spec
CONSTANTS
  r1 = r1
  r2 = r2
  c1 = c1
  c2 = c2
  k1 = k1
  k2 = k2
  Req <- MCReq
  Reader <- MCReader
  Kind <- OneKind
  Local = {"tool"}
  ReaderOf <- PerProcess
  KindOf <- SameKind
  NoResponse = NoResponse
  NoJob = NoJob
  MaxEdits = 1
  MaxFaults = 1
CHECK_DEADLOCK FALSE
INVARIANTS TypeOK OneJobAtATime FreshAnswer WaitingIsQueued
PROPERTIES AcceptedJobKept
