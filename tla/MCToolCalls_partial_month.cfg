SPECIFICATION Spec
CONSTANTS
  NoAmount = NoAmount
  NoId = NoId
  NoFilter = NoFilter
  NoCall = NoCall
  Worlds <- World1
INVARIANT
  CompleteMeansWhole
