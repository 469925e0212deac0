SPECIFICATION Spec
CONSTANTS
  NoAmount = NoAmount
  NoId = NoId
  NoFilter = NoFilter
  NoCall = NoCall
  Worlds <- AllWorlds
INVARIANTS
  TypeOK
  EveryRowAccounted
  CompleteMonthsWhole
  RecurringEvidence
  PagesSkipNothing
  RefreshedIsCurrent
