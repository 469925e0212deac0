SPECIFICATION Spec
CONSTANTS
  accounts = accounts
  categories = categories
  x1 = x1
  x2 = x2
  Coll <- MCColl
  Replaced <- MCReplaced
  Item <- MCItem
  None = None
  MaxClock = 3
  MaxFaults = 1
INVARIANTS TypeOK CollectionInv MarkedMeansComplete RemovedRowsGo
PROPERTIES RowsKept
