SPECIFICATION Spec
CONSTANTS
  t1 = t1
  t2 = t2
  Row <- MCRow
  None = None
  Date = {1, 2}
  MaxClock = 3
  MaxFaults = 3
  PinnedAsOf = TRUE
INVARIANTS TypeOK SyncInv NoLostUpdate InitializedMeansComplete
PROPERTIES CursorAdvances Converges
