SPECIFICATION LiveSpec
CONSTANTS
  None = None
  MaxAttempts = 3
  MaxIssued = 4
INVARIANTS TypeOK AuthInv StoredTokenWorks
PROPERTIES OneAttemptPerToken Rearms AuthEnds
