SPECIFICATION FairSpec
CONSTANTS
  Players = {Alice, Bob}
  Nobody = Nobody
  MaxBets = 1
  SETTLE_TIMEOUT = 0
  MaxActs = 2
  MaxFaults = 1
INVARIANT RowsAreTrue
PROPERTIES ClosedRowsStayClosed VerifyLinkStays RowsCatchUp
CHECK_DEADLOCK FALSE
