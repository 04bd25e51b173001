SPECIFICATION FairSpec
CONSTANTS
  Me = Me
  Players = {Me, Other}
  MaxBets = 2
  SETTLE_TIMEOUT = 1
  Calls = {1}
  MaxActs = 1
  MaxFaults = 0
PROPERTY ReleasesSettledBet
CHECK_DEADLOCK FALSE
