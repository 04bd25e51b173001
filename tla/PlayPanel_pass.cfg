SPECIFICATION FairSpec
CONSTANTS
  Me = Me
  Players = {Me, Other}
  MaxBets = 2
  SETTLE_TIMEOUT = 1
  Calls = {1}
  MaxActs = 2
  MaxFaults = 1
INVARIANTS RefundsOwnBet OfferIsHonest
PROPERTY StuckBetIsOffered
CHECK_DEADLOCK FALSE
