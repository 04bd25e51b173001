SPECIFICATION FairSpec
CONSTANTS
  chainLength = 2
  rotationMargin = 1
  LAG_WARNING = 1
  SETTLE_TIMEOUT = 2
  probeTimeout = 1
  blockStall = 1
  ethPageWei = 1
  ethWarnWei = 2
  Balances = {0}
  MaxFaults = 1
INVARIANT OneDiagnosis
PROPERTIES FailedPollClearsNothing DeadNodePages StuckBetPages
