SPECIFICATION Spec
CONSTANTS
  chainLength = 3
  rotationMargin = 1
  LAG_WARNING = 1
  SETTLE_TIMEOUT = 2
  probeTimeout = 1
  blockStall = 2
  ethPageWei = 1
  ethWarnWei = 2
  Balances = {0, 1, 2}
  MaxFaults = 1
INVARIANT ClearedMeansClear
