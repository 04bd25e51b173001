SPECIFICATION MCSpec
CONSTANTS
  Blank = Blank
  Malformed = Malformed
  DEFAULT_CHAIN_LENGTH = 9
  Supply = 20
  RUSH_PER_ETH = 3
  Q = 64
  Dust = 1
  Leftovers = {2}
  LpEths = {1}
  Seeds <- SomeSeeds
  LOCK_SECONDS = 1
  MaxStacks = 2
  TIER_COUNT = 2
  Targets <- OneTarget
  DEFAULT_ATTEMPTS = 2
  ServiceEnvs <- SomeEnvs
  MaxTime = 1
  MaxEvents = 4
INVARIANTS RecordedStackIsComplete ScriptPriceIsPinned PageIsEarned LiquidityAsPublished BootedRelayerServes
CHECK_DEADLOCK FALSE
