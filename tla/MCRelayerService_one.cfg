SPECIFICATION FairRelayerSpec
CONSTANTS
  p1 = p1
  deployer = deployer
  relayer = relayer
  treasury = treasury
  game = game
  zero = zero
  i1 = i1
  i2 = i2
  Players = {p1}
  Officers = {deployer}
  Relayer = relayer
  Treasury = treasury
  Game = game
  NoOne = zero
  MaxUint256 = 1000000
  MAX_SUPPLY <- MCMaxSupply
  Genesis <- MCGenesis
  Unit = 1
  SETTLE_TIMEOUT = 1
  MAX_ECONOMIC_RATIO = 1023
  Heads <- MCHeads
  Reveals <- MCReveals
  keccak <- MCKeccak
  NoReveal <- MCNoReveal
  InitialCommit <- MCInitialCommit
  Draw <- MCDraw
  Tiers <- OneTier
  Stakes <- OneStake
  Seeds <- OneSeed
  Amounts <- NoValues
  Approvals <- MCApprovals
  BurnRates <- NoValues
  MinBets <- NoValues
  Edges <- NoPairs
  CapDens <- NoValues
  Floors <- NoValues
  SeedNode <- MCSeedNode
  hash <- MCKeccak
  rotationMargin = 1
  MaxEpoch <- MCMaxEpoch
  Unread = Unread
  Instances = {i1}
  MaxBets = 3
  MaxFaults = 2
  CopiesPending = FALSE
  chainLength = 3
  MAX_EPOCH_SCAN = 2
INVARIANTS RevealsUsedOnce HeadIsSecret
PROPERTIES BetsAreDrawn RotatesBetweenBets
