SPECIFICATION Spec
CONSTANTS
  p1 = p1
  p2 = p2
  deployer = deployer
  timelock = timelock
  relayer = relayer
  treasury = treasury
  game = game
  zero = zero
  Relayer = relayer
  Treasury = treasury
  Game = game
  NoOne = zero
  MaxUint256 <- MCMaxUint256
  MAX_SUPPLY <- MCMaxSupply
  Genesis <- MCGenesis
  Unit <- MCUnit
  SETTLE_TIMEOUT <- MCTimeout
  MAX_ECONOMIC_RATIO <- MCMaxRatio
  Heads <- MCHead
  Reveals <- MCReveal
  keccak <- MCKeccak
  NoReveal <- MCNoReveal
  InitialCommit <- MCInitialCommit
  Draw <- MCDraw
  Epochs = {1}
  Length = 1
  Players = {p1}
  Officers = {deployer, timelock}
  MaxBets = 1
  Tiers <- GovTiers
  Stakes <- GovStakes
  Seeds <- WinningSeed
  Amounts <- GovAmounts
  Approvals <- OneApproval
  BurnRates <- GovBurnRates
  MinBets <- GovMinBets
  Edges <- GovEdges
  CapDens <- GovCapDens
  Floors <- GovFloors
INVARIANTS EconomicsInRange SupplyConserved
PROPERTIES ReserveKept EconomyFrozen
