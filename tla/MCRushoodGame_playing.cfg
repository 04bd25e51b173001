SPECIFICATION FairSpec
CONSTANTS
  p1 = p1
  p2 = p2
  deployer = deployer
  timelock = timelock
  relayer = relayer
  treasury = treasury
  game = game
  zero = zero
  Relayer = relayer
  Treasury = treasury
  Game = game
  NoOne = zero
  MaxUint256 <- MCMaxUint256
  MAX_SUPPLY <- PlaySupply
  Genesis <- PlayGenesis
  Unit <- MCUnit
  SETTLE_TIMEOUT <- ShortTimeout
  MAX_ECONOMIC_RATIO <- MCMaxRatio
  Heads <- MCHead
  Reveals <- MCReveal
  keccak <- MCKeccak
  NoReveal <- MCNoReveal
  InitialCommit <- MCInitialCommit
  Draw <- MCDraw
  Epochs = {1, 2}
  Length = 2
  Players = {p1, p2}
  Officers = {deployer}
  MaxBets = 2
  Tiers <- PlayTiers
  Stakes <- PlayStakes
  Seeds <- OneSeed
  Amounts <- NoValues
  Approvals <- OneApproval
  BurnRates <- NoValues
  MinBets <- NoValues
  Edges <- NoValues
  CapDens <- NoValues
  Floors <- NoValues
INVARIANTS TypeOK OneOpenBet Solvent WinWithinCap RevealOpensCommit PaidAsPromised
PROPERTIES BetsAreEvidence EveryBetCloses KeepsPromise KeepsClientView
