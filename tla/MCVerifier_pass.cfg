SPECIFICATION Spec
CONSTANTS
  r1 = r1
  r2 = r2
  s1 = s1
  s2 = s2
  Blank = Blank
  Malformed = Malformed
  Nothing = Nothing
  Reveals <- TwoReveals
  Commits <- TwoCommits
  Seeds <- TwoSeeds
  Keccak <- KeccakOf
  Draw <- Draws
  BetRecord <- TwoBets
  MaxWord = 2
  MaxActs = 3
INVARIANT PassIsGenuine
PROPERTIES LinksPass LookupsPass
