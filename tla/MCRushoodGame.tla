---------------------------- MODULE MCRushoodGame ----------------------------
(***************************************************************************)
(* Instances of RushoodGame for TLC.  One unit is one RUSH, so the default  *)
(* economics are the deployed ones (edge 95/100, cap 1/100, floor 95,000);  *)
(* the uint56 width is cut to 10 bits so that a value can exceed it.        *)
(***************************************************************************)
EXTENDS RushoodGame, TLC

CONSTANTS p1, p2, deployer, timelock, relayer, treasury, game, zero,
          Epochs, Length   \* hash chains and reveals per chain

MCUnit == 1
MCTimeout == 2
MCMaxRatio == 1023
MCMaxUint256 == 1000000
MCMaxSupply == SumFunction(Genesis)

(* Hash chains: <<epoch, index>> hashes to <<epoch, index - 1>>.             *)
MCHead == Epochs \X (0..Length)
MCReveal == {h \in MCHead : h[2] > 0}
MCKeccak == [h \in MCReveal |-> <<h[1], h[2] - 1>>]
MCNoReveal == <<0, 0>>
MCInitialCommit == <<1, 0>>

(* An arbitrary draw that wins and loses on every tier.                      *)
MCDraw(reveal, seed, betId) == (reveal[1] + reveal[2] + seed + betId) % 2

MCGenesis == [a \in Players \cup Officers \cup {Relayer, Treasury, Game} |->
                IF a = Treasury THEN 100000 ELSE IF a \in Players THEN 400 ELSE 0]

NoValues == {}

(* playing: a treasury whose maximum on tier 5 is exactly one of the stakes  *)
PlayTreasury == 190000
PlayGenesis == [MCGenesis EXCEPT ![Treasury] = PlayTreasury]
PlaySupply == SumFunction(PlayGenesis)
PlayTiers == {0, 5, 6}
PlayStakes == {PlayTreasury \div 95000, 400}

(* The shortest timeout still separates a refund in time from one too early.  *)
ShortTimeout == 1

(* economy: one stake just under the default maximum, a draw that wins it,   *)
(* every policy knob, values outside each bound                              *)
GovTiers == {1}
GovStakes == {260}
WinningSeed == {1}
GovBurnRates == {1000, 1001}
GovAmounts == {900, 6000}
GovMinBets == {0, 261}
GovEdges == {<<1, 2>>, <<100, 100>>, <<2, 1>>, <<0, 1>>, <<1024, 1124>>}
GovCapDens == {20, 100, 19, 1024 + 10}
GovFloors == {0, 99000}

OneSeed == {0}
OneApproval == {MCMaxUint256}
==============================================================================
