--------------------------- MODULE MCRelayerService ---------------------------
(***************************************************************************)
(* Instances of RelayerService for TLC: one player staking one amount, the   *)
(* deployed economy, chains of chainLength nodes rotated one reveal before   *)
(* their end.                                                               *)
(***************************************************************************)
EXTENDS RelayerService

CONSTANTS p1, deployer, relayer, treasury, game, zero, i1, i2

MCMaxSupply == 100400
MCGenesis == [a \in Players \cup Officers \cup {Relayer, Treasury, Game} |->
                IF a = Treasury THEN 100000 ELSE IF a \in Players THEN 400 ELSE 0]

(* Chains: <<epoch, index>> hashes to <<epoch, index - 1>>.                  *)
MCMaxEpoch == MaxBets + 1
MCHeads == (0..MCMaxEpoch) \X (0..(chainLength - 1))
MCReveals == {h \in MCHeads : h[2] > 0}
MCKeccak == [h \in MCReveals |-> <<h[1], h[2] - 1>>]
MCSeedNode(e) == <<e, chainLength - 1>>
MCNoReveal == <<0, chainLength>>
MCInitialCommit == <<0, 0>>

(* Every reveal loses: what a draw pays is the business of RushoodGame.      *)
MCDraw(reveal, seed, betId) == 1

MCApprovals == {1000000}
OneTier == {0}
OneStake == {1}
OneSeed == {0}
NoValues == {}
NoPairs == {}
==============================================================================
