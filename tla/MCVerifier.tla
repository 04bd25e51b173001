------------------------------ MODULE MCVerifier ------------------------------
(* Two settled bets on different tiers, the first a win and the second a loss. *)
EXTENDS Verifier

CONSTANTS r1, r2, s1, s2

TwoReveals == {r1, r2}
TwoCommits == {<<r1>>, <<r2>>}
TwoSeeds   == {s1, s2}
KeccakOf   == [r \in TwoReveals |-> <<r>>]

(* Bet 1 wins with its own inputs; every other combination loses.              *)
Draws == [r \in TwoReveals, s \in TwoSeeds, b \in 0..MaxWord |->
            IF <<r, s, b>> = <<r1, s1, 1>> THEN 4 ELSE 1]

Record(tier, seed, reveal) ==
  [tier |-> tier, clientSeed |-> seed, reveal |-> reveal, commit |-> KeccakOf[reveal]]
TwoBets == << Record(0, s1, r1), Record(1, s2, r2) >>
==============================================================================
