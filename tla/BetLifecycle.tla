---------------------------- MODULE BetLifecycle ----------------------------
(***************************************************************************)
(* What the game promises a player, with no chain, treasury or policy in    *)
(* sight: bets are taken one at a time, a bet closes exactly once, either   *)
(* drawn (paying the prize quoted when it was placed, or nothing) or        *)
(* refunded (returning exactly the stake), and no bet stays open for ever.  *)
(***************************************************************************)
EXTENDS Naturals

CONSTANTS MaxBets, Stakes

VARIABLES
  status,   \* [1..MaxBets -> {"none", "open", "drawn", "refunded"}]
  stake,    \* what the player put up
  prize,    \* what a winning draw will pay
  paid      \* what the player got back

vars == <<status, stake, prize, paid>>

Bets == 1..MaxBets

Init ==
  /\ status = [b \in Bets |-> "none"]
  /\ stake = [b \in Bets |-> 0]
  /\ prize = [b \in Bets |-> 0]
  /\ paid = [b \in Bets |-> 0]

Place(b) ==
  /\ status[b] = "none"
  /\ \A c \in Bets : /\ status[c] # "open"
                     /\ c < b => status[c] # "none"
  /\ status' = [status EXCEPT ![b] = "open"]
  /\ \E s \in Stakes : stake' = [stake EXCEPT ![b] = s]
  /\ prize'[b] \in Nat
  /\ prize' = [prize EXCEPT ![b] = prize'[b]]
  /\ UNCHANGED paid

Close(b, outcome, amount) ==
  /\ status[b] = "open"
  /\ status' = [status EXCEPT ![b] = outcome]
  /\ paid' = [paid EXCEPT ![b] = amount]
  /\ UNCHANGED <<stake, prize>>

Resolve(b) ==
  \/ Close(b, "drawn", 0)
  \/ Close(b, "drawn", prize[b])
  \/ Close(b, "refunded", stake[b])

Next == \E b \in Bets : Place(b) \/ Resolve(b)

Spec == /\ Init
        /\ [][Next]_vars
        /\ WF_vars(\E b \in Bets : Resolve(b))
=============================================================================
