----------------------------- MODULE ClientChain -----------------------------
(***************************************************************************)
(* The game as a browser sees it: who placed which bet and when, whether it *)
(* is open, drawn or refunded, and the chain's clock.  RushoodGame.tla is   *)
(* shown to implement it (KeepsClientView); the web client's modules are    *)
(* written against it.                                                      *)
(*                                                                         *)
(* Bets close in the order they are placed, one at a time, so the logs of    *)
(* one event name are the bets of one kind in the order of their ids.        *)
(***************************************************************************)
EXTENDS Integers, Sequences

CONSTANTS
  Players,
  MaxBets,         \* bound on the bets of a behaviour
  SETTLE_TIMEOUT

VARIABLES
  bets,   \* sequence of records: the fields of bets(betId) a screen decides on
  now     \* block.timestamp

chainVars == <<bets, now>>

State(b)  == bets[b].state
Owner(b)  == bets[b].player
IsOpen(b) == b \in DOMAIN bets /\ State(b) = "open"

activeBetId == IF IsOpen(Len(bets)) THEN Len(bets) ELSE 0

(* The last bet whose closing event has been emitted.                        *)
LastClosed == IF activeBetId = 0 THEN Len(bets) ELSE Len(bets) - 1

(* The time of refund's check.                                               *)
Overdue(b) == now >= bets[b].placedAt + SETTLE_TIMEOUT

------------------------------------------------------------------------------
ChainInit == bets = << >> /\ now = 0

Placed(p) ==
  /\ activeBetId = 0
  /\ Len(bets) < MaxBets
  /\ bets' = Append(bets, [player |-> p, state |-> "open", placedAt |-> now])
  /\ UNCHANGED now

Settled ==
  /\ activeBetId # 0
  /\ bets' = [bets EXCEPT ![activeBetId].state = "drawn"]
  /\ UNCHANGED now

Refunded(b) ==
  /\ b # 0 /\ b = activeBetId
  /\ Overdue(b)
  /\ bets' = [bets EXCEPT ![b].state = "refunded"]
  /\ UNCHANGED now

(* The clock runs while it can still make the active bet refundable.         *)
TimePasses ==
  /\ activeBetId # 0 /\ ~Overdue(activeBetId)
  /\ now' = now + 1
  /\ UNCHANGED bets

ChainNext ==
  \/ \E p \in Players : Placed(p)
  \/ Settled
  \/ \E b \in DOMAIN bets : Refunded(b)
  \/ TimePasses

ChainSpec == ChainInit /\ [][ChainNext]_chainVars
==============================================================================
