------------------------------ MODULE PlayPanel ------------------------------
(***************************************************************************)
(* The bet screen (app/PlayPanel.tsx with lib/settlement.ts): one browser    *)
(* page of the player Me against the chain of ClientChain.tla.              *)
(*                                                                         *)
(* Every await, read, subscription and log delivery is a step of its own,   *)
(* so that blocks, other players and this page's own callbacks fall between  *)
(* any two of them.  Rendering and the effects it runs follow the state      *)
(* change that caused them before anything else happens.  Stakes, tiers and  *)
(* wording are left out: a click is one the form allows.                     *)
(***************************************************************************)
EXTENDS ClientChain

CONSTANTS
  Me,          \* the connected account
  Calls,       \* calls of placeBet() that may be in flight at once
  MaxActs,     \* bound on what the player does: clicks, reloads, reconnections
  MaxFaults    \* bound on reads and receipts that are lost

ASSUME PanelAssumption ==
  Me \in Players /\ {MaxActs, MaxFaults, SETTLE_TIMEOUT} \subseteq Nat

Unread == -1   \* undefined, or not subscribed
NoBet  == [betId |-> 0, placedAt |-> 0]
NoRead == [bet |-> 0, answered |-> FALSE]

VARIABLES
  connected,   \* useAccount().isConnected
  status,      \* "idle", "approving", "placing", "waiting" or "error"
  pending,     \* the bet waiting on a relayer, or NoBet
  placing,     \* where each call of placeBet() is awaiting, and the bet it placed
  seenActive,  \* the last answer to the activeBetId query
  recovery,    \* the bets() read of the recovery effect
  head,        \* the timestamp of the last block useBlock saw
  heard,       \* the last BetSettled and BetRefunded logs delivered
  acts, faults

pageVars  == <<connected, status, pending, placing, seenActive,
               recovery, head, heard>>
panelVars == <<pageVars, acts, faults>>
vars      == <<chainVars, panelVars>>

NotPlacing == [at |-> "none", bet |-> 0]

busy == status \in {"approving", "placing", "waiting"}

(* lib/settlement.ts on the pending bet and the head the page has seen.       *)
settlementState_OneEarly(placedAt, at) ==
  IF at - placedAt >= SETTLE_TIMEOUT - 1 THEN "refundable" ELSE "drawing"
settlementState(placedAt, at) ==
  IF at - placedAt >= SETTLE_TIMEOUT THEN "refundable" ELSE "drawing"

(* The refund button is on screen and enabled for this bet.                   *)
Offered(b) ==
  /\ connected /\ pending.betId = b /\ b # 0 /\ head # Unread
  /\ settlementState(pending.placedAt, head) = "refundable"

------------------------------------------------------------------------------
(* What React does after a state change: the recovery effect is restarted,    *)
(* and its read cancelled, when one of its dependencies changed; a watcher    *)
(* that is no longer enabled is unsubscribed.                                *)
RestartsRecovery_PollNotADependency ==
  <<pending, connected>>' # <<pending, connected>>
RestartsRecovery == <<pending, seenActive, connected>>' # <<pending, seenActive, connected>>

EffectRuns ==
  recovery' =
    IF ~RestartsRecovery THEN recovery
    ELSE IF pending' = NoBet /\ connected' /\ seenActive' \notin {Unread, 0}
         THEN [bet |-> seenActive', answered |-> FALSE]
         ELSE NoRead

Rendered ==
  /\ EffectRuns
  /\ heard' = [settled  |-> IF connected' THEN heard.settled ELSE Unread,
               refunded |-> IF connected' /\ pending' # NoBet THEN heard.refunded
                            ELSE Unread]

------------------------------------------------------------------------------
FreshPage ==
  /\ status = "idle" /\ pending = NoBet
  /\ placing = [c \in Calls |-> NotPlacing]
  /\ seenActive = Unread /\ recovery = NoRead /\ head = Unread
  /\ heard = [settled |-> Unread, refunded |-> Unread]

Init ==
  /\ ChainInit
  /\ connected = TRUE /\ FreshPage
  /\ acts = 0 /\ faults = 0

------------------------------------------------------------------------------
(* placeBet(), cut at its awaits                                             *)

Acts == acts < MaxActs /\ acts' = acts + 1

(* Nothing marks the screen busy until the allowance has been read: a second   *)
(* press before that makes a second call.                                    *)
Click(c) ==
  /\ Acts
  /\ connected /\ ~busy
  /\ placing[c] = NotPlacing
  /\ placing' = [placing EXCEPT ![c].at = "allowance"]
  /\ pending' = NoBet
  /\ UNCHANGED <<chainVars, connected, status, seenActive, head, faults>>
  /\ Rendered

Continue(c, from, to, shown) ==
  /\ placing[c].at = from
  /\ placing' = [placing EXCEPT ![c].at = to]
  /\ status' = shown
  /\ UNCHANGED <<chainVars, connected, pending, seenActive, recovery,
                 head, heard, acts, faults>>

AllowanceSuffices(c) == Continue(c, "allowance", "signing", "placing")
AllowanceShort(c)    == Continue(c, "allowance", "approving", "approving")
Approved(c)          == Continue(c, "approving", "signing", "placing")

(* The wallet signs and the transaction is mined: the bet's own BetPlaced log  *)
(* will be in the receipt.                                                   *)
BetMined(c) ==
  /\ placing[c].at = "signing"
  /\ Placed(Me)
  /\ placing' = [placing EXCEPT ![c] = [at |-> "mined", bet |-> Len(bets')]]
  /\ UNCHANGED <<connected, status, pending, seenActive, recovery,
                 head, heard, acts, faults>>

betPlacedFrom_ActiveBet(b) ==
  IF activeBetId = 0 THEN NoBet
  ELSE [betId |-> activeBetId, placedAt |-> bets[activeBetId].placedAt]
betPlacedFrom(b) == [betId |-> b, placedAt |-> bets[b].placedAt]

(* The receipt and its block's timestamp reach the page.                      *)
Receipt(c) ==
  /\ placing[c].at = "mined"
  /\ placing' = [placing EXCEPT ![c] = NotPlacing]
  /\ pending' = betPlacedFrom(placing[c].bet)
  /\ status' = "waiting"
  /\ UNCHANGED <<chainVars, connected, seenActive, head, acts, faults>>
  /\ Rendered

(* The prompt is declined, the transaction reverts, or, as a fault, a read or  *)
(* the receipt of a bet that was placed is lost.                             *)
PlacingFails(c) ==
  /\ placing[c] # NotPlacing
  /\ IF placing[c].at \in {"allowance", "mined"}
     THEN faults < MaxFaults /\ faults' = faults + 1 ELSE UNCHANGED faults
  /\ placing' = [placing EXCEPT ![c] = NotPlacing]
  /\ status' = "error"
  /\ UNCHANGED <<chainVars, connected, pending, seenActive, recovery,
                 head, heard, acts>>

------------------------------------------------------------------------------
(* refundBet(): the transaction names the pending bet.  Until it is mined only  *)
(* the button is disabled, so pressing it and its execution are one step; when  *)
(* it is declined or reverts nothing changes; and the screen is left to the     *)
(* BetRefunded log.                                                          *)
RefundBet ==
  /\ \E b \in DOMAIN bets : Offered(b) /\ Refunded(b)
  /\ UNCHANGED panelVars

------------------------------------------------------------------------------
(* Recovering a pending bet after a reload                                    *)

PollActive ==
  /\ connected /\ pending = NoBet
  /\ seenActive # activeBetId
  /\ seenActive' = activeBetId
  /\ UNCHANGED <<chainVars, connected, status, pending, placing, head,
                 acts, faults>>
  /\ Rendered

(* The node answers the read: somebody else's bet, or a settled one, is none   *)
(* of this screen's business.                                                *)
ReadBet ==
  /\ recovery.bet # 0 /\ ~recovery.answered
  /\ recovery' = IF IsOpen(recovery.bet) /\ Owner(recovery.bet) = Me
                 THEN [recovery EXCEPT !.answered = TRUE] ELSE NoRead
  /\ UNCHANGED <<chainVars, connected, status, pending, placing, seenActive, head, heard, acts, faults>>

ReadFails ==
  /\ recovery.bet # 0
  /\ faults < MaxFaults /\ faults' = faults + 1
  /\ recovery' = NoRead
  /\ UNCHANGED <<chainVars, connected, status, pending, placing, seenActive, head, heard, acts>>

Recover ==
  /\ recovery.answered
  /\ recovery' = NoRead
  /\ pending' = [betId |-> recovery.bet, placedAt |-> bets[recovery.bet].placedAt]
  /\ status' = "waiting"
  /\ UNCHANGED <<chainVars, connected, placing, seenActive, head, heard, acts, faults>>

WatchHead ==
  /\ pending # NoBet /\ head # now
  /\ head' = now
  /\ UNCHANGED <<chainVars, connected, status, pending, placing, seenActive, recovery, heard, acts, faults>>

------------------------------------------------------------------------------
(* Events: a subscription delivers, in order, the logs emitted after it.      *)

SubscribeSettled ==
  /\ connected /\ heard.settled = Unread
  /\ heard' = [heard EXCEPT !.settled = LastClosed]
  /\ UNCHANGED <<chainVars, connected, status, pending, placing, seenActive, recovery, head, acts, faults>>

SubscribeRefunded ==
  /\ connected /\ pending # NoBet /\ heard.refunded = Unread
  /\ heard' = [heard EXCEPT !.refunded = LastClosed]
  /\ UNCHANGED <<chainVars, connected, status, pending, placing, seenActive, recovery, head, acts, faults>>

NextLog(after, kind, b) ==
  /\ after # Unread /\ b > after /\ State(b) = kind
  /\ \A c \in (after + 1)..(b - 1) : State(c) # kind

(* The screen goes back to idle when the bet is one it should react to.        *)
Deliver(heardNow, mine) ==
  /\ pending' = IF mine THEN NoBet ELSE pending
  /\ status' = IF mine THEN "idle" ELSE status
  /\ heard' = IF pending' = NoBet THEN [heardNow EXCEPT !.refunded = Unread] ELSE heardNow
  /\ UNCHANGED <<chainVars, connected, placing, seenActive, head,
                 acts, faults>>
  /\ EffectRuns

(* BetSettled is matched by player only.                                      *)
onSettledLog ==
  \E b \in DOMAIN bets :
    /\ NextLog(heard.settled, "drawn", b)
    /\ Deliver([heard EXCEPT !.settled = b], Owner(b) = Me)

onRefundedLog ==
  \E b \in DOMAIN bets :
    /\ NextLog(heard.refunded, "refunded", b)
    /\ Deliver([heard EXCEPT !.refunded = b], Owner(b) = Me /\ b = pending.betId)

------------------------------------------------------------------------------
(* The page and the rest of the chain                                        *)

Disconnect ==
  /\ Acts
  /\ connected /\ connected' = FALSE
  /\ UNCHANGED <<chainVars, status, pending, placing, seenActive, head,
                 faults>>
  /\ Rendered

Reconnect ==
  /\ ~connected /\ connected' = TRUE
  /\ UNCHANGED <<chainVars, status, pending, placing, seenActive, head,
                 acts, faults>>
  /\ Rendered

Reload ==
  /\ Acts
  /\ status' = "idle" /\ pending' = NoBet
  /\ placing' = [c \in Calls |-> NotPlacing]
  /\ seenActive' = Unread /\ recovery' = NoRead /\ head' = Unread
  /\ heard' = [settled |-> Unread, refunded |-> Unread]
  /\ UNCHANGED <<chainVars, connected, faults>>

Chain == ChainNext /\ UNCHANGED panelVars

Placing(c) ==
  \/ Click(c)
  \/ AllowanceSuffices(c) \/ AllowanceShort(c) \/ Approved(c)
  \/ BetMined(c) \/ Receipt(c) \/ PlacingFails(c)
Recovering == PollActive \/ ReadBet \/ Recover \/ WatchHead
Hearing    == SubscribeSettled \/ SubscribeRefunded \/ onSettledLog \/ onRefundedLog

Next ==
  \/ \E c \in Calls : Placing(c)
  \/ Recovering \/ Hearing \/ ReadFails
  \/ RefundBet
  \/ Disconnect \/ Reconnect \/ Reload
  \/ Chain

Spec == Init /\ [][Next]_vars

(* Polls, reads, subscriptions and deliveries of a page that stays open come   *)
(* through, and time passes.  The player, the relayer and other players owe    *)
(* nothing.                                                                  *)
Fairness ==
  /\ WF_vars(PollActive) /\ WF_vars(ReadBet) /\ WF_vars(Recover)
  /\ WF_vars(WatchHead)
  /\ WF_vars(SubscribeSettled) /\ WF_vars(SubscribeRefunded)
  /\ WF_vars(onSettledLog) /\ WF_vars(onRefundedLog)
  /\ WF_vars(TimePasses /\ UNCHANGED panelVars)

FairSpec == Spec /\ Fairness

------------------------------------------------------------------------------
(* Properties                                                                *)

(* The bet the screen would refund is the player's own, with the deadline the  *)
(* contract holds for it, whatever else was active by the time the receipt or  *)
(* the recovery read arrived.                                                *)
RefundsOwnBet ==
  pending # NoBet =>
    /\ pending.betId \in DOMAIN bets
    /\ Owner(pending.betId) = Me
    /\ pending.placedAt = bets[pending.betId].placedAt

(* While the bet is open, the button is never enabled before refund would      *)
(* accept the call (settlement.ts: chain time, not the browser's).            *)
OfferIsHonest == \A b \in DOMAIN bets : Offered(b) /\ IsOpen(b) => Overdue(b)

(* A player who reloads while a bet is open is offered its refund, if nothing  *)
(* closes it and no further read is lost, whatever they do meanwhile.          *)
StuckBetIsOffered ==
  \A b \in 1..MaxBets, lost \in 0..MaxFaults :
    (FreshPage /\ connected /\ IsOpen(b) /\ Owner(b) = Me /\ faults = lost)
      ~> (Offered(b) \/ ~IsOpen(b) \/ ~connected \/ faults # lost)

(* placeBet: "relayer settles; BetSettled resets to idle".  A page that was     *)
(* listening before the bet was placed, and never stopped, does not wait for   *)
(* ever on a bet that has been drawn.                                        *)
Listening == [](bets # << >> => heard.settled # Unread)
ReleasesSettledBet ==
  Listening =>
    \A b \in 1..MaxBets :
      (pending.betId = b /\ LastClosed >= b /\ State(b) = "drawn") ~> pending.betId # b
==============================================================================
