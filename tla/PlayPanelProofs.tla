---------------------------- MODULE PlayPanelProofs ----------------------------
(***************************************************************************)
(* The bet screen, for any number of players, calls, bets and faults: the    *)
(* refund it would send is of the player's own bet, and it offers it no       *)
(* earlier than the contract takes it.                                      *)
(***************************************************************************)
EXTENDS PlayPanel, SequenceTheorems, TLAPS

Bet == [player : Players, state : {"open", "drawn", "refunded"}, placedAt : Nat]

ChainTyped == bets \in Seq(Bet) /\ now \in Nat

(* What no transaction takes back: a bet once placed keeps its player and the  *)
(* time it was placed, and the clock only runs forward.                       *)
BetsKept ==
  /\ \A b \in DOMAIN bets :
       /\ b \in DOMAIN bets'
       /\ bets'[b].player = bets[b].player
       /\ bets'[b].placedAt = bets[b].placedAt
  /\ now <= now'

(* The inductive invariant.  A bet reaches `pending` by two ways, a receipt and *)
(* a recovery read; both must already be the player's own when they are in    *)
(* flight, because the chain moves on before they arrive.                     *)
Steps == {"none", "allowance", "approving", "signing", "mined"}

PageTyped ==
  /\ placing \in [Calls -> [at : Steps, bet : Nat]]
  /\ pending \in [betId : Nat, placedAt : Nat]
  /\ seenActive \in Int
  /\ recovery \in [bet : Int, answered : BOOLEAN]

Mine(b) == b \in DOMAIN bets /\ Owner(b) = Me

ReceiptsAreMine == \A c \in Calls : placing[c].at = "mined" => Mine(placing[c].bet)
RecoveryIsMine  == recovery.answered => Mine(recovery.bet)
HeadIsPast      == head = Unread \/ (head \in Nat /\ head <= now)

IInv ==
  /\ ChainTyped /\ PageTyped
  /\ ReceiptsAreMine /\ RecoveryIsMine /\ HeadIsPast
  /\ RefundsOwnBet

------------------------------------------------------------------------------
(* The chain                                                                 *)

(* Every record of the chain is a typed one.                                  *)
LEMMA TypedBets ==
  ASSUME ChainTyped
  PROVE  /\ Len(bets) \in Nat /\ DOMAIN bets = 1..Len(bets)
         /\ bets \in [1..Len(bets) -> Bet]
         /\ activeBetId \in Nat
         /\ activeBetId # 0 => activeBetId \in DOMAIN bets
<1>1. Len(bets) \in Nat /\ DOMAIN bets = 1..Len(bets) /\ bets \in [1..Len(bets) -> Bet]
  BY LenProperties DEF ChainTyped
<1>2. QED
  BY <1>1 DEF activeBetId, IsOpen

(* Changing the state of one bet changes nothing else of any bet.              *)
LEMMA Closing ==
  ASSUME ChainTyped, NEW id \in DOMAIN bets, NEW s \in {"drawn", "refunded"},
         bets' = [bets EXCEPT ![id].state = s], now' = now
  PROVE  ChainTyped' /\ BetsKept
<1>1. bets \in [1..Len(bets) -> Bet] /\ DOMAIN bets = 1..Len(bets) /\ Len(bets) \in Nat
  BY TypedBets
<1>2. PICK r \in Bet : r = [bets[id] EXCEPT !.state = s]
  BY <1>1 DEF Bet
<1>3. bets' = [bets EXCEPT ![id] = r]
  BY <1>2
<1>4. bets' \in Seq(Bet) /\ Len(bets') = Len(bets)
      /\ \A j \in 1..Len(bets) : bets'[j] = IF j = id THEN r ELSE bets[j]
  BY <1>1, <1>3, ExceptSeq DEF ChainTyped
<1>5. DOMAIN bets' = 1..Len(bets')
  BY <1>4, LenProperties
<1>6. r.player = bets[id].player /\ r.placedAt = bets[id].placedAt
  BY <1>1, <1>2 DEF Bet
<1>7. BetsKept
  BY <1>1, <1>4, <1>5, <1>6 DEF BetsKept, ChainTyped
<1>8. QED
  BY <1>4, <1>7 DEF ChainTyped

(* A bet that is placed is the last one, and its player's.                     *)
LEMMA PlacedIsLast ==
  ASSUME ChainTyped, NEW p \in Players, Placed(p)
  PROVE  /\ ChainTyped' /\ BetsKept
         /\ Len(bets') \in DOMAIN bets' /\ bets'[Len(bets')].player = p
<1>1. bets \in [1..Len(bets) -> Bet] /\ DOMAIN bets = 1..Len(bets) /\ Len(bets) \in Nat
  BY TypedBets
<1>2. PICK r \in Bet : r = [player |-> p, state |-> "open", placedAt |-> now]
  BY DEF Bet, ChainTyped
<1>3. bets' = Append(bets, r) /\ now' = now
  BY <1>2 DEF Placed
<1>4. /\ bets' \in Seq(Bet) /\ Len(bets') = Len(bets) + 1
      /\ \A i \in 1..Len(bets) : bets'[i] = bets[i]
      /\ bets'[Len(bets) + 1] = r
  BY <1>1, <1>3, AppendProperties DEF ChainTyped
<1>5. DOMAIN bets' = 1..Len(bets')
  BY <1>4, LenProperties
<1>6. BetsKept
  BY <1>1, <1>3, <1>4, <1>5 DEF BetsKept, ChainTyped
<1>7. QED
  BY <1>1, <1>2, <1>3, <1>4, <1>5, <1>6 DEF ChainTyped

(* What any transaction, or none, leaves of the bets there were.               *)
LEMMA ChainStep ==
  ASSUME ChainTyped, [ChainNext]_chainVars
  PROVE  ChainTyped' /\ BetsKept
<1>1. ASSUME UNCHANGED chainVars PROVE ChainTyped' /\ BetsKept
  BY <1>1 DEF ChainTyped, BetsKept, chainVars
<1>2. ASSUME NEW p \in Players, Placed(p) PROVE ChainTyped' /\ BetsKept
  BY <1>2, PlacedIsLast
<1>3. ASSUME Settled PROVE ChainTyped' /\ BetsKept
  <2>1. PICK id \in DOMAIN bets : id = activeBetId
    BY <1>3, TypedBets DEF Settled
  <2>2. QED
    BY <1>3, <2>1, Closing DEF Settled
<1>4. ASSUME NEW b \in DOMAIN bets, Refunded(b) PROVE ChainTyped' /\ BetsKept
  BY <1>4, Closing DEF Refunded
<1>5. ASSUME TimePasses PROVE ChainTyped' /\ BetsKept
  BY <1>5 DEF TimePasses, ChainTyped, BetsKept
<1>6. QED
  BY <1>1, <1>2, <1>3, <1>4, <1>5 DEF ChainNext

------------------------------------------------------------------------------
(* The page                                                                  *)

(* What was the player's stays so, and what the page holds of it stays right,   *)
(* whatever the chain does.                                                  *)
LEMMA KeptBets ==
  ASSUME ChainTyped', BetsKept, IInv
  PROVE  /\ \A b : Mine(b) => Mine(b)' /\ bets'[b].placedAt = bets[b].placedAt
         /\ UNCHANGED pending => RefundsOwnBet'
         /\ UNCHANGED placing => ReceiptsAreMine'
         /\ UNCHANGED recovery => RecoveryIsMine'
         /\ UNCHANGED head => HeadIsPast'
<1>1. \A b : Mine(b) => Mine(b)' /\ bets'[b].placedAt = bets[b].placedAt
  BY DEF BetsKept, Mine, Owner
<1>2. UNCHANGED pending => RefundsOwnBet'
  BY <1>1 DEF IInv, RefundsOwnBet, Mine
<1>3. UNCHANGED placing => ReceiptsAreMine'
  BY <1>1 DEF IInv, ReceiptsAreMine
<1>4. UNCHANGED recovery => RecoveryIsMine'
  BY <1>1 DEF IInv, RecoveryIsMine
<1>5. UNCHANGED head => HeadIsPast'
  BY DEF IInv, HeadIsPast, BetsKept, ChainTyped
<1>6. QED
  BY <1>1, <1>2, <1>3, <1>4, <1>5

(* A step that leaves the chain alone, or is one of its own.                   *)
LEMMA ChainUnchanged ==
  ASSUME IInv, UNCHANGED chainVars
  PROVE  ChainTyped' /\ BetsKept
BY ChainStep DEF IInv

(* The effect either leaves the recovery read alone or restarts it unanswered.  *)
LEMMA EffectKeeps ==
  ASSUME IInv, ChainTyped', BetsKept, seenActive' \in Int, EffectRuns
  PROVE  recovery' \in [bet : Int, answered : BOOLEAN] /\ RecoveryIsMine'
<1>1. CASE recovery' = recovery
  BY <1>1, KeptBets DEF IInv, PageTyped
<1>2. CASE recovery' # recovery
  <2>0. recovery' = [bet |-> seenActive', answered |-> FALSE] \/ recovery' = NoRead
    BY <1>2 DEF EffectRuns
  <2>1. PICK n \in Int : recovery' = [bet |-> n, answered |-> FALSE]
    <3>1. PICK m \in Int : m = seenActive'
      OBVIOUS
    <3>2. CASE recovery' = NoRead
      <4> WITNESS 0 \in Int
      <4> QED
        BY <3>2 DEF NoRead
    <3>3. CASE recovery' = [bet |-> m, answered |-> FALSE]
      <4> WITNESS m \in Int
      <4> QED
        BY <3>3
    <3>4. QED
      BY <2>0, <3>1, <3>2, <3>3
  <2>2. recovery' \in [bet : Int, answered : BOOLEAN] /\ ~recovery'.answered
    BY <2>1
  <2>3. QED
    BY <2>2 DEF RecoveryIsMine
<1>3. QED
  BY <1>1, <1>2

(* A step of the chain is seen by no part of the page until it looks.          *)
LEMMA PageUnchanged ==
  ASSUME IInv, [ChainNext]_chainVars,
         UNCHANGED <<pending, placing, seenActive, recovery, head>>
  PROVE  IInv'
<1>1. ChainTyped' /\ BetsKept
  BY ChainStep DEF IInv
<1>2. RefundsOwnBet' /\ ReceiptsAreMine' /\ RecoveryIsMine' /\ HeadIsPast'
  BY <1>1, KeptBets
<1>3. QED
  BY <1>1, <1>2 DEF IInv, PageTyped

(* placeBet() up to the wallet's signature: the screen lets go of the bet it   *)
(* had, and the recovery read that was under way is cancelled or its own.      *)
LEMMA ClickKeeps ==
  ASSUME IInv, NEW c \in Calls, Click(c)
  PROVE  IInv'
<1>1. ChainTyped' /\ BetsKept
  BY ChainUnchanged DEF Click
<1>2. placing' \in [Calls -> [at : Steps, bet : Nat]]
  BY DEF Click, IInv, PageTyped, Steps
<1>3. ReceiptsAreMine'
  BY <1>1, KeptBets DEF Click, IInv, PageTyped, ReceiptsAreMine, Mine, Owner, chainVars
<1>4. pending' = NoBet /\ RefundsOwnBet'
  BY DEF Click, RefundsOwnBet
<1>5. recovery' \in [bet : Int, answered : BOOLEAN] /\ RecoveryIsMine'
  BY <1>1, EffectKeeps DEF Click, Rendered, IInv, PageTyped
<1>6. HeadIsPast'
  BY <1>1, KeptBets DEF Click
<1>7. QED
  BY <1>1, <1>2, <1>3, <1>4, <1>5, <1>6 DEF IInv, PageTyped, Click, NoBet

(* Between two awaits of placeBet() nothing else changes.                      *)
LEMMA ContinueKeeps ==
  ASSUME IInv, NEW c \in Calls,
         AllowanceSuffices(c) \/ AllowanceShort(c) \/ Approved(c)
  PROVE  IInv'
<1>1. PICK to \in {"signing", "approving"} : placing' = [placing EXCEPT ![c].at = to]
  BY DEF AllowanceSuffices, AllowanceShort, Approved, Continue
<1>2. UNCHANGED <<chainVars, connected, pending, seenActive, recovery, head>>
  BY DEF AllowanceSuffices, AllowanceShort, Approved, Continue
<1>3. ChainTyped' /\ BetsKept
  BY <1>2, ChainUnchanged
<1>4. placing' \in [Calls -> [at : Steps, bet : Nat]]
  BY <1>1 DEF IInv, PageTyped, Steps
<1>5. \A d \in Calls : placing'[d].at = "mined" => placing'[d] = placing[d]
  BY <1>1 DEF IInv, PageTyped
<1>6. ReceiptsAreMine'
  BY <1>3, <1>5, KeptBets DEF IInv, ReceiptsAreMine
<1>7. RefundsOwnBet' /\ RecoveryIsMine' /\ HeadIsPast'
  BY <1>2, <1>3, KeptBets
<1>8. QED
  BY <1>2, <1>3, <1>4, <1>6, <1>7 DEF IInv, PageTyped

(* The bet of a transaction that is mined is the player's own.                 *)
LEMMA BetMinedKeeps ==
  ASSUME IInv, NEW c \in Calls, BetMined(c)
  PROVE  IInv'
<1>1. ChainTyped' /\ BetsKept /\ Mine(Len(bets))'
  BY PanelAssumption, PlacedIsLast DEF BetMined, IInv, Mine, Owner
<1>2. PICK n \in Nat : n = Len(bets')
  BY <1>1, LenProperties DEF ChainTyped
<1>3. placing' = [placing EXCEPT ![c] = [at |-> "mined", bet |-> n]]
  BY <1>2 DEF BetMined
<1>4. placing' \in [Calls -> [at : Steps, bet : Nat]]
  BY <1>3 DEF IInv, PageTyped, Steps
<1>5. \A d \in Calls : \/ placing'[d] = placing[d]
                       \/ placing'[d].bet = n
  BY <1>3 DEF IInv, PageTyped
<1>6. Mine(n)'
  BY <1>1, <1>2 DEF Mine, Owner
<1>7. ReceiptsAreMine'
  BY <1>1, <1>5, <1>6, KeptBets DEF IInv, ReceiptsAreMine
<1>8. RefundsOwnBet' /\ RecoveryIsMine' /\ HeadIsPast'
  BY <1>1, KeptBets DEF BetMined
<1>9. QED
  BY <1>1, <1>4, <1>7, <1>8 DEF IInv, PageTyped, BetMined

(* A call that ends leaves the others' bets as they were.                      *)
LEMMA LettingGo ==
  ASSUME IInv, ChainTyped', BetsKept, NEW c \in Calls,
         placing' = [placing EXCEPT ![c] = NotPlacing]
  PROVE  placing' \in [Calls -> [at : Steps, bet : Nat]] /\ ReceiptsAreMine'
<1>1. placing' \in [Calls -> [at : Steps, bet : Nat]]
  BY DEF IInv, PageTyped, Steps, NotPlacing
<1>2. \A d \in Calls : placing'[d].at = "mined" => placing'[d] = placing[d]
  BY DEF IInv, PageTyped, NotPlacing
<1>3. ReceiptsAreMine'
  BY <1>2, KeptBets DEF IInv, ReceiptsAreMine
<1>4. QED
  BY <1>1, <1>3

(* The receipt arrives: the bet it names was mined for this player, and its    *)
(* deadline is the one the chain holds, now as then.                          *)
LEMMA ReceiptKeeps ==
  ASSUME IInv, NEW c \in Calls, Receipt(c)
  PROVE  IInv'
<1>1. ChainTyped' /\ BetsKept
  BY ChainUnchanged DEF Receipt
<1>2. PICK b : b = placing[c].bet
  OBVIOUS
<1>3. Mine(b) /\ b \in Nat
  BY <1>2 DEF Receipt, IInv, ReceiptsAreMine, PageTyped
<1>4. PICK t \in Nat : t = bets[b].placedAt
  BY <1>3, TypedBets DEF Mine, IInv, Bet
<1>5. pending' = [betId |-> b, placedAt |-> t]
  BY <1>2, <1>4 DEF Receipt, betPlacedFrom
<1>6. pending' \in [betId : Nat, placedAt : Nat]
  BY <1>3, <1>5
<1>7. RefundsOwnBet'
  BY <1>1, <1>3, <1>4, <1>5, KeptBets DEF RefundsOwnBet, Mine
<1>8. placing' \in [Calls -> [at : Steps, bet : Nat]] /\ ReceiptsAreMine'
  BY <1>1, LettingGo DEF Receipt
<1>9. recovery' \in [bet : Int, answered : BOOLEAN] /\ RecoveryIsMine'
  BY <1>1, EffectKeeps DEF Receipt, Rendered, IInv, PageTyped
<1>10. HeadIsPast'
  BY <1>1, KeptBets DEF Receipt
<1>11. QED
  BY <1>1, <1>6, <1>7, <1>8, <1>9, <1>10 DEF IInv, PageTyped, Receipt

(* A failed call has nothing to show.                                          *)
LEMMA PlacingFailsKeeps ==
  ASSUME IInv, NEW c \in Calls, PlacingFails(c)
  PROVE  IInv'
<1>1. ChainTyped' /\ BetsKept
  BY ChainUnchanged DEF PlacingFails
<1>2. placing' \in [Calls -> [at : Steps, bet : Nat]] /\ ReceiptsAreMine'
  BY <1>1, LettingGo DEF PlacingFails
<1>3. RefundsOwnBet' /\ RecoveryIsMine' /\ HeadIsPast'
  BY <1>1, KeptBets DEF PlacingFails
<1>4. QED
  BY <1>1, <1>2, <1>3 DEF IInv, PageTyped, PlacingFails

(* The recovery reads, and the refund: a read is answered only for a bet of     *)
(* the player's, and the head is the chain's own.                             *)
LEMMA RecoveringKeeps ==
  ASSUME IInv, Recovering \/ ReadFails \/ RefundBet
  PROVE  IInv'
<1>1. ASSUME PollActive PROVE IInv'
  <2>1. ChainTyped' /\ BetsKept
    BY <1>1, ChainUnchanged DEF PollActive
  <2>2. seenActive' \in Int
    BY <1>1, TypedBets DEF PollActive, IInv
  <2>3. recovery' \in [bet : Int, answered : BOOLEAN] /\ RecoveryIsMine'
    BY <1>1, <2>1, <2>2, EffectKeeps DEF PollActive, Rendered
  <2>4. RefundsOwnBet' /\ ReceiptsAreMine' /\ HeadIsPast'
    BY <1>1, <2>1, KeptBets DEF PollActive
  <2>5. QED
    BY <1>1, <2>1, <2>2, <2>3, <2>4 DEF IInv, PageTyped, PollActive
<1>2. ASSUME ReadBet PROVE IInv'
  <2>1. ChainTyped' /\ BetsKept
    BY <1>2, ChainUnchanged DEF ReadBet
  <2>2. recovery' \in [bet : Int, answered : BOOLEAN]
    <3>1. PICK n \in Int, a \in BOOLEAN : recovery = [bet |-> n, answered |-> a]
      BY DEF IInv, PageTyped
    <3>2. recovery' = [bet |-> n, answered |-> TRUE] \/ recovery' = NoRead
      BY <1>2, <3>1 DEF ReadBet
    <3>3. CASE recovery' = [bet |-> n, answered |-> TRUE]
      BY <3>3
    <3>4. CASE recovery' = NoRead
      BY <3>4 DEF NoRead
    <3>5. QED
      BY <3>2, <3>3, <3>4
  <2>3. recovery'.answered => recovery'.bet = recovery.bet /\ Mine(recovery.bet)
    BY <1>2 DEF ReadBet, NoRead, IInv, PageTyped, Mine, IsOpen
  <2>4. RecoveryIsMine'
    BY <2>1, <2>3, KeptBets DEF RecoveryIsMine
  <2>5. RefundsOwnBet' /\ ReceiptsAreMine' /\ HeadIsPast'
    BY <1>2, <2>1, KeptBets DEF ReadBet
  <2>6. QED
    BY <1>2, <2>1, <2>2, <2>4, <2>5 DEF IInv, PageTyped, ReadBet
<1>3. ASSUME ReadFails PROVE IInv'
  <2>1. ChainTyped' /\ BetsKept
    BY <1>3, ChainUnchanged DEF ReadFails
  <2>2. recovery' \in [bet : Int, answered : BOOLEAN] /\ RecoveryIsMine'
    BY <1>3 DEF ReadFails, NoRead, RecoveryIsMine
  <2>3. RefundsOwnBet' /\ ReceiptsAreMine' /\ HeadIsPast'
    BY <1>3, <2>1, KeptBets DEF ReadFails
  <2>4. QED
    BY <1>3, <2>1, <2>2, <2>3 DEF IInv, PageTyped, ReadFails
<1>4. ASSUME Recover PROVE IInv'
  <2>1. ChainTyped' /\ BetsKept
    BY <1>4, ChainUnchanged DEF Recover
  <2>2. PICK b : b = recovery.bet
    OBVIOUS
  <2>3. Mine(b) /\ b \in Nat
    BY <1>4, <2>2, TypedBets DEF Recover, IInv, RecoveryIsMine, Mine
  <2>4. PICK t \in Nat : t = bets[b].placedAt
    BY <2>3, TypedBets DEF Mine, IInv, Bet
  <2>5. pending' = [betId |-> b, placedAt |-> t]
    BY <1>4, <2>2, <2>4 DEF Recover
  <2>6. RefundsOwnBet'
    BY <2>1, <2>3, <2>4, <2>5, KeptBets DEF RefundsOwnBet, Mine
  <2>7. recovery' \in [bet : Int, answered : BOOLEAN] /\ RecoveryIsMine'
    BY <1>4 DEF Recover, NoRead, RecoveryIsMine
  <2>8. ReceiptsAreMine' /\ HeadIsPast'
    BY <1>4, <2>1, KeptBets DEF Recover
  <2>9. QED
    BY <1>4, <2>1, <2>3, <2>5, <2>6, <2>7, <2>8 DEF IInv, PageTyped, Recover
<1>5. ASSUME WatchHead PROVE IInv'
  <2>1. ChainTyped' /\ BetsKept
    BY <1>5, ChainUnchanged DEF WatchHead
  <2>2. HeadIsPast'
    BY <1>5 DEF WatchHead, HeadIsPast, IInv, ChainTyped, chainVars
  <2>3. RefundsOwnBet' /\ ReceiptsAreMine' /\ RecoveryIsMine'
    BY <1>5, <2>1, KeptBets DEF WatchHead
  <2>4. QED
    BY <1>5, <2>1, <2>2, <2>3 DEF IInv, PageTyped, WatchHead
<1>6. ASSUME RefundBet PROVE IInv'
  <2>1. [ChainNext]_chainVars
    BY <1>6 DEF RefundBet, ChainNext
  <2>2. QED
    BY <1>6, <2>1, PageUnchanged DEF RefundBet, panelVars, pageVars
<1>7. QED
  BY <1>1, <1>2, <1>3, <1>4, <1>5, <1>6 DEF Recovering

(* A delivered log either leaves the screen waiting or sends it back to idle.   *)
LEMMA DeliverKeeps ==
  ASSUME IInv, NEW heardNow, NEW mine, Deliver(heardNow, mine)
  PROVE  IInv'
<1>1. ChainTyped' /\ BetsKept
  BY ChainUnchanged DEF Deliver
<1>2. recovery' \in [bet : Int, answered : BOOLEAN] /\ RecoveryIsMine'
  BY <1>1, EffectKeeps DEF Deliver, IInv, PageTyped
<1>3. pending' = pending \/ pending' = NoBet
  BY DEF Deliver
<1>4. pending' \in [betId : Nat, placedAt : Nat] /\ RefundsOwnBet'
  BY <1>1, <1>3, KeptBets DEF RefundsOwnBet, IInv, PageTyped, NoBet
<1>5. ReceiptsAreMine' /\ HeadIsPast'
  BY <1>1, KeptBets DEF Deliver
<1>6. QED
  BY <1>1, <1>2, <1>4, <1>5 DEF IInv, PageTyped, Deliver

(* Subscribing and hearing change what has been heard, not what is true.       *)
LEMMA HearingKeeps ==
  ASSUME IInv, Hearing
  PROVE  IInv'
<1>1. ASSUME SubscribeSettled \/ SubscribeRefunded PROVE IInv'
  <2>1. UNCHANGED <<chainVars, pending, placing, seenActive, recovery, head>>
    BY <1>1 DEF SubscribeSettled, SubscribeRefunded
  <2>2. [ChainNext]_chainVars
    BY <2>1
  <2>3. QED
    BY <2>1, <2>2, PageUnchanged DEF chainVars
<1>2. ASSUME onSettledLog PROVE IInv'
  BY <1>2, DeliverKeeps DEF onSettledLog
<1>3. ASSUME onRefundedLog PROVE IInv'
  BY <1>3, DeliverKeeps DEF onRefundedLog
<1>4. QED
  BY <1>1, <1>2, <1>3 DEF Hearing

(* Disconnecting, reconnecting and reloading.                                   *)
LEMMA PageKeeps ==
  ASSUME IInv, Disconnect \/ Reconnect \/ Reload
  PROVE  IInv'
<1>1. ChainTyped' /\ BetsKept
  BY ChainUnchanged DEF Disconnect, Reconnect, Reload
<1>2. ASSUME Disconnect \/ Reconnect PROVE IInv'
  <2>1. UNCHANGED <<chainVars, pending, placing, seenActive, head>> /\ EffectRuns
    BY <1>2 DEF Disconnect, Reconnect, Rendered
  <2>2. recovery' \in [bet : Int, answered : BOOLEAN] /\ RecoveryIsMine'
    BY <1>1, <2>1, EffectKeeps DEF IInv, PageTyped
  <2>3. RefundsOwnBet' /\ ReceiptsAreMine' /\ HeadIsPast'
    BY <1>1, <2>1, KeptBets
  <2>4. QED
    BY <1>1, <2>1, <2>2, <2>3 DEF IInv, PageTyped
<1>3. ASSUME Reload PROVE IInv'
  <2>1. placing' \in [Calls -> [at : Steps, bet : Nat]] /\ ReceiptsAreMine'
    BY <1>3 DEF Reload, Steps, NotPlacing, ReceiptsAreMine
  <2>2. pending' \in [betId : Nat, placedAt : Nat] /\ RefundsOwnBet'
    BY <1>3 DEF Reload, NoBet, RefundsOwnBet
  <2>3. recovery' \in [bet : Int, answered : BOOLEAN] /\ RecoveryIsMine'
    BY <1>3 DEF Reload, NoRead, RecoveryIsMine
  <2>4. seenActive' \in Int /\ HeadIsPast'
    BY <1>3 DEF Reload, Unread, HeadIsPast
  <2>5. QED
    BY <1>1, <2>1, <2>2, <2>3, <2>4 DEF IInv, PageTyped
<1>4. QED
  BY <1>2, <1>3

------------------------------------------------------------------------------
(* The theorems                                                              *)

(* Every step of the page or the chain keeps the invariant.                    *)
LEMMA NextKeepsIInv ==
  ASSUME IInv, [Next]_vars
  PROVE  IInv'
<1>1. ASSUME UNCHANGED vars PROVE IInv'
  BY <1>1, PageUnchanged DEF vars, panelVars, pageVars
<1>2. ASSUME NEW c \in Calls, Placing(c) PROVE IInv'
  BY <1>2, ClickKeeps, ContinueKeeps, BetMinedKeeps, ReceiptKeeps, PlacingFailsKeeps
     DEF Placing
<1>3. ASSUME Chain PROVE IInv'
  BY <1>3, PageUnchanged DEF Chain, panelVars, pageVars
<1>4. QED
  BY <1>1, <1>2, <1>3, RecoveringKeeps, HearingKeeps, PageKeeps DEF Next

(* A bet in flight is the player's own from the block it is mined in, or read   *)
(* from, to the moment the screen shows it.                                  *)
THEOREM Inductive == Spec => []IInv
<1>1. Init => IInv
  <2> SUFFICES ASSUME Init PROVE IInv
    OBVIOUS
  <2>1. ChainTyped
    BY EmptySeq DEF Init, ChainInit, ChainTyped
  <2>2. PageTyped
    BY DEF Init, FreshPage, PageTyped, NotPlacing, Steps, NoBet, NoRead, Unread
  <2>3. ReceiptsAreMine /\ RecoveryIsMine /\ HeadIsPast /\ RefundsOwnBet
    BY DEF Init, FreshPage, ReceiptsAreMine, NotPlacing, RecoveryIsMine, NoRead,
           HeadIsPast, RefundsOwnBet
  <2>4. QED
    BY <2>1, <2>2, <2>3 DEF IInv
<1>2. IInv /\ [Next]_vars => IInv'
  BY NextKeepsIInv
<1>3. QED
  BY <1>1, <1>2, PTL DEF Spec

(* The bet the screen would refund is the player's own, with the contract's     *)
(* deadline (PlayPanel.tsx placeBet, the recovery effect).                     *)
THEOREM RefundsOwnBetAlways == Spec => []RefundsOwnBet
<1>1. IInv => RefundsOwnBet
  BY DEF IInv
<1>2. QED
  BY <1>1, Inductive, PTL

(* No refund is offered before the contract would take it (settlement.ts).      *)
THEOREM OfferIsHonestAlways == Spec => []OfferIsHonest
<1>1. IInv => OfferIsHonest
  <2> SUFFICES ASSUME IInv, NEW b \in DOMAIN bets, Offered(b)
               PROVE  Overdue(b)
    BY DEF OfferIsHonest
  <2>1. pending.betId = b /\ b # 0 /\ head # Unread
    BY DEF Offered
  <2>2. head - pending.placedAt >= SETTLE_TIMEOUT
    BY DEF Offered, settlementState
  <2>3. pending.placedAt = bets[b].placedAt
    BY <2>1 DEF IInv, RefundsOwnBet, NoBet
  <2>4. pending.placedAt \in Nat /\ head \in Nat /\ head <= now /\ now \in Nat
    BY <2>1 DEF IInv, PageTyped, HeadIsPast, ChainTyped
  <2>5. SETTLE_TIMEOUT \in Nat
    BY PanelAssumption
  <2>6. QED
    BY <2>2, <2>3, <2>4, <2>5 DEF Overdue
<1>2. QED
  BY <1>1, Inductive, PTL
==============================================================================
