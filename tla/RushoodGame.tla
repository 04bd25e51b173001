----------------------------- MODULE RushoodGame -----------------------------
(***************************************************************************)
(* The on-chain game (RushoodGame.sol) with the Treasury it moves tokens    *)
(* through: one active bet at a time, drawn from a server hash chain, capped *)
(* against the treasury, settled by a reveal or refunded after a timeout.    *)
(*                                                                         *)
(* One action per external function.  A require, modifier or revert is a    *)
(* guard; a transaction that reverts changes nothing and is no step.  The   *)
(* arithmetic is over the naturals: every product of the code is at most    *)
(* supply * (2^56-1) * 1000 * (2^56-1), far below 2^256.  Narrowing to the  *)
(* packed uint56 fields and the uint128 bet counter keep their widths.      *)
(***************************************************************************)
EXTENDS Rushood

CONSTANTS
  Unit,                \* 10^18, one RUSH in the smallest unit
  SETTLE_TIMEOUT,      \* 1 hours, in clock units
  MAX_ECONOMIC_RATIO,  \* type(uint56).max
  MaxBets,             \* type(uint128).max, what ++betCounter can reach
  Heads,                \* bytes32 values that are published as a chain head
  Reveals,              \* the heads whose preimage relation is known
  keccak,              \* keccak256 restricted to Reveals
  NoReveal,            \* bytes32(0)
  InitialCommit,       \* the constructor's initialCommit
  Draw(_, _, _)        \* uint256(keccak256(reveal, clientSeed, betId))

(* What the environment may pass to the external functions.                 *)
CONSTANTS Tiers, Stakes, Seeds, Amounts, Approvals, BurnRates, MinBets, Edges,
          CapDens, Floors

ASSUME GameAssumption ==
  /\ Unit \in Nat \ {0}
  /\ SETTLE_TIMEOUT \in Nat
  /\ MAX_ECONOMIC_RATIO \in Nat /\ MAX_ECONOMIC_RATIO >= 1000
  /\ MaxBets \in Nat
  /\ Reveals \subseteq Heads /\ NoReveal \notin Heads
  /\ keccak \in [Reveals -> Heads]
  /\ InitialCommit \in Heads

ASSUME DrawAssumption ==
  \A r \in Reveals, s \in Seeds, b \in 1..MaxBets : Draw(r, s, b) \in Nat

ASSUME InputAssumption ==
  /\ Tiers \subseteq Nat /\ Stakes \subseteq Nat /\ Amounts \subseteq Nat
  /\ Approvals \subseteq Nat /\ BurnRates \subseteq Nat /\ MinBets \subseteq Nat
  /\ Edges \subseteq Nat \X Nat /\ CapDens \subseteq Nat /\ Floors \subseteq Nat

------------------------------------------------------------------------------
TIER_COUNT           == 6
DEFAULT_EDGE_NUM     == 95
DEFAULT_EDGE_DEN     == 100
DEFAULT_SOLVENCY_CAP_DEN == 100
DEFAULT_MIN_BET      == Unit
DEFAULT_TREASURY_FLOOR == 95000 * Unit
BPS_DEN              == 10000
DEFAULT_BURN_RATE_BPS == 250
MAX_BURN_RATE_BPS    == 1000
MIN_SOLVENCY_CAP_DEN == 20

(* uint56(x): conversion to a packed field keeps the low bits.               *)
Uint56(x) == x % (MAX_ECONOMIC_RATIO + 1)

BetId == 1..MaxBets

Bet == [player : Players \cup {NoOne}, tier : Nat, settled : BOOLEAN,
        placedAt : Nat, stake : Nat, clientSeed : Seeds \cup {0},
        commit : Heads \cup {NoReveal}, reveal : Reveals \cup {NoReveal}]

(* The default value of a Solidity mapping entry.                            *)
EmptyBet == [player |-> NoOne, tier |-> 0, settled |-> FALSE, placedAt |-> 0,
             stake |-> 0, clientSeed |-> 0, commit |-> NoReveal,
             reveal |-> NoReveal]

VARIABLES
  paused,               \* OpenZeppelin Pausable._paused
  governance, guardian, \* role holders
  minBet, treasuryFloor, economicsGovernable,
  edgeNum, edgeDen, solvencyCapDen, burnRateBps,
  currentCommit,        \* head of the server hash chain
  betCounter, activeBetId, bets,
  now,                  \* block.timestamp
  quoted,               \* history: the winning payout at the moment of placement
  received              \* history: what the treasury paid out for each bet

roleVars    == <<paused, governance, guardian>>
economyVars == <<minBet, treasuryFloor, edgeNum, edgeDen, solvencyCapDen>>
policyVars  == <<economyVars, economicsGovernable, burnRateBps>>
betVars     == <<betCounter, activeBetId, bets, quoted, received>>
vars == <<tokenVars, roleVars, policyVars, currentCommit, betVars, now>>

------------------------------------------------------------------------------
(* Pure and view functions                                                   *)

Odds(tier) ==
  CASE tier = 0 -> 2  [] tier = 1 -> 4   [] tier = 2 -> 10
    [] tier = 3 -> 50 [] tier = 4 -> 100 [] OTHER    -> 1000

PayoutFor(tier, stake) == (stake * edgeNum * Odds(tier)) \div edgeDen

Wins(reveal, bet, betId) == Draw(reveal, bet.clientSeed, betId) % Odds(bet.tier) = 0

TreasuryBalance == balance[Treasury]

MaxBet_IgnoresOdds(tier) == TreasuryBalance \div solvencyCapDen
MaxBet_RoundsUp(tier) ==
  1 + (TreasuryBalance * edgeDen) \div (solvencyCapDen * edgeNum * Odds(tier))
MaxBet(tier) ==
  (TreasuryBalance * edgeDen) \div (solvencyCapDen * edgeNum * Odds(tier))

Active == bets[activeBetId]

(* The stored record of a bet that settleBet, or refund, closes.             *)
Drawn_Deleted(bet, revealed) == EmptyBet
Drawn(bet, revealed) == [bet EXCEPT !.settled = TRUE, !.reveal = revealed]
Refunded_NotSettled(bet) == bet
Refunded(bet) == [bet EXCEPT !.settled = TRUE]

------------------------------------------------------------------------------
(* Conditions of the operations.  A name with an underscore is a slip the    *)
(* code could have made, kept to show which property would notice it; no     *)
(* action uses it.                                                           *)

(* refund: the named bet is the active one and its timeout has elapsed.      *)
MayRefund_NotPaused(betId) ==
  /\ ~paused
  /\ betId = activeBetId
  /\ now >= bets[betId].placedAt + SETTLE_TIMEOUT
MayRefund_NoWait(betId) == betId = activeBetId
MayRefund_AnyBet(betId) ==
  /\ betId <= betCounter
  /\ now >= bets[betId].placedAt + SETTLE_TIMEOUT
MayRefund(betId) ==
  /\ betId = activeBetId
  /\ now >= bets[betId].placedAt + SETTLE_TIMEOUT

(* rotateChain: NotRelayer, CannotRotateMidBet.                              *)
MayRotate_MidBet(caller) == caller = Relayer
MayRotate(caller) == caller = Relayer /\ activeBetId = 0

(* setGovernance, setGuardian: not the zero address.                         *)
ValidHolder_Any(a) == TRUE
ValidHolder(a) == a # NoOne

(* onlyGovernance, whenEconomicsGovernable and whenBetInactive.              *)
MayTune_MidBet(caller) == caller = governance /\ economicsGovernable
MayTune(caller) ==
  /\ caller = governance
  /\ economicsGovernable
  /\ activeBetId = 0

(* setSolvencyCap: both bounds.                                              *)
ValidCap_AnyLarge(den) == MIN_SOLVENCY_CAP_DEN <= den
ValidCap(den) == MIN_SOLVENCY_CAP_DEN <= den /\ den <= MAX_ECONOMIC_RATIO

(* burnTreasuryProfit: only what is above the floor.                         *)
IsProfit_NoFloor(amount) == TreasuryBalance >= amount
IsProfit(amount) == TreasuryBalance >= treasuryFloor + amount

------------------------------------------------------------------------------
Init ==
  /\ TokenInit
  /\ paused = FALSE
  /\ governance \in Officers /\ guardian = governance
  /\ minBet = DEFAULT_MIN_BET
  /\ treasuryFloor = DEFAULT_TREASURY_FLOOR
  /\ economicsGovernable = FALSE
  /\ edgeNum = DEFAULT_EDGE_NUM /\ edgeDen = DEFAULT_EDGE_DEN
  /\ solvencyCapDen = DEFAULT_SOLVENCY_CAP_DEN
  /\ burnRateBps = DEFAULT_BURN_RATE_BPS
  /\ currentCommit = InitialCommit
  /\ betCounter = 0 /\ activeBetId = 0
  /\ bets = [b \in BetId |-> EmptyBet]
  /\ now = 0
  /\ quoted = [b \in BetId |-> 0]
  /\ received = [b \in BetId |-> 0]

------------------------------------------------------------------------------
(* Betting                                                                   *)

placeBet(player, tier, stake, seed) ==
  LET betId == betCounter + 1 IN
  /\ ~paused
  /\ activeBetId = 0
  /\ tier < TIER_COUNT
  /\ TreasuryBalance >= treasuryFloor
  /\ stake >= minBet
  /\ stake <= MaxBet(tier)
  /\ betId <= MaxBets
  /\ stake <= allowance[player] /\ stake <= balance[player]
  /\ betCounter' = betId
  /\ activeBetId' = betId
  /\ bets' = [bets EXCEPT ![betId] =
       [player |-> player, tier |-> tier, settled |-> FALSE, placedAt |-> now,
        stake |-> stake, clientSeed |-> seed, commit |-> currentCommit,
        reveal |-> NoReveal]]
  /\ allowance' = [allowance EXCEPT ![player] = Spent(@, stake)]
  /\ balance' = Moved(balance, player, Treasury, stake)
  /\ quoted' = [quoted EXCEPT ![betId] = PayoutFor(tier, stake)]
  /\ UNCHANGED <<totalSupply, roleVars, policyVars, currentCommit, received, now>>

settleBet(reveal) ==
  LET bet    == Active
      payout == IF Wins(reveal, bet, activeBetId)
                THEN PayoutFor(bet.tier, bet.stake) ELSE 0
      burn   == (bet.stake * burnRateBps) \div BPS_DEN
  IN
  /\ activeBetId # 0
  /\ keccak[reveal] = currentCommit
  /\ payout + burn <= TreasuryBalance
  /\ bets' = [bets EXCEPT ![activeBetId] = Drawn(@, reveal)]
  /\ activeBetId' = 0
  /\ currentCommit' = reveal
  /\ balance' = Burned(Moved(balance, Treasury, bet.player, payout), Treasury, burn)
  /\ totalSupply' = totalSupply - burn
  /\ received' = [received EXCEPT ![activeBetId] = @ + payout]
  /\ UNCHANGED <<allowance, roleVars, policyVars, betCounter, quoted, now>>

refund(betId) ==
  /\ MayRefund(betId)
  /\ bets[betId].stake <= TreasuryBalance
  /\ bets' = [bets EXCEPT ![betId] = Refunded(@)]
  /\ activeBetId' = 0
  /\ balance' = Moved(balance, Treasury, bets[betId].player, bets[betId].stake)
  /\ received' = [received EXCEPT ![betId] = @ + bets[betId].stake]
  /\ UNCHANGED <<allowance, totalSupply, roleVars, policyVars, currentCommit,
                 betCounter, quoted, now>>

rotateChain(caller, newGenesis) ==
  /\ MayRotate(caller)
  /\ currentCommit' = newGenesis
  /\ UNCHANGED <<tokenVars, roleVars, policyVars, betVars, now>>

------------------------------------------------------------------------------
(* Roles and the emergency pause                                             *)

pause(caller) ==
  /\ caller = guardian
  /\ ~paused
  /\ paused' = TRUE
  /\ UNCHANGED <<tokenVars, governance, guardian, policyVars, currentCommit,
                 betVars, now>>

unpause(caller) ==
  /\ caller = guardian
  /\ paused
  /\ paused' = FALSE
  /\ UNCHANGED <<tokenVars, governance, guardian, policyVars, currentCommit,
                 betVars, now>>

setGovernance(caller, newGovernance) ==
  /\ caller = governance
  /\ ValidHolder(newGovernance)
  /\ governance' = newGovernance
  /\ UNCHANGED <<tokenVars, paused, guardian, policyVars, currentCommit,
                 betVars, now>>

setGuardian(caller, newGuardian) ==
  /\ caller = governance
  /\ ValidHolder(newGuardian)
  /\ guardian' = newGuardian
  /\ UNCHANGED <<tokenVars, paused, governance, policyVars, currentCommit,
                 betVars, now>>

------------------------------------------------------------------------------
(* Economic policy                                                           *)

setBurnRate(caller, newBps) ==
  /\ caller = governance
  /\ newBps <= MAX_BURN_RATE_BPS
  /\ burnRateBps' = Uint56(newBps)
  /\ UNCHANGED <<tokenVars, roleVars, economyVars, economicsGovernable,
                 currentCommit, betVars, now>>

burnTreasuryProfit(caller, amount) ==
  /\ caller = governance
  /\ activeBetId = 0
  /\ IsProfit(amount)
  /\ balance' = Burned(balance, Treasury, amount)
  /\ totalSupply' = totalSupply - amount
  /\ UNCHANGED <<allowance, roleVars, policyVars, currentCommit, betVars, now>>

setEconomicsGovernable(caller, enabled) ==
  /\ caller = governance
  /\ economicsGovernable' = enabled
  /\ UNCHANGED <<tokenVars, roleVars, economyVars, burnRateBps, currentCommit,
                 betVars, now>>

setMinBet(caller, newMinBet) ==
  /\ MayTune(caller)
  /\ newMinBet # 0
  /\ minBet' = newMinBet
  /\ UNCHANGED <<tokenVars, roleVars, treasuryFloor, edgeNum, edgeDen,
                 solvencyCapDen, economicsGovernable, burnRateBps,
                 currentCommit, betVars, now>>

setEdge(caller, num, den) ==
  /\ MayTune(caller)
  /\ num # 0 /\ den # 0 /\ num <= den /\ den <= MAX_ECONOMIC_RATIO
  /\ edgeNum' = Uint56(num)
  /\ edgeDen' = Uint56(den)
  /\ UNCHANGED <<tokenVars, roleVars, minBet, treasuryFloor, solvencyCapDen,
                 economicsGovernable, burnRateBps, currentCommit, betVars, now>>

setSolvencyCap(caller, den) ==
  /\ MayTune(caller)
  /\ ValidCap(den)
  /\ solvencyCapDen' = Uint56(den)
  /\ UNCHANGED <<tokenVars, roleVars, minBet, treasuryFloor, edgeNum, edgeDen,
                 economicsGovernable, burnRateBps, currentCommit, betVars, now>>

setTreasuryFloor(caller, newFloor) ==
  /\ MayTune(caller)
  /\ newFloor # 0
  /\ treasuryFloor' = newFloor
  /\ UNCHANGED <<tokenVars, roleVars, minBet, edgeNum, edgeDen, solvencyCapDen,
                 economicsGovernable, burnRateBps, currentCommit, betVars, now>>

------------------------------------------------------------------------------
(* The environment                                                           *)

gameVars == <<roleVars, policyVars, currentCommit, betVars, now>>

TokenTransfer(from, to, amount) == Transfer(from, to, amount) /\ UNCHANGED gameVars
TokenApprove(owner, amount)     == Approve(owner, amount) /\ UNCHANGED gameVars
TokenBurn(owner, amount)        == HolderBurn(owner, amount) /\ UNCHANGED gameVars

(* Time matters only to refund, which compares it with the active bet's age:  *)
(* the clock runs while that comparison can still change.                    *)
Tick ==
  /\ activeBetId # 0
  /\ now < Active.placedAt + SETTLE_TIMEOUT
  /\ now' = now + 1
  /\ UNCHANGED <<tokenVars, roleVars, policyVars, currentCommit, betVars>>

Betting ==
  \/ \E p \in Players, t \in Tiers, s \in Stakes, c \in Seeds : placeBet(p, t, s, c)
  \/ \E r \in Reveals : settleBet(r)
  \/ \E b \in BetId : refund(b)

Governing ==
  \E c \in Account :
    \/ \E n \in Officers \cup {NoOne} : setGovernance(c, n)
    \/ \E n \in Officers \cup {NoOne} : setGuardian(c, n)
    \/ \E v \in BurnRates : setBurnRate(c, v)
    \/ \E v \in Amounts : burnTreasuryProfit(c, v)
    \/ \E on \in BOOLEAN : setEconomicsGovernable(c, on)
    \/ \E v \in MinBets : setMinBet(c, v)
    \/ \E e \in Edges : setEdge(c, e[1], e[2])
    \/ \E v \in CapDens : setSolvencyCap(c, v)
    \/ \E v \in Floors : setTreasuryFloor(c, v)

Operating ==
  \E c \in Account :
    \/ \E h \in Heads : rotateChain(c, h)
    \/ pause(c)
    \/ unpause(c)

TokenHolding ==
  \/ \E a \in Holder, b \in Account, v \in Amounts : TokenTransfer(a, b, v)
  \/ \E p \in Players, v \in Approvals : TokenApprove(p, v)
  \/ \E a \in Holder, v \in Amounts : TokenBurn(a, v)

Next == Betting \/ Governing \/ Operating \/ TokenHolding \/ Tick

Spec == Init /\ [][Next]_vars

(* Time passes, and somebody who wants an overdue stake back (refund is open *)
(* to anyone) eventually calls refund.  Nothing is assumed of the relayer.   *)
Fairness == WF_vars(Tick) /\ WF_vars(\E b \in BetId : refund(b))

FairSpec == Spec /\ Fairness

------------------------------------------------------------------------------
(* Properties                                                                *)

(* The types of every variable.                                              *)
TypeOK ==
  /\ TokenTypeOK
  /\ paused \in BOOLEAN
  /\ governance \in Officers /\ guardian \in Officers
  /\ minBet \in Nat /\ treasuryFloor \in Nat /\ economicsGovernable \in BOOLEAN
  /\ edgeNum \in Nat /\ edgeDen \in Nat /\ solvencyCapDen \in Nat
  /\ burnRateBps \in Nat
  /\ currentCommit \in Heads
  /\ betCounter \in 0..MaxBets /\ activeBetId \in 0..MaxBets
  /\ bets \in [BetId -> Bet]
  /\ now \in Nat
  /\ quoted \in [BetId -> Nat] /\ received \in [BetId -> Nat]

(* However governance tunes the economy, and whatever narrowing to the packed *)
(* fields does, the house edge stays a fraction, a win stays within 1/20 of   *)
(* the pool, the burn within 10% of a stake, and the reserve is never         *)
(* disabled (setEdge, setSolvencyCap, setBurnRate, setTreasuryFloor).         *)
EconomicsInRange ==
  /\ 0 < edgeNum /\ edgeNum <= edgeDen /\ edgeDen <= MAX_ECONOMIC_RATIO
  /\ MIN_SOLVENCY_CAP_DEN <= solvencyCapDen
  /\ solvencyCapDen <= MAX_ECONOMIC_RATIO
  /\ burnRateBps <= MAX_BURN_RATE_BPS
  /\ minBet > 0 /\ treasuryFloor > 0

(* Exactly the active bet is unsettled: no bet is ever left behind open, and  *)
(* none is closed while still active (placeBet, settleBet, refund).           *)
OneOpenBet ==
  \A b \in BetId : (b <= betCounter /\ ~bets[b].settled) <=> b = activeBetId

(* While a bet is open the treasury can pay its win and then the burn at any  *)
(* rate governance may set meanwhile, and can return the stake: neither       *)
(* settleBet nor refund can revert for want of funds, so the one slot for an  *)
(* active bet cannot be bricked.                                              *)
Solvent ==
  activeBetId # 0 =>
    /\ PayoutFor(Active.tier, Active.stake)
         + (Active.stake * MAX_BURN_RATE_BPS) \div BPS_DEN <= TreasuryBalance
    /\ Active.stake <= TreasuryBalance

(* The open bet's win is within 1/solvencyCapDen of the pool it joined, which *)
(* is the treasury without its stake (the campaign's invariant_payoutWithinCap *)
(* against the placeBet check and maxBet's two roundings).                    *)
WinWithinCap ==
  activeBetId # 0 =>
    /\ Active.stake <= TreasuryBalance
    /\ PayoutFor(Active.tier, Active.stake)
         <= (TreasuryBalance - Active.stake) \div solvencyCapDen

(* Every drawn bet was drawn with the preimage of the commitment recorded     *)
(* when it was placed: nothing that happens while the bet is open (rotation,  *)
(* policy, pause) changes which reveal can settle it.                         *)
RevealOpensCommit ==
  \A b \in BetId : bets[b].reveal # NoReveal =>
                     keccak[bets[b].reveal] = bets[b].commit

(* Each bet pays out once: nothing while open, exactly the stake on a refund, *)
(* and on a draw the payout quoted at placement if the public formula applied  *)
(* to the stored record says it won, nothing if it says it lost.              *)
Promised(b) ==
  IF bets[b].reveal # NoReveal
  THEN IF Wins(bets[b].reveal, bets[b], b) THEN quoted[b] ELSE 0
  ELSE IF bets[b].settled THEN bets[b].stake ELSE 0
PaidAsPromised == \A b \in BetId : received[b] = Promised(b)

(* Tokens are neither created nor lost: the balances always add up to the     *)
(* supply, which never exceeds what the constructor minted.                   *)
SupplyConserved ==
  /\ SumFunctionOnSet(balance, Account) = totalSupply
  /\ totalSupply <= MAX_SUPPLY

(* A stored bet is evidence for ever: its terms never change after placement  *)
(* and nothing of it changes after it closes.                                 *)
Terms(bet) == <<bet.player, bet.tier, bet.placedAt, bet.stake, bet.clientSeed,
                bet.commit>>
BetsAreEvidence ==
  [][\A b \in 1..betCounter :
       /\ Terms(bets'[b]) = Terms(bets[b])
       /\ bets[b].settled => bets'[b] = bets[b]]_vars

(* Between bets nothing takes the treasury below the floor the solvency cap   *)
(* depends on (burnTreasuryProfit), whoever holds governance.                 *)
ReserveKept ==
  [][activeBetId = 0 /\ TreasuryBalance' < TreasuryBalance
       => TreasuryBalance' >= treasuryFloor]_vars

(* The economy an open bet was capped against is not touched until it closes, *)
(* and no one touches it at all while it is locked.                           *)
EconomyFrozen ==
  [][activeBetId # 0 \/ ~economicsGovernable => UNCHANGED economyVars]_vars

(* An open bet closes even if the relayer is gone for good and the game stays *)
(* paused: refunds need neither.                                              *)
EveryBetCloses == \A b \in BetId : activeBetId = b ~> activeBetId # b

------------------------------------------------------------------------------
(* The game implements the promise made to a player.                         *)
StatusOf(b) ==
  IF b > betCounter THEN "none"
  ELSE IF ~bets[b].settled THEN "open"
  ELSE IF bets[b].reveal = NoReveal THEN "refunded" ELSE "drawn"

Promise == INSTANCE BetLifecycle WITH
  status <- [b \in BetId |-> StatusOf(b)],
  stake <- [b \in BetId |-> bets[b].stake],
  prize <- quoted,
  paid <- received

(* Every behaviour of the game is one of the abstract bet lifecycle, its      *)
(* liveness included.                                                         *)
KeepsPromise == Promise!Spec

(* What a browser reads of the bets.                                         *)
View == INSTANCE ClientChain WITH
  bets <- [b \in 1..betCounter |-> [player |-> bets[b].player, state |-> StatusOf(b),
                                   placedAt |-> bets[b].placedAt]]

(* The chain the web client's modules are written against is this one: bets    *)
(* open one at a time, close once, and are refunded only when overdue.        *)
KeepsClientView == View!ChainSpec
==============================================================================
