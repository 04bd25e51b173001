-------------------------- MODULE RushoodGameProofs --------------------------
(***************************************************************************)
(* Proofs about RushoodGame, for every set of players, chain of heads,      *)
(* supply, packed width and input.  The invariants are proved in layers:    *)
(* types and economic ranges first; then the shape of the bet records; then *)
(* what rests on both, solvency, the commitment and the payouts; the supply, *)
(* by induction over sets of accounts; and the abstract specifications that  *)
(* the game implements.                                                     *)
(***************************************************************************)
EXTENDS RushoodGame, Sequences, FiniteSetTheorems, SequenceTheorems, TLAPS

(* Arithmetic of the solvency check                                          *)

(* Integer division rounds down, by less than one.                           *)
LEMMA DivBounds ==
  ASSUME NEW a \in Nat, NEW b \in Nat \ {0}
  PROVE  /\ a \div b \in Nat
         /\ (a \div b) * b <= a
         /\ a < ((a \div b) + 1) * b
BY SMTT(30)

LEMMA MulMono ==
  ASSUME NEW a \in Nat, NEW b \in Nat, NEW c \in Nat, a <= b
  PROVE  a * c <= b * c
BY SMTT(30)

LEMMA MulCancel ==
  ASSUME NEW a \in Nat, NEW b \in Nat, NEW c \in Nat \ {0}, a * c <= b * c
  PROVE  a <= b
BY SMTT(30)

(* A quotient is at least whatever multiple of the divisor fits.             *)
LEMMA DivAtLeast ==
  ASSUME NEW a \in Nat, NEW b \in Nat \ {0}, NEW q \in Nat, q * b <= a
  PROVE  q <= a \div b
<1> DEFINE d == a \div b
<1>1. d \in Nat /\ a < (d + 1) * b
  BY DivBounds
<1>2. SUFFICES ASSUME d + 1 <= q PROVE FALSE
  BY <1>1
<1>3. (d + 1) * b <= q * b
  BY <1>1, <1>2, MulMono
<1>. HIDE DEF d
<1>4. q * b \in Nat /\ (d + 1) * b \in Nat
  BY <1>1
<1>5. QED
  BY <1>1, <1>3, <1>4

(* The bound placeBet enforces on the stake (maxBet, one division) gives the  *)
(* bound the specification is about, a payout within 1/cap of the pool: two   *)
(* roundings down do not add up to one that rounds up.                        *)
LEMMA MaxBetBoundsPayout ==
  ASSUME NEW pool \in Nat, NEW num \in Nat \ {0}, NEW den \in Nat \ {0},
         NEW cap \in Nat \ {0}, NEW odds \in Nat \ {0}, NEW stake \in Nat,
         stake <= (pool * den) \div (cap * num * odds)
  PROVE  (stake * num * odds) \div den <= pool \div cap
<1> DEFINE div == cap * num * odds
           max == (pool * den) \div div
           win == stake * num * odds
           pay == win \div den
<1>1. div \in Nat \ {0} /\ pool * den \in Nat /\ win \in Nat
  <2>1. cap * num \in Nat \ {0}
    BY SMTT(30)
  <2>2. stake * num \in Nat
    BY SMTT(30)
  <2>3. QED
    BY <2>1, <2>2, SMTT(30)
<1>2. max \in Nat /\ max * div <= pool * den
  BY <1>1, DivBounds
<1>3. stake * div <= max * div
  BY <1>1, <1>2, MulMono
<1>4. stake * div = win * cap
  BY SMTT(30)
<1>5. pay \in Nat /\ pay * den <= win
  BY <1>1, DivBounds
<1>6. (pay * den) * cap <= win * cap
  <2>1. pay * den \in Nat
    BY <1>5
  <2>2. QED
    BY <2>1, <1>1, <1>5, MulMono
<1>7. (pay * cap) * den = (pay * den) * cap
  BY <1>5, SMTT(30)
<1>8. (pay * cap) * den <= pool * den
  <2>1. /\ stake * div \in Nat /\ max * div \in Nat /\ win * cap \in Nat
        /\ (pay * den) * cap \in Nat /\ (pay * cap) * den \in Nat
    BY <1>1, <1>2, <1>5
  <2>. HIDE DEF div, max, win, pay
  <2>2. QED
    BY <2>1, <1>1, <1>2, <1>3, <1>4, <1>6, <1>7
<1>9. pay * cap <= pool
  BY <1>5, <1>8, MulCancel
<1>10. pay <= pool \div cap
  BY <1>5, <1>9, DivAtLeast
<1>11. QED
  BY <1>10

LEMMA OddsPositive ==
  ASSUME NEW tier \in Nat
  PROVE  Odds(tier) \in Nat \ {0}
BY DEF Odds

------------------------------------------------------------------------------
(* Types and the range of the economy                                        *)

(* The open bet was placed by a player on one of the tiers.                   *)
ActiveTyped ==
  activeBetId # 0 => Active.player \in Players /\ Active.clientSeed \in Seeds

TypeInv == TypeOK /\ EconomicsInRange /\ ActiveTyped

LEMMA PayoutType ==
  ASSUME TypeOK, EconomicsInRange, NEW tier \in Nat, NEW stake \in Nat
  PROVE  PayoutFor(tier, stake) \in Nat
<1>1. edgeNum \in Nat /\ edgeDen \in Nat \ {0}
  BY DEF TypeOK, EconomicsInRange
<1>2. stake * edgeNum * Odds(tier) \in Nat
  BY <1>1, OddsPositive, SMTT(30)
<1>3. QED
  BY <1>1, <1>2, DivBounds DEF PayoutFor

(* The burn is a slice of the stake, whatever the rate in force.              *)
LEMMA BurnType ==
  ASSUME TypeOK, NEW stake \in Nat
  PROVE  (stake * burnRateBps) \div BPS_DEN \in Nat
BY DivBounds, SMTT(30) DEF TypeOK, BPS_DEN

(* A transfer an account can afford leaves every balance a natural number.    *)
LEMMA MovedType ==
  ASSUME NEW bal \in [Account -> Nat], NEW from \in Account, NEW to,
         NEW amount \in Nat, amount <= bal[from]
  PROVE  Moved(bal, from, to, amount) \in [Account -> Nat]
BY DEF Moved

LEMMA BurnedType ==
  ASSUME NEW bal \in [Account -> Nat], NEW from \in Account,
         NEW amount \in Nat, amount <= bal[from]
  PROVE  Burned(bal, from, amount) \in [Account -> Nat]
BY DEF Burned

LEMMA AccountFacts ==
  /\ Treasury \in Account /\ Game \in Account /\ Relayer \in Account
  /\ Treasury \notin Players /\ Treasury \notin Holder
  /\ Players \subseteq Account
BY AccountsAssumption DEF Account, Holder

(* Narrowing to a packed field loses nothing of a value within the field.     *)
LEMMA Uint56Lossless ==
  ASSUME NEW x \in Nat, x <= MAX_ECONOMIC_RATIO
  PROVE  Uint56(x) = x
BY GameAssumption DEF Uint56

LEMMA TypeInvInit == Init => TypeInv
<1> SUFFICES ASSUME Init PROVE TypeInv
  OBVIOUS
<1>1. TokenTypeOK
  BY GenesisAssumption DEF Init, TokenInit, TokenTypeOK
<1>2. EmptyBet \in Bet
  BY DEF EmptyBet, Bet
<1>3. TypeOK
  <2>1. bets \in [BetId -> Bet]
    BY <1>2 DEF Init
  <2>2. /\ minBet \in Nat /\ treasuryFloor \in Nat
        /\ edgeNum \in Nat /\ edgeDen \in Nat /\ solvencyCapDen \in Nat
        /\ burnRateBps \in Nat
    BY GameAssumption
    DEF Init, DEFAULT_MIN_BET, DEFAULT_TREASURY_FLOOR, DEFAULT_EDGE_NUM,
        DEFAULT_EDGE_DEN, DEFAULT_SOLVENCY_CAP_DEN, DEFAULT_BURN_RATE_BPS
  <2>3. quoted \in [BetId -> Nat] /\ received \in [BetId -> Nat]
    BY DEF Init
  <2>4. /\ currentCommit \in Heads /\ now \in Nat
        /\ betCounter \in 0..MaxBets /\ activeBetId \in 0..MaxBets
    BY GameAssumption DEF Init
  <2>5. /\ paused \in BOOLEAN /\ economicsGovernable \in BOOLEAN
        /\ governance \in Officers /\ guardian \in Officers
    BY Zenon DEF Init
  <2>6. QED
    BY <1>1, <2>1, <2>2, <2>3, <2>4, <2>5 DEF TypeOK
<1>4. EconomicsInRange
  BY GameAssumption
  DEF Init, EconomicsInRange, DEFAULT_MIN_BET, DEFAULT_TREASURY_FLOOR,
      DEFAULT_EDGE_NUM, DEFAULT_EDGE_DEN, DEFAULT_SOLVENCY_CAP_DEN,
      DEFAULT_BURN_RATE_BPS, MIN_SOLVENCY_CAP_DEN, MAX_BURN_RATE_BPS
<1>5. QED
  BY <1>3, <1>4 DEF Init, TypeInv, ActiveTyped

LEMMA PlaceTypeInv ==
  ASSUME TypeInv, NEW p \in Players, NEW t \in Tiers, NEW s \in Stakes,
         NEW c \in Seeds, placeBet(p, t, s, c)
  PROVE  TypeInv'
<1> USE DEF TypeInv
<1>1. t \in Nat /\ s \in Nat
  BY InputAssumption
<1>2. betCounter + 1 \in BetId
  BY DEF placeBet, TypeOK, BetId
<1>3. PayoutFor(t, s) \in Nat
  BY <1>1, PayoutType
<1>4. balance' \in [Account -> Nat]
  BY <1>1, MovedType, AccountFacts DEF placeBet, TypeOK, TokenTypeOK
<1>5. Spent(allowance[p], s) \in Nat
  BY <1>1 DEF placeBet, TypeOK, TokenTypeOK, Spent
<1>6. TokenTypeOK'
  BY <1>4, <1>5 DEF placeBet, TypeOK, TokenTypeOK
<1>7. /\ bets' \in [BetId -> Bet]
      /\ activeBetId' = betCounter + 1
      /\ bets'[activeBetId'].player = p /\ bets'[activeBetId'].clientSeed = c
  BY <1>1, <1>2 DEF placeBet, TypeOK, Bet
<1>8. TypeOK'
  BY <1>2, <1>3, <1>6, <1>7
  DEF placeBet, TypeOK, BetId, roleVars, policyVars, economyVars
<1>9. EconomicsInRange'
  BY DEF placeBet, EconomicsInRange, policyVars, economyVars
<1>10. ActiveTyped'
  BY <1>7 DEF ActiveTyped, Active
<1>11. QED
  BY <1>8, <1>9, <1>10

LEMMA SettleTypeInv ==
  ASSUME TypeInv, NEW r \in Reveals, settleBet(r)
  PROVE  TypeInv'
<1> USE DEF TypeInv
<1> DEFINE payout == IF Wins(r, Active, activeBetId)
                     THEN PayoutFor(Active.tier, Active.stake) ELSE 0
           burn == (Active.stake * burnRateBps) \div BPS_DEN
<1>1. activeBetId \in BetId /\ Active \in Bet
  BY DEF settleBet, TypeOK, BetId, Active
<1>2. Active.tier \in Nat /\ Active.stake \in Nat
  BY <1>1 DEF Bet
<1>3. payout \in Nat /\ burn \in Nat
  BY <1>2, PayoutType, BurnType
<1>4. payout + burn <= balance[Treasury]
  BY DEF settleBet, TreasuryBalance
<1>5. DEFINE mid == Moved(balance, Treasury, Active.player, payout)
<1>6. mid \in [Account -> Nat] /\ mid[Treasury] >= burn
  <2>. HIDE DEF payout, burn
  <2>1. balance \in [Account -> Nat] /\ balance[Treasury] \in Nat
    BY AccountFacts DEF TypeOK, TokenTypeOK
  <2>2. mid \in [Account -> Nat]
    BY <1>3, <1>4, <2>1, MovedType, AccountFacts
  <2>3. mid[Treasury] = (balance[Treasury] - payout)
                          + (IF Treasury = Active.player THEN payout ELSE 0)
    BY AccountFacts DEF Moved
  <2>4. QED
    BY <1>3, <1>4, <2>1, <2>2, <2>3
<1>7. balance' = Burned(mid, Treasury, burn) /\ totalSupply' = totalSupply - burn
  BY DEF settleBet
<1>8. TokenTypeOK'
  <2>. HIDE DEF mid, burn, payout
  <2>1. balance' \in [Account -> Nat]
    BY <1>3, <1>6, <1>7, BurnedType, AccountFacts
  <2>2. QED
    BY <1>3, <1>7, <2>1 DEF settleBet, TypeOK, TokenTypeOK
<1>9. received' = [received EXCEPT ![activeBetId] = @ + payout]
  BY DEF settleBet
<1>10. received' \in [BetId -> Nat]
  <2>. HIDE DEF payout
  <2>1. QED
    BY <1>1, <1>3, <1>9 DEF TypeOK
<1>11. bets' \in [BetId -> Bet]
  <2>1. Drawn(Active, r) \in Bet
    BY <1>1 DEF Drawn, Bet
  <2>2. QED
    BY <1>1, <2>1 DEF settleBet, TypeOK, Active
<1>12. TypeOK'
  BY <1>8, <1>10, <1>11, GameAssumption
  DEF settleBet, TypeOK, roleVars, policyVars, economyVars
<1>13. EconomicsInRange'
  BY DEF settleBet, EconomicsInRange, policyVars, economyVars
<1>14. QED
  BY <1>12, <1>13 DEF settleBet, ActiveTyped

LEMMA RefundTypeInv ==
  ASSUME TypeInv, NEW b \in BetId, refund(b)
  PROVE  TypeInv'
<1> USE DEF TypeInv
<1>1. bets[b] \in Bet /\ bets[b].stake \in Nat
  BY DEF TypeOK, Bet
<1>2. balance' \in [Account -> Nat]
  BY <1>1, MovedType, AccountFacts
  DEF refund, TypeOK, TokenTypeOK, TreasuryBalance
<1>3. Refunded(bets[b]) \in Bet
  BY <1>1 DEF Refunded, Bet
<1>4. bets' \in [BetId -> Bet] /\ received' \in [BetId -> Nat]
  BY <1>1, <1>3 DEF refund, TypeOK
<1>5. TypeOK'
  BY <1>2, <1>4, GameAssumption
  DEF refund, TypeOK, TokenTypeOK, roleVars, policyVars, economyVars
<1>6. EconomicsInRange'
  BY DEF refund, EconomicsInRange, policyVars, economyVars
<1>7. QED
  BY <1>5, <1>6 DEF refund, ActiveTyped

------------------------------------------------------------------------------
(* Every other step leaves the bets alone, and while a bet is open it leaves  *)
(* alone what that bet rests on: the head, the economy, and the treasury,     *)
(* which it can only add to.                                                  *)
Aside ==
  /\ UNCHANGED betVars
  /\ now' >= now
  /\ activeBetId # 0 \/ ~economicsGovernable => UNCHANGED economyVars
  /\ activeBetId # 0 => /\ UNCHANGED currentCommit
                        /\ TreasuryBalance' >= TreasuryBalance
  /\ TreasuryBalance' < TreasuryBalance => TreasuryBalance' >= treasuryFloor

(* The governance operations.                                                 *)
LEMMA PolicyStep ==
  ASSUME TypeInv, NEW caller \in Account,
         \/ \E n \in Officers \cup {NoOne} : setGovernance(caller, n)
         \/ \E n \in Officers \cup {NoOne} : setGuardian(caller, n)
         \/ \E v \in BurnRates : setBurnRate(caller, v)
         \/ \E v \in Amounts : burnTreasuryProfit(caller, v)
         \/ \E on \in BOOLEAN : setEconomicsGovernable(caller, on)
         \/ \E v \in MinBets : setMinBet(caller, v)
         \/ \E e \in Edges : setEdge(caller, e[1], e[2])
         \/ \E v \in CapDens : setSolvencyCap(caller, v)
         \/ \E v \in Floors : setTreasuryFloor(caller, v)
  PROVE  TypeInv' /\ Aside
<1> USE DEF TypeInv
<1>1. balance[Treasury] \in Nat /\ treasuryFloor \in Nat /\ now \in Nat
  BY AccountFacts DEF TypeOK, TokenTypeOK
<1>2. ASSUME UNCHANGED betVars PROVE ActiveTyped'
  BY <1>2 DEF ActiveTyped, Active, betVars
<1>3. ASSUME NEW n \in Officers \cup {NoOne}, setGovernance(caller, n)
      PROVE  TypeInv' /\ Aside
  <2>1. TypeOK'
    BY <1>3 DEF setGovernance, ValidHolder, TypeOK, TokenTypeOK, tokenVars,
                policyVars, economyVars, betVars
  <2>2. EconomicsInRange' /\ Aside
    BY <1>1, <1>3 DEF setGovernance, EconomicsInRange, Aside, tokenVars, policyVars,
                economyVars, betVars, TreasuryBalance
  <2>3. QED
    BY <1>2, <1>3, <2>1, <2>2 DEF setGovernance
<1>4. ASSUME NEW n \in Officers \cup {NoOne}, setGuardian(caller, n)
      PROVE  TypeInv' /\ Aside
  <2>1. TypeOK'
    BY <1>4 DEF setGuardian, ValidHolder, TypeOK, TokenTypeOK, tokenVars,
                policyVars, economyVars, betVars
  <2>2. EconomicsInRange' /\ Aside
    BY <1>1, <1>4 DEF setGuardian, EconomicsInRange, Aside, tokenVars, policyVars,
                economyVars, betVars, TreasuryBalance
  <2>3. QED
    BY <1>2, <1>4, <2>1, <2>2 DEF setGuardian
<1>5. ASSUME NEW v \in BurnRates, setBurnRate(caller, v)
      PROVE  TypeInv' /\ Aside
  <2>1. v \in Nat /\ v <= MAX_BURN_RATE_BPS /\ Uint56(v) = v
    BY <1>5, InputAssumption, GameAssumption, Uint56Lossless
    DEF setBurnRate, MAX_BURN_RATE_BPS
  <2>2. TypeOK'
    BY <1>5, <2>1 DEF setBurnRate, TypeOK, TokenTypeOK, tokenVars, roleVars,
                      economyVars, betVars
  <2>3. EconomicsInRange' /\ Aside
    BY <1>1, <1>5, <2>1 DEF setBurnRate, EconomicsInRange, Aside, tokenVars,
                      economyVars, betVars, TreasuryBalance
  <2>4. QED
    BY <1>2, <1>5, <2>2, <2>3 DEF setBurnRate
<1>6. ASSUME NEW v \in Amounts, burnTreasuryProfit(caller, v)
      PROVE  TypeInv' /\ Aside
  <2>1. v \in Nat /\ activeBetId = 0 /\ balance[Treasury] >= treasuryFloor + v
    BY <1>6, InputAssumption DEF burnTreasuryProfit, IsProfit, TreasuryBalance
  <2>2. balance' \in [Account -> Nat] /\ totalSupply' \in Int
    BY <1>1, <1>6, <2>1, BurnedType, AccountFacts
    DEF burnTreasuryProfit, TypeOK, TokenTypeOK
  <2>3. TypeOK'
    BY <1>6, <2>2 DEF burnTreasuryProfit, TypeOK, TokenTypeOK, roleVars,
                      policyVars, economyVars, betVars
  <2>4. balance'[Treasury] >= treasuryFloor
    BY <1>1, <1>6, <2>1, AccountFacts
    DEF burnTreasuryProfit, Burned, TypeOK, TokenTypeOK
  <2>5. EconomicsInRange' /\ Aside
    BY <1>1, <1>6, <2>1, <2>4 DEF burnTreasuryProfit, EconomicsInRange, Aside, policyVars,
                      economyVars, betVars, TreasuryBalance
  <2>6. QED
    BY <1>2, <1>6, <2>3, <2>5 DEF burnTreasuryProfit
<1>7. ASSUME NEW on \in BOOLEAN, setEconomicsGovernable(caller, on)
      PROVE  TypeInv' /\ Aside
  <2>1. TypeOK'
    BY <1>7 DEF setEconomicsGovernable, TypeOK, TokenTypeOK, tokenVars,
                roleVars, economyVars, betVars
  <2>2. EconomicsInRange' /\ Aside
    BY <1>1, <1>7 DEF setEconomicsGovernable, EconomicsInRange, Aside, tokenVars,
                economyVars, betVars, TreasuryBalance
  <2>3. QED
    BY <1>2, <1>7, <2>1, <2>2 DEF setEconomicsGovernable
<1>8. ASSUME NEW v \in MinBets, setMinBet(caller, v)
      PROVE  TypeInv' /\ Aside
  <2>1. v \in Nat
    BY InputAssumption
  <2>2. TypeOK'
    BY <1>8, <2>1 DEF setMinBet, TypeOK, TokenTypeOK, tokenVars, roleVars, betVars
  <2>3. EconomicsInRange' /\ Aside
    BY <1>1, <1>8, <2>1 DEF setMinBet, MayTune, EconomicsInRange, Aside, tokenVars,
                      economyVars, betVars, TreasuryBalance
  <2>4. QED
    BY <1>2, <1>8, <2>2, <2>3 DEF setMinBet
<1>9. ASSUME NEW e \in Edges, setEdge(caller, e[1], e[2])
      PROVE  TypeInv' /\ Aside
  <2>1. /\ e[1] \in Nat /\ e[2] \in Nat /\ 0 < e[1] /\ e[1] <= e[2]
        /\ e[2] <= MAX_ECONOMIC_RATIO
    BY <1>9, InputAssumption DEF setEdge
  <2>2. Uint56(e[1]) = e[1] /\ Uint56(e[2]) = e[2]
    BY <2>1, GameAssumption, Uint56Lossless
  <2>3. edgeNum' = e[1] /\ edgeDen' = e[2]
    BY <1>9, <2>2 DEF setEdge
  <2>4. TypeOK'
    BY <1>9, <2>1, <2>3 DEF setEdge, TypeOK, TokenTypeOK, tokenVars, roleVars, betVars
  <2>5. EconomicsInRange' /\ Aside
    BY <1>1, <1>9, <2>1, <2>3 DEF setEdge, MayTune, EconomicsInRange, Aside, tokenVars,
                      economyVars, betVars, TreasuryBalance
  <2>6. QED
    BY <1>2, <1>9, <2>4, <2>5 DEF setEdge
<1>10. ASSUME NEW v \in CapDens, setSolvencyCap(caller, v)
       PROVE  TypeInv' /\ Aside
  <2>1. v \in Nat /\ MIN_SOLVENCY_CAP_DEN <= v /\ v <= MAX_ECONOMIC_RATIO
    BY <1>10, InputAssumption DEF setSolvencyCap, ValidCap
  <2>2. solvencyCapDen' = v
    BY <1>10, <2>1, Uint56Lossless DEF setSolvencyCap
  <2>3. TypeOK'
    BY <1>10, <2>1, <2>2 DEF setSolvencyCap, TypeOK, TokenTypeOK, tokenVars,
                             roleVars, betVars
  <2>4. EconomicsInRange' /\ Aside
    BY <1>1, <1>10, <2>1, <2>2 DEF setSolvencyCap, MayTune, EconomicsInRange, Aside,
                      tokenVars, economyVars, betVars, TreasuryBalance
  <2>5. QED
    BY <1>2, <1>10, <2>3, <2>4 DEF setSolvencyCap
<1>11. ASSUME NEW v \in Floors, setTreasuryFloor(caller, v)
       PROVE  TypeInv' /\ Aside
  <2>1. v \in Nat
    BY InputAssumption
  <2>2. TypeOK'
    BY <1>11, <2>1 DEF setTreasuryFloor, TypeOK, TokenTypeOK, tokenVars, roleVars,
                       betVars
  <2>3. EconomicsInRange' /\ Aside
    BY <1>1, <1>11, <2>1 DEF setTreasuryFloor, MayTune, EconomicsInRange, Aside, tokenVars,
                      economyVars, betVars, TreasuryBalance
  <2>4. QED
    BY <1>2, <1>11, <2>2, <2>3 DEF setTreasuryFloor
<1>12. QED
  BY <1>3, <1>4, <1>5, <1>6, <1>7, <1>8, <1>9, <1>10, <1>11

(* The guardian's and the relayer's operations.                               *)
LEMMA OperatingStep ==
  ASSUME TypeInv, Operating
  PROVE  TypeInv' /\ Aside
<1> USE DEF TypeInv
<1>1. balance[Treasury] \in Nat /\ treasuryFloor \in Nat /\ now \in Nat
  BY AccountFacts DEF TypeOK, TokenTypeOK
<1>2. ASSUME UNCHANGED betVars PROVE ActiveTyped'
  BY <1>2 DEF ActiveTyped, Active, betVars
<1>3. ASSUME NEW c \in Account, NEW h \in Heads, rotateChain(c, h)
      PROVE  TypeInv' /\ Aside
  <2>1. TypeOK'
    BY <1>3 DEF rotateChain, TypeOK, TokenTypeOK, tokenVars, roleVars, policyVars,
                economyVars, betVars
  <2>2. EconomicsInRange' /\ Aside
    BY <1>1, <1>3 DEF rotateChain, MayRotate, EconomicsInRange, Aside, tokenVars,
                policyVars, economyVars, betVars, TreasuryBalance
  <2>3. QED
    BY <1>2, <1>3, <2>1, <2>2 DEF rotateChain
<1>4. ASSUME NEW c \in Account, pause(c) \/ unpause(c)
      PROVE  TypeInv' /\ Aside
  <2>1. paused' \in BOOLEAN
    BY <1>4, Zenon DEF pause, unpause
  <2>2. UNCHANGED <<tokenVars, governance, guardian, policyVars, currentCommit,
                    betVars, now>>
    BY <1>4, Zenon DEF pause, unpause
  <2>3. TypeOK'
    BY <2>1, <2>2 DEF TypeOK, TokenTypeOK, tokenVars, policyVars, economyVars, betVars
  <2>4. EconomicsInRange' /\ Aside
    BY <1>1, <2>2 DEF EconomicsInRange, Aside, tokenVars, policyVars, economyVars,
                betVars, TreasuryBalance
  <2>5. QED
    BY <1>2, <2>2, <2>3, <2>4
<1>5. QED
  BY <1>3, <1>4 DEF Operating

(* Token movements by the accounts that hold them: none can take from the     *)
(* treasury.                                                                  *)
LEMMA TokenStep ==
  ASSUME TypeInv, TokenHolding
  PROVE  TypeInv' /\ Aside
<1> USE DEF TypeInv
<1>1. balance[Treasury] \in Nat /\ treasuryFloor \in Nat /\ now \in Nat
  BY AccountFacts DEF TypeOK, TokenTypeOK
<1>2. UNCHANGED gameVars
  BY DEF TokenHolding, TokenTransfer, TokenApprove, TokenBurn
<1>3. TokenTypeOK' /\ balance'[Treasury] >= balance[Treasury]
  <2>1. ASSUME NEW a \in Holder, NEW b \in Account, NEW v \in Amounts,
               TokenTransfer(a, b, v)
        PROVE  TokenTypeOK' /\ balance'[Treasury] >= balance[Treasury]
    <3>1. v \in Nat /\ a \in Account /\ a # Treasury
      BY InputAssumption, AccountFacts DEF Holder
    <3>2. balance' \in [Account -> Nat]
      BY <2>1, <3>1, MovedType DEF TokenTransfer, Transfer, TypeOK, TokenTypeOK
    <3>3. balance'[Treasury] >= balance[Treasury]
      BY <1>1, <2>1, <3>1, AccountFacts DEF TokenTransfer, Transfer, Moved
    <3>4. QED
      BY <2>1, <3>2, <3>3 DEF TokenTransfer, Transfer, TypeOK, TokenTypeOK
  <2>2. ASSUME NEW p \in Players, NEW v \in Approvals, TokenApprove(p, v)
        PROVE  TokenTypeOK' /\ balance'[Treasury] >= balance[Treasury]
    BY <1>1, <2>2, InputAssumption DEF TokenApprove, Approve, TypeOK, TokenTypeOK
  <2>3. ASSUME NEW a \in Holder, NEW v \in Amounts, TokenBurn(a, v)
        PROVE  TokenTypeOK' /\ balance'[Treasury] >= balance[Treasury]
    <3>1. v \in Nat /\ a \in Account /\ a # Treasury
      BY InputAssumption, AccountFacts DEF Holder
    <3>2. balance' \in [Account -> Nat]
      BY <2>3, <3>1, BurnedType DEF TokenBurn, HolderBurn, TypeOK, TokenTypeOK
    <3>3. balance'[Treasury] >= balance[Treasury]
      BY <1>1, <2>3, <3>1, AccountFacts
      DEF TokenBurn, HolderBurn, Burned, TypeOK, TokenTypeOK
    <3>4. QED
      BY <2>3, <3>1, <3>2, <3>3 DEF TokenBurn, HolderBurn, TypeOK, TokenTypeOK
  <2>4. QED
    BY <2>1, <2>2, <2>3 DEF TokenHolding
<1>4. TypeOK'
  BY <1>2, <1>3 DEF TypeOK, gameVars, roleVars, policyVars, economyVars, betVars
<1>5. EconomicsInRange' /\ ActiveTyped'
  BY <1>2 DEF EconomicsInRange, ActiveTyped, Active, gameVars, policyVars,
              economyVars, betVars
<1>6. Aside
  BY <1>1, <1>2, <1>3, AccountFacts
  DEF Aside, gameVars, policyVars, economyVars, betVars, TreasuryBalance, TokenTypeOK
<1>7. QED
  BY <1>4, <1>5, <1>6

LEMMA TickStep ==
  ASSUME TypeInv, Tick
  PROVE  TypeInv' /\ Aside
<1> USE DEF TypeInv
<1>1. balance[Treasury] \in Nat /\ now \in Nat
  BY AccountFacts DEF TypeOK, TokenTypeOK
<1>2. TypeOK'
  BY DEF Tick, TypeOK, TokenTypeOK, tokenVars, roleVars, policyVars, economyVars,
         betVars
<1>3. EconomicsInRange' /\ ActiveTyped'
  BY DEF Tick, EconomicsInRange, ActiveTyped, Active, policyVars, economyVars, betVars
<1>4. Aside
  BY <1>1 DEF Tick, Aside, tokenVars, policyVars, economyVars, betVars,
              TreasuryBalance
<1>5. QED
  BY <1>2, <1>3, <1>4

LEMMA StutterStep ==
  ASSUME TypeInv, UNCHANGED vars
  PROVE  TypeInv' /\ Aside
<1> USE DEF TypeInv
<1>1. balance[Treasury] \in Nat /\ now \in Nat
  BY AccountFacts DEF TypeOK, TokenTypeOK
<1>2. TypeOK'
  BY DEF vars, TypeOK, TokenTypeOK, tokenVars, roleVars, policyVars, economyVars,
         betVars
<1>3. EconomicsInRange' /\ ActiveTyped' /\ Aside
  BY <1>1 DEF vars, EconomicsInRange, ActiveTyped, Active, Aside, tokenVars,
              policyVars, economyVars, betVars, TreasuryBalance
<1>4. QED
  BY <1>2, <1>3

(* Types are preserved, and a step is one of the three bet operations or an   *)
(* aside: the case split every later invariant uses.                          *)
LEMMA StepCases ==
  ASSUME TypeInv, [Next]_vars
  PROVE  TypeInv' /\ (Betting \/ Aside)
<1>1. CASE Betting
  BY <1>1, PlaceTypeInv, SettleTypeInv, RefundTypeInv DEF Betting
<1>2. CASE Governing
  BY <1>2, PolicyStep DEF Governing
<1>3. CASE Operating
  BY <1>3, OperatingStep
<1>4. CASE TokenHolding
  BY <1>4, TokenStep
<1>5. CASE Tick
  BY <1>5, TickStep
<1>6. CASE UNCHANGED vars
  BY <1>6, StutterStep
<1>7. QED
  BY <1>1, <1>2, <1>3, <1>4, <1>5, <1>6 DEF Next

LEMMA TypeInvariant == Spec => []TypeInv
<1>1. TypeInv /\ [Next]_vars => TypeInv'
  BY StepCases
<1>2. QED
  BY <1>1, TypeInvInit, PTL DEF Spec

(* The variables keep their types: in particular no balance is ever negative, *)
(* so no transfer or burn the game makes exceeds what the treasury holds.     *)
THEOREM TypeCorrect == Spec => []TypeOK
BY TypeInvariant, PTL DEF TypeInv

(* No sequence of governance calls takes the economy out of its range.        *)
THEOREM EconomyStaysInRange == Spec => []EconomicsInRange
BY TypeInvariant, PTL DEF TypeInv

------------------------------------------------------------------------------
(* The bet records                                                           *)

(* What is true of the open bet beside its type: it is drawn on a tier that    *)
(* exists, against the current head, nothing has been paid for it, and its     *)
(* winning payout is still what it was when it was placed.                     *)
ActiveFresh ==
  activeBetId # 0 =>
    /\ Active.commit = currentCommit
    /\ Active.reveal = NoReveal
    /\ received[activeBetId] = 0
    /\ quoted[activeBetId] = PayoutFor(Active.tier, Active.stake)

(* Records that are not placed yet are blank.                                  *)
FutureBlank ==
  \A b \in BetId : b > betCounter =>
    bets[b].reveal = NoReveal /\ ~bets[b].settled /\ received[b] = 0

RecordInv ==
  /\ activeBetId <= betCounter
  /\ OneOpenBet /\ ActiveFresh /\ FutureBlank
  /\ RevealOpensCommit /\ PaidAsPromised /\ WinWithinCap

LEMMA RecordInvInit == Init => RecordInv
<1> SUFFICES ASSUME Init PROVE RecordInv
  OBVIOUS
<1>1. \A b \in BetId : bets[b].reveal = NoReveal /\ ~bets[b].settled /\ received[b] = 0
  BY DEF Init, EmptyBet
<1>2. activeBetId = 0 /\ betCounter = 0 /\ \A b \in BetId : b > 0
  BY DEF Init, BetId
<1>3. OneOpenBet
  BY <1>2 DEF OneOpenBet, BetId
<1>4. FutureBlank /\ RevealOpensCommit
  BY <1>1 DEF FutureBlank, RevealOpensCommit
<1>5. PaidAsPromised
  BY <1>1, Zenon DEF PaidAsPromised, Promised
<1>6. activeBetId <= betCounter /\ ActiveFresh /\ WinWithinCap
  BY <1>2 DEF ActiveFresh, WinWithinCap
<1>7. QED
  BY <1>3, <1>4, <1>5, <1>6 DEF RecordInv

(* An aside keeps the records: the open bet's head, economy and cover stay.    *)
LEMMA AsideRecordInv ==
  ASSUME TypeInv, TypeInv', RecordInv, Aside
  PROVE  RecordInv'
<1> USE DEF RecordInv
<1>1. UNCHANGED betVars /\ UNCHANGED <<betCounter, activeBetId, bets, quoted, received>>
  BY DEF Aside, betVars
<1>2. /\ (activeBetId <= betCounter)' /\ OneOpenBet' /\ FutureBlank'
      /\ RevealOpensCommit' /\ PaidAsPromised'
  BY <1>1 DEF OneOpenBet, FutureBlank, RevealOpensCommit, PaidAsPromised, Promised,
              Wins
<1>3. CASE activeBetId = 0
  BY <1>1, <1>2, <1>3 DEF ActiveFresh, WinWithinCap
<1>4. CASE activeBetId # 0
  <2>1. /\ UNCHANGED <<minBet, treasuryFloor, edgeNum, edgeDen, solvencyCapDen>>
        /\ UNCHANGED currentCommit
        /\ TreasuryBalance' >= TreasuryBalance
    BY <1>4 DEF Aside, economyVars
  <2>2. Active' = Active /\ Active \in Bet /\ Active.stake \in Nat /\ Active.tier \in Nat
    BY <1>1, <1>4 DEF Active, TypeInv, TypeOK, BetId, Bet
  <2>3. PayoutFor(Active.tier, Active.stake)' = PayoutFor(Active.tier, Active.stake)
    BY <2>1, <2>2 DEF PayoutFor
  <2>4. ActiveFresh'
    BY <1>1, <1>4, <2>1, <2>2, <2>3 DEF ActiveFresh
  <2>5. WinWithinCap'
    <3> DEFINE pay == PayoutFor(Active.tier, Active.stake)
               before == TreasuryBalance - Active.stake
               after == TreasuryBalance' - Active.stake
    <3>1. pay \in Nat /\ solvencyCapDen \in Nat \ {0}
      <4>1. pay \in Nat
        BY <2>2, PayoutType DEF TypeInv
      <4>2. solvencyCapDen \in Nat \ {0}
        BY DEF TypeInv, TypeOK, EconomicsInRange, MIN_SOLVENCY_CAP_DEN
      <4>3. QED
        BY <4>1, <4>2
    <3>2. TreasuryBalance \in Nat /\ TreasuryBalance' \in Nat
      BY AccountFacts DEF TypeInv, TypeOK, TokenTypeOK, TreasuryBalance
    <3>3. before \in Nat /\ after \in Nat /\ before <= after /\ pay <= before \div solvencyCapDen
      BY <1>4, <2>1, <2>2, <3>2 DEF WinWithinCap
    <3>4. pay * solvencyCapDen <= (before \div solvencyCapDen) * solvencyCapDen
      BY <3>1, <3>3, DivBounds, MulMono
    <3>5. (before \div solvencyCapDen) * solvencyCapDen <= before
      BY <3>1, <3>3, DivBounds
    <3>6. pay * solvencyCapDen <= after
      <4>. HIDE DEF pay, before, after
      <4>1. /\ pay * solvencyCapDen \in Nat
            /\ (before \div solvencyCapDen) * solvencyCapDen \in Nat
        BY <3>1, <3>3, DivBounds, SMTT(30)
      <4>2. QED
        BY <3>3, <3>4, <3>5, <4>1
    <3>7. pay <= after \div solvencyCapDen
      BY <3>1, <3>3, <3>6, DivAtLeast
    <3>8. Active.stake <= TreasuryBalance'
      BY <2>2, <3>2, <3>3
    <3>9. QED
      BY <1>1, <2>1, <2>2, <2>3, <3>7, <3>8 DEF WinWithinCap
  <2>6. QED
    BY <1>2, <2>4, <2>5
<1>5. QED
  BY <1>3, <1>4

LEMMA PlaceRecordInv ==
  ASSUME TypeInv, TypeInv', RecordInv, NEW p \in Players, NEW t \in Tiers,
         NEW s \in Stakes, NEW c \in Seeds, placeBet(p, t, s, c)
  PROVE  RecordInv'
<1> USE DEF RecordInv
<1>0. PICK id \in BetId : id = betCounter + 1
  BY DEF placeBet, TypeInv, TypeOK, BetId
<1>1. /\ t \in Nat /\ s \in Nat /\ activeBetId = 0 /\ id \in BetId
      /\ betCounter' = id /\ activeBetId' = id /\ s <= MaxBet(t)
      /\ betCounter \in Nat
  BY <1>0, InputAssumption DEF placeBet, TypeInv, TypeOK, BetId
<1>2. /\ bets' = [bets EXCEPT ![id] =
           [player |-> p, tier |-> t, settled |-> FALSE, placedAt |-> now,
            stake |-> s, clientSeed |-> c, commit |-> currentCommit,
            reveal |-> NoReveal]]
      /\ quoted' = [quoted EXCEPT ![id] = PayoutFor(t, s)]
      /\ received' = received /\ currentCommit' = currentCommit
      /\ balance' = Moved(balance, p, Treasury, s)
      /\ UNCHANGED <<edgeNum, edgeDen, solvencyCapDen>>
  BY <1>0 DEF placeBet, policyVars, economyVars
<1>3. DOMAIN bets = BetId /\ DOMAIN quoted = BetId
  BY DEF TypeInv, TypeOK
<1>4. /\ bets'[id].tier = t /\ bets'[id].stake = s /\ ~bets'[id].settled
      /\ bets'[id].commit = currentCommit /\ bets'[id].reveal = NoReveal
      /\ bets'[id].clientSeed = c
      /\ quoted'[id] = PayoutFor(t, s)
      /\ \A b \in BetId : b # id => bets'[b] = bets[b] /\ quoted'[b] = quoted[b]
  BY <1>1, <1>2, <1>3
<1>5. \A b \in BetId : b # id => (b <= id <=> b <= betCounter)
  BY <1>0, <1>1 DEF BetId
<1>6. received[id] = 0
  BY <1>0, <1>1 DEF FutureBlank
<1>7. OneOpenBet'
  <2>1. \A b \in BetId : b # id => bets[b].settled \/ b > betCounter
    BY <1>1 DEF OneOpenBet, BetId
  <2>2. QED
    BY <1>1, <1>4, <1>5, <2>1 DEF OneOpenBet, BetId
<1>8. PayoutFor(t, s)' = PayoutFor(t, s)
  BY <1>2 DEF PayoutFor
<1>9. ActiveFresh'
  BY <1>1, <1>2, <1>4, <1>6, <1>8 DEF ActiveFresh, Active, PayoutFor
<1>10. FutureBlank'
  BY <1>1, <1>2, <1>4, <1>5 DEF FutureBlank, BetId
<1>11. RevealOpensCommit'
  BY <1>4 DEF RevealOpensCommit
<1>12. PaidAsPromised'
  <2>1. ASSUME NEW b \in BetId, b # id
        PROVE  Promised(b)' = Promised(b)
    BY <1>4, <2>1 DEF Promised, Wins
  <2>2. Promised(id)' = 0
    BY <1>1, <1>4 DEF Promised
  <2>3. QED
    BY <1>1, <1>2, <1>6, <2>1, <2>2 DEF PaidAsPromised
<1>13. WinWithinCap'
  <2>1. /\ balance[Treasury] \in Nat /\ edgeNum \in Nat \ {0} /\ edgeDen \in Nat \ {0}
        /\ solvencyCapDen \in Nat \ {0}
    BY AccountFacts DEF TypeInv, TypeOK, TokenTypeOK, EconomicsInRange, MIN_SOLVENCY_CAP_DEN
  <2>2. PayoutFor(t, s) <= balance[Treasury] \div solvencyCapDen
    BY <1>1, <2>1, OddsPositive, MaxBetBoundsPayout DEF MaxBet, PayoutFor, TreasuryBalance
  <2>3. balance'[Treasury] = balance[Treasury] + s
    BY <1>1, <1>2, <2>1, AccountFacts DEF Moved
  <2>4. /\ Active' = bets'[id] /\ TreasuryBalance' = balance[Treasury] + s
        /\ Active'.stake = s /\ Active'.tier = t
    BY <1>1, <1>4, <2>3 DEF Active, TreasuryBalance
  <2>5. balance[Treasury] = TreasuryBalance' - s /\ s <= TreasuryBalance'
    BY <1>1, <2>1, <2>4
  <2>6. PayoutFor(Active.tier, Active.stake)' = PayoutFor(t, s)
    BY <1>2, <2>4 DEF PayoutFor
  <2>7. QED
    BY <1>2, <2>2, <2>4, <2>5, <2>6 DEF WinWithinCap
<1>14. QED
  BY <1>0, <1>1, <1>7, <1>9, <1>10, <1>11, <1>12, <1>13

LEMMA SettleRecordInv ==
  ASSUME TypeInv, RecordInv, NEW r \in Reveals, settleBet(r)
  PROVE  RecordInv'
<1> USE DEF RecordInv
<1>0. PICK id \in BetId : id = activeBetId
  BY DEF settleBet, TypeInv, TypeOK, BetId
<1> DEFINE payout == IF Wins(r, Active, id) THEN PayoutFor(Active.tier, Active.stake) ELSE 0
<1>1. /\ id = activeBetId /\ id \in BetId /\ id # 0 /\ activeBetId' = 0 /\ keccak[r] = currentCommit
      /\ bets' = [bets EXCEPT ![id] = Drawn(@, r)]
      /\ received' = [received EXCEPT ![id] = @ + payout]
      /\ UNCHANGED <<betCounter, quoted>>
  BY <1>0 DEF settleBet, TypeInv, TypeOK, BetId
<1>2. DOMAIN bets = BetId /\ DOMAIN received = BetId /\ bets[id] \in Bet
      /\ Active = bets[id]
  BY <1>1 DEF TypeInv, TypeOK, Active
<1>3. /\ bets'[id].settled /\ bets'[id].reveal = r
      /\ bets'[id].commit = bets[id].commit /\ bets'[id].tier = bets[id].tier
      /\ bets'[id].clientSeed = bets[id].clientSeed
      /\ \A b \in BetId : b # id => bets'[b] = bets[b] /\ received'[b] = received[b]
  BY <1>1, <1>2 DEF Drawn, Bet
<1>4. OneOpenBet'
  <2>1. \A b \in BetId : b # 0
    BY DEF BetId
  <2>2. QED
    BY <1>1, <1>3, <2>1 DEF OneOpenBet
<1>5. ActiveFresh' /\ WinWithinCap' /\ (activeBetId <= betCounter)'
  BY <1>1 DEF ActiveFresh, WinWithinCap, TypeInv, TypeOK
<1>6. FutureBlank'
  <2>1. ~(id > betCounter)
    BY <1>1 DEF BetId, TypeInv, TypeOK
  <2>2. QED
    BY <1>1, <1>3, <2>1 DEF FutureBlank
<1>7. RevealOpensCommit'
  BY <1>1, <1>2, <1>3 DEF RevealOpensCommit, ActiveFresh
<1>8. PaidAsPromised'
  <2>1. NoReveal # r
    BY GameAssumption
  <2>2. payout \in Nat
    BY <1>2, PayoutType DEF TypeInv, Bet
  <2>3. received'[id] = payout
    <3>1. received'[id] = received[id] + payout /\ received[id] = 0
      BY <1>1, <1>2 DEF ActiveFresh
    <3>. HIDE DEF payout
    <3>2. QED
      BY <2>2, <3>1
  <2>4. payout = IF Wins(r, bets'[id], id) THEN quoted[id] ELSE 0
    BY <1>1, <1>2, <1>3 DEF Wins, ActiveFresh
  <2>5. Promised(id)' = payout
    <3>1. Wins(r, bets'[id], id) <=> Wins(bets'[id].reveal, bets'[id], id)
      BY <1>3
    <3>2. QED
      BY <1>1, <1>3, <2>1, <2>4, <3>1 DEF Promised, Wins
  <2>6. ASSUME NEW b \in BetId, b # id
        PROVE  Promised(b)' = Promised(b)
    BY <1>1, <1>3, <2>6 DEF Promised, Wins
  <2>. HIDE DEF payout
  <2>7. QED
    BY <1>1, <1>3, <2>3, <2>5, <2>6 DEF PaidAsPromised
<1>9. QED
  BY <1>4, <1>5, <1>6, <1>7, <1>8

LEMMA RefundRecordInv ==
  ASSUME TypeInv, RecordInv, NEW id \in BetId, refund(id)
  PROVE  RecordInv'
<1> USE DEF RecordInv
<1>1. /\ id = activeBetId /\ id # 0 /\ activeBetId' = 0
      /\ bets' = [bets EXCEPT ![id] = Refunded(@)]
      /\ received' = [received EXCEPT ![id] = @ + bets[id].stake]
      /\ UNCHANGED <<betCounter, quoted>>
  BY DEF refund, MayRefund, BetId
<1>2. DOMAIN bets = BetId /\ DOMAIN received = BetId /\ bets[id] \in Bet
      /\ Active = bets[id] /\ bets[id].stake \in Nat
  BY <1>1 DEF TypeInv, TypeOK, Active, Bet
<1>3. /\ bets'[id].settled /\ bets'[id].reveal = bets[id].reveal
      /\ bets'[id].stake = bets[id].stake
      /\ \A b \in BetId : b # id => bets'[b] = bets[b] /\ received'[b] = received[b]
  BY <1>1, <1>2 DEF Refunded, Bet
<1>4. bets[id].reveal = NoReveal /\ received[id] = 0
  BY <1>1, <1>2 DEF ActiveFresh
<1>5. OneOpenBet'
  <2>1. \A b \in BetId : b # 0
    BY DEF BetId
  <2>2. QED
    BY <1>1, <1>3, <2>1 DEF OneOpenBet
<1>6. ActiveFresh' /\ WinWithinCap' /\ (activeBetId <= betCounter)'
  BY <1>1 DEF ActiveFresh, WinWithinCap, TypeInv, TypeOK
<1>7. FutureBlank'
  <2>1. ~(id > betCounter)
    BY <1>1 DEF BetId, TypeInv, TypeOK
  <2>2. QED
    BY <1>1, <1>3, <2>1 DEF FutureBlank
<1>8. RevealOpensCommit'
  BY <1>3, <1>4 DEF RevealOpensCommit
<1>9. PaidAsPromised'
  <2>1. received'[id] = bets[id].stake
    BY <1>1, <1>2, <1>4
  <2>2. Promised(id)' = bets[id].stake
    BY <1>1, <1>3, <1>4 DEF Promised
  <2>3. ASSUME NEW b \in BetId, b # id
        PROVE  Promised(b)' = Promised(b)
    BY <1>1, <1>3, <2>3 DEF Promised, Wins
  <2>4. QED
    BY <1>1, <1>3, <2>1, <2>2, <2>3 DEF PaidAsPromised
<1>10. QED
  BY <1>5, <1>6, <1>7, <1>8, <1>9

LEMMA RecordInvStep ==
  ASSUME TypeInv, RecordInv, [Next]_vars
  PROVE  RecordInv'
<1>1. TypeInv' /\ (Betting \/ Aside)
  BY StepCases
<1>2. CASE Aside
  BY <1>1, <1>2, AsideRecordInv
<1>3. CASE Betting
  BY <1>1, <1>3, PlaceRecordInv, SettleRecordInv, RefundRecordInv DEF Betting
<1>4. QED
  BY <1>1, <1>2, <1>3

LEMMA RecordInvariant == Spec => []RecordInv
BY RecordInvStep, RecordInvInit, TypeInvariant, PTL DEF Spec

------------------------------------------------------------------------------
(* The theorems                                                              *)

(* Exactly the active bet is open: none is stranded, none is closed twice.     *)
THEOREM ExactlyOneOpenBet == Spec => []OneOpenBet
BY RecordInvariant, PTL DEF RecordInv

(* A win of the open bet is within 1/solvencyCapDen of the pool it joined.     *)
THEOREM WinsWithinCap == Spec => []WinWithinCap
BY RecordInvariant, PTL DEF RecordInv

(* A drawn bet was drawn by the preimage of the commitment it was placed on.   *)
THEOREM CommitmentsHold == Spec => []RevealOpensCommit
BY RecordInvariant, PTL DEF RecordInv

(* Every bet pays exactly what was promised, exactly once.                     *)
THEOREM PaysAsPromised == Spec => []PaidAsPromised
BY RecordInvariant, PTL DEF RecordInv

(* The cap leaves room for the burn at its highest rate: a twentieth of the    *)
(* pool for the win and a tenth of the stake for the burn, out of the pool     *)
(* and the stake.                                                              *)
LEMMA CapImpliesSolvent == TypeInv /\ WinWithinCap => Solvent
<1> SUFFICES ASSUME TypeInv, WinWithinCap, activeBetId # 0 PROVE Solvent
  BY DEF Solvent
<1> DEFINE pay == PayoutFor(Active.tier, Active.stake)
           stake == Active.stake
           pool == TreasuryBalance - Active.stake
           cap == solvencyCapDen
           burn == (stake * MAX_BURN_RATE_BPS) \div BPS_DEN
<1>1. stake \in Nat /\ Active.tier \in Nat /\ cap \in Nat /\ cap >= 20
  BY DEF TypeInv, TypeOK, BetId, Bet, Active, EconomicsInRange, MIN_SOLVENCY_CAP_DEN
<1>2. TreasuryBalance \in Nat
  BY AccountFacts DEF TypeInv, TypeOK, TokenTypeOK, TreasuryBalance
<1>3. stake <= TreasuryBalance /\ pay <= pool \div cap
  BY DEF WinWithinCap
<1>4. pay \in Nat
  BY <1>1, PayoutType DEF TypeInv
<1>5. pool \in Nat
  BY <1>1, <1>2, <1>3
<1>6. pay <= pool
  <2>1. (pool \div cap) * cap <= pool /\ pool \div cap \in Nat
    BY <1>1, <1>5, DivBounds
  <2>2. pool \div cap <= (pool \div cap) * cap
    BY <1>1, <2>1, SMTT(30)
  <2>. HIDE DEF pay, pool, cap
  <2>3. (pool \div cap) * cap \in Nat
    BY <1>1, <2>1
  <2>4. QED
    BY <1>3, <1>4, <1>5, <2>1, <2>2, <2>3
<1>7. burn \in Nat /\ burn <= stake
  BY <1>1 DEF MAX_BURN_RATE_BPS, BPS_DEN
<1>8. pay + burn <= TreasuryBalance
  <2>. HIDE DEF pay, burn
  <2>1. QED
    BY <1>1, <1>2, <1>4, <1>6, <1>7
<1>9. QED
  BY <1>3, <1>8 DEF Solvent

(* While a bet is open the treasury can pay whatever it comes to, the burn     *)
(* included, so the single betting slot can always be freed.                   *)
THEOREM AlwaysSolvent == Spec => []Solvent
BY TypeInvariant, RecordInvariant, CapImpliesSolvent, PTL DEF RecordInv

(* Stored bets never change their terms, and closed ones never change at all.  *)
THEOREM StoredBetsAreEvidence == Spec => BetsAreEvidence
<1> DEFINE Kept == \A b \in 1..betCounter : /\ Terms(bets'[b]) = Terms(bets[b])
                                            /\ bets[b].settled => bets'[b] = bets[b]
<1>1. ASSUME TypeInv, RecordInv, [Next]_vars PROVE [Kept]_vars
  <2>1. bets \in [BetId -> Bet] /\ betCounter \in 0..MaxBets /\ 1..betCounter \subseteq BetId
    BY <1>1, GameAssumption DEF TypeInv, TypeOK, BetId
  <2>2. Betting \/ Aside
    BY <1>1, StepCases
  <2>3. CASE Aside
    BY <2>3 DEF Aside, betVars
  <2>4. ASSUME NEW p \in Players, NEW t \in Tiers, NEW s \in Stakes, NEW c \in Seeds,
               placeBet(p, t, s, c)
        PROVE  Kept
    <3>1. \A b \in 1..betCounter : bets'[b] = bets[b]
      BY <2>1, <2>4 DEF placeBet
    <3>2. QED
      BY <3>1
  <2>5. ASSUME NEW r \in Reveals, settleBet(r)
        PROVE  Kept
    <3>1. activeBetId \in BetId /\ ~bets[activeBetId].settled
      BY <1>1, <2>5 DEF settleBet, RecordInv, OneOpenBet, TypeInv, TypeOK, BetId
    <3>2. Terms(Drawn(bets[activeBetId], r)) = Terms(bets[activeBetId])
      BY <2>1, <3>1 DEF Terms, Drawn, Bet
    <3>3. QED
      BY <2>1, <2>5, <3>1, <3>2 DEF settleBet
  <2>6. ASSUME NEW id \in BetId, refund(id)
        PROVE  Kept
    <3>1. ~bets[id].settled
      BY <1>1, <2>6 DEF refund, MayRefund, RecordInv, OneOpenBet
    <3>2. Terms(Refunded(bets[id])) = Terms(bets[id])
      BY <2>1 DEF Terms, Refunded, Bet
    <3>3. QED
      BY <2>1, <2>6, <3>1, <3>2 DEF refund
  <2>7. QED
    BY <2>2, <2>3, <2>4, <2>5, <2>6 DEF Betting
<1>2. QED
  BY <1>1, TypeInvariant, RecordInvariant, PTL DEF Spec, BetsAreEvidence

(* Between bets the treasury is never taken below the floor.                   *)
THEOREM ReserveIsKept == Spec => ReserveKept
<1> DEFINE Kept == activeBetId = 0 /\ TreasuryBalance' < TreasuryBalance
                     => TreasuryBalance' >= treasuryFloor
<1>1. ASSUME TypeInv, [Next]_vars PROVE [Kept]_vars
  <2>1. balance[Treasury] \in Nat
    BY <1>1, AccountFacts DEF TypeInv, TypeOK, TokenTypeOK
  <2>2. CASE Aside
    BY <2>2 DEF Aside
  <2>3. CASE Betting
    <3>1. ASSUME NEW p \in Players, NEW t \in Tiers, NEW s \in Stakes, NEW c \in Seeds,
                 placeBet(p, t, s, c)
          PROVE  TreasuryBalance' >= TreasuryBalance
      BY <2>1, <3>1, InputAssumption, AccountFacts DEF placeBet, Moved, TreasuryBalance
    <3>2. ASSUME \/ \E r \in Reveals : settleBet(r)
                 \/ \E b \in BetId : refund(b)
          PROVE  activeBetId # 0
      BY <3>2 DEF settleBet, refund, MayRefund, BetId
    <3>3. TreasuryBalance' < TreasuryBalance /\ TreasuryBalance' >= TreasuryBalance => FALSE
      <4>1. TreasuryBalance \in Nat /\ TreasuryBalance' \in Nat
        BY <1>1, StepCases, AccountFacts DEF TypeInv, TypeOK, TokenTypeOK, TreasuryBalance
      <4>2. QED
        BY <4>1
    <3>4. QED
      BY <2>3, <3>1, <3>2, <3>3 DEF Betting
  <2>4. QED
    BY <1>1, <2>2, <2>3, StepCases
<1>2. QED
  BY <1>1, TypeInvariant, PTL DEF Spec, ReserveKept

(* The economy is not touched while a bet is open, nor while it is locked.     *)
THEOREM EconomyIsFrozen == Spec => EconomyFrozen
<1> DEFINE Kept == activeBetId # 0 \/ ~economicsGovernable => UNCHANGED economyVars
<1>1. ASSUME TypeInv, [Next]_vars PROVE [Kept]_vars
  <2>1. CASE Aside
    BY <2>1 DEF Aside
  <2>2. CASE Betting
    BY <2>2 DEF Betting, placeBet, settleBet, refund, policyVars
  <2>3. QED
    BY <1>1, <2>1, <2>2, StepCases
<1>2. QED
  BY <1>1, TypeInvariant, PTL DEF Spec, EconomyFrozen

------------------------------------------------------------------------------
(* The supply                                                                *)

(* Every set of natural numbers that is not empty has a least element: the    *)
(* form of induction used below.  (The intervals 1..k of its members have one *)
(* that includes no other.)                                                  *)
LEMMA LeastNatural ==
  ASSUME NEW S \in SUBSET Nat, S # {}
  PROVE  \E m \in S : \A k \in S : m <= k
<1> DEFINE T == {1..k : k \in S}
           R == StrictSubsetOrdering(Nat)
<1>1. T \subseteq FiniteSubsetsOf(Nat) /\ T # {}
  <2>1. \A k \in S : 1..k \in SUBSET Nat /\ IsFiniteSet(1..k)
    BY FS_Interval
  <2>2. QED
    BY <2>1 DEF FiniteSubsetsOf
<1>2. IsWellFoundedOn(R, FiniteSubsetsOf(Nat))
  BY FS_StrictSubsetOrderingWellFounded
<1>3. PICK t \in T : \A u \in T : ~(<<u, t>> \in R)
  <2> HIDE DEF T, R
  <2>1. QED
    BY <1>1, <1>2, WFMin
<1>4. PICK m \in S : t = 1..m
  BY <1>3
<1>5. ASSUME NEW k \in S, k < m PROVE FALSE
  <2>1. 1..k \in T
    OBVIOUS
  <2>2. m \in 1..m /\ m \notin 1..k /\ 1..k \subseteq 1..m
    BY <1>5
  <2>3. <<1..k, 1..m>> \in R
    BY <2>2 DEF StrictSubsetOrdering
  <2>4. QED
    BY <1>3, <1>4, <2>1, <2>3
<1>6. QED
  BY <1>5

(* The element a fold takes from a set first.                                 *)
FirstOf(s) == CHOOSE x \in s : TRUE

(* A table h of the sums of f over the sets of accounts in `sets`.             *)
SumTable(h, f, sets) ==
  \A s \in sets : h[s] = IF s = {} THEN 0 ELSE f[FirstOf(s)] + h[s \ {FirstOf(s)}]

UpTo(n) == {s \in SUBSET Account : Cardinality(s) < n}

LEMMA SubsetFacts ==
  /\ \A s \in SUBSET Account : Cardinality(s) \in Nat
  /\ \A s \in SUBSET Account : s # {} =>
       /\ FirstOf(s) \in s /\ s \ {FirstOf(s)} \in SUBSET Account
       /\ Cardinality(s \ {FirstOf(s)}) = Cardinality(s) - 1
  /\ UpTo(Cardinality(Account) + 1) = SUBSET Account
<1>1. \A s \in SUBSET Account : /\ IsFiniteSet(s) /\ Cardinality(s) \in Nat
                                /\ Cardinality(s) <= Cardinality(Account)
  BY FiniteAssumption, FS_Subset, FS_CardinalityType
<1>2. \A s \in SUBSET Account : s # {} =>
        /\ FirstOf(s) \in s /\ s \ {FirstOf(s)} \in SUBSET Account
        /\ Cardinality(s \ {FirstOf(s)}) = Cardinality(s) - 1
  BY <1>1, FS_RemoveElement DEF FirstOf
<1>3. Cardinality(Account) \in Nat
  BY FiniteAssumption, FS_CardinalityType
<1>4. \A s \in SUBSET Account : Cardinality(s) < Cardinality(Account) + 1
  BY <1>1, <1>3
<1>5. QED
  BY <1>1, <1>2, <1>4 DEF UpTo

(* Such a table exists: one for the sets of m - 1 elements at most is extended *)
(* to the sets of m.                                                         *)
LEMMA SumTableExists ==
  ASSUME NEW f \in [Account -> Int], NEW n \in Nat
  PROVE  \E h \in [SUBSET Account -> Int] : SumTable(h, f, UpTo(n))
<1> DEFINE Bad == {k \in Nat : ~ \E h \in [SUBSET Account -> Int] : SumTable(h, f, UpTo(k))}
<1>1. SUFFICES ASSUME Bad # {} PROVE FALSE
  OBVIOUS
<1>2. PICK m \in Bad : \A k \in Bad : m <= k
  BY <1>1, LeastNatural
<1>3. m # 0
  <2>1. UpTo(0) = {}
    BY SubsetFacts DEF UpTo
  <2>2. [s \in SUBSET Account |-> 0] \in [SUBSET Account -> Int]
    OBVIOUS
  <2>3. QED
    BY <2>1, <2>2 DEF SumTable
<1>4. m - 1 \in Nat /\ m - 1 \notin Bad
  <2>1. m \in Nat /\ m - 1 \in Nat /\ ~(m <= m - 1)
    BY <1>2, <1>3
  <2>2. QED
    BY <1>2, <2>1
<1>5. PICK h \in [SUBSET Account -> Int] : SumTable(h, f, UpTo(m - 1))
  BY <1>4
<1> DEFINE g == [s \in SUBSET Account |->
                   IF s \in UpTo(m - 1) THEN h[s]
                   ELSE IF s = {} THEN 0 ELSE f[FirstOf(s)] + h[s \ {FirstOf(s)}]]
<1>6. g \in [SUBSET Account -> Int]
  BY SubsetFacts
<1>7. ASSUME NEW s \in UpTo(m)
      PROVE  g[s] = IF s = {} THEN 0 ELSE f[FirstOf(s)] + g[s \ {FirstOf(s)}]
  <2>1. s \in SUBSET Account /\ Cardinality(s) < m
    BY DEF UpTo
  <2>2. s # {} => s \ {FirstOf(s)} \in UpTo(m - 1)
    BY <2>1, SubsetFacts DEF UpTo
  <2>3. s # {} => g[s \ {FirstOf(s)}] = h[s \ {FirstOf(s)}]
    BY <2>1, <2>2, SubsetFacts
  <2>4. g[s] = IF s = {} THEN 0 ELSE f[FirstOf(s)] + h[s \ {FirstOf(s)}]
    BY <1>5, <2>1, SubsetFacts DEF SumTable
  <2>5. QED
    BY <2>3, <2>4
<1>8. SumTable(g, f, UpTo(m))
  BY <1>7 DEF SumTable
<1>9. QED
  BY <1>6, <1>8, <1>2

(* So the fold of the community modules, a recursive function on the subsets   *)
(* of its domain, is one: its value at Account is the sum.                    *)
LEMMA FoldIsSumTable ==
  ASSUME NEW f \in [Account -> Int]
  PROVE  \E h : SumTable(h, f, SUBSET Account) /\ SumFunctionOnSet(f, Account) = h[Account]
<1> DEFINE IsFold(h) ==
             h = [s \in SUBSET Account |->
                    IF s = {} THEN 0
                    ELSE LET x == CHOOSE x \in s : TRUE IN f[x] + h[s \ {x}]]
           fold == CHOOSE h : IsFold(h)
<1>1. PICK h \in [SUBSET Account -> Int] : SumTable(h, f, SUBSET Account)
  <2>1. Cardinality(Account) + 1 \in Nat
    BY FiniteAssumption, FS_CardinalityType
  <2>2. PICK h \in [SUBSET Account -> Int] : SumTable(h, f, UpTo(Cardinality(Account) + 1))
    BY <2>1, SumTableExists
  <2>3. UpTo(Cardinality(Account) + 1) = SUBSET Account
    BY SubsetFacts
  <2>4. QED
    BY <2>2, <2>3
<1>2. IsFold(h)
  BY <1>1 DEF SumTable, FirstOf
<1>3. IsFold(fold)
  BY <1>2
<1>4. SumFunctionOnSet(f, Account) = fold[Account]
  BY DEF SumFunctionOnSet, FoldFunctionOnSet, MapThenFoldSet
<1>5. SumTable(fold, f, SUBSET Account)
  BY <1>3 DEF SumTable, FirstOf
<1>6. QED
  BY <1>4, <1>5

(* Changing the balance of one account changes the sum by as much.             *)
LEMMA SumOfOneChange ==
  ASSUME NEW f \in [Account -> Int], NEW g \in [Account -> Int], NEW a \in Account,
         \A x \in Account : x # a => g[x] = f[x]
  PROVE  /\ SumFunctionOnSet(f, Account) \in Int
         /\ SumFunctionOnSet(g, Account) = SumFunctionOnSet(f, Account) + (g[a] - f[a])
<1>1. PICK h : SumTable(h, f, SUBSET Account) /\ SumFunctionOnSet(f, Account) = h[Account]
  BY FoldIsSumTable
<1>2. PICK k : SumTable(k, g, SUBSET Account) /\ SumFunctionOnSet(g, Account) = k[Account]
  BY FoldIsSumTable
<1> DEFINE Shifted(s) == /\ h[s] \in Int
                         /\ k[s] = h[s] + (IF a \in s THEN g[a] - f[a] ELSE 0)
           Bad == {n \in Nat : \E s \in SUBSET Account : Cardinality(s) = n /\ ~Shifted(s)}
<1>3. Bad = {}
  <2>1. SUFFICES ASSUME Bad # {} PROVE FALSE
    OBVIOUS
  <2>2. PICK n \in Bad : \A m \in Bad : n <= m
    BY <2>1, LeastNatural
  <2>3. PICK s \in SUBSET Account : Cardinality(s) = n /\ ~Shifted(s)
    BY <2>2
  <2>4. h[{}] = 0 /\ k[{}] = 0
    BY <1>1, <1>2 DEF SumTable
  <2>5. s # {}
    BY <2>3, <2>4
  <2> DEFINE x == FirstOf(s)
             t == s \ {FirstOf(s)}
  <2>6. x \in s /\ x \in Account /\ t \in SUBSET Account /\ Cardinality(t) \in Nat /\ Cardinality(t) = n - 1 /\ n \in Nat
    BY <2>3, <2>5, SubsetFacts
  <2>7. Cardinality(t) \notin Bad
    <3>1. ~(n <= Cardinality(t))
      BY <2>6
    <3>2. QED
      BY <2>2, <3>1
  <2>8. Shifted(t)
    BY <2>6, <2>7
  <2>9. h[s] = f[x] + h[t] /\ k[s] = g[x] + k[t]
    BY <1>1, <1>2, <2>5 DEF SumTable
  <2>10. f[x] \in Int /\ g[x] \in Int /\ f[a] \in Int /\ g[a] \in Int
    BY <2>6
  <2>11. CASE x = a
    <3>1. a \notin t /\ a \in s
      BY <2>6, <2>11
    <3>2. QED
      BY <2>3, <2>8, <2>9, <2>10, <2>11, <3>1
  <2>12. CASE x # a
    <3>1. (a \in t <=> a \in s) /\ g[x] = f[x]
      BY <2>6, <2>12
    <3>2. QED
      BY <2>3, <2>8, <2>9, <2>10, <2>12, <3>1
  <2>13. QED
    BY <2>11, <2>12
<1>4. Cardinality(Account) \in Nat
  BY SubsetFacts
<1>5. Shifted(Account)
  <2>1. Cardinality(Account) \notin Bad
    BY <1>3
  <2>2. QED
    BY <1>4, <2>1
<1>6. QED
  BY <1>1, <1>2, <1>5

(* A transfer keeps the sum, also one from an account to itself.               *)
LEMMA MovedKeepsSum ==
  ASSUME NEW bal \in [Account -> Int], NEW from \in Account, NEW to \in Account,
         NEW amount \in Int
  PROVE  SumFunctionOnSet(Moved(bal, from, to, amount), Account)
           = SumFunctionOnSet(bal, Account)
<1> DEFINE mid == [a \in Account |-> bal[a] - (IF a = from THEN amount ELSE 0)]
           end == Moved(bal, from, to, amount)
<1>1. mid \in [Account -> Int] /\ end \in [Account -> Int]
  BY DEF Moved
<1>2. /\ SumFunctionOnSet(bal, Account) \in Int
      /\ SumFunctionOnSet(mid, Account) = SumFunctionOnSet(bal, Account) + (mid[from] - bal[from])
  <2>1. \A x \in Account : x # from => mid[x] = bal[x]
    OBVIOUS
  <2> HIDE DEF mid
  <2>2. QED
    BY <1>1, <2>1, SumOfOneChange
<1>3. SumFunctionOnSet(end, Account) = SumFunctionOnSet(mid, Account) + (end[to] - mid[to])
  <2>1. \A x \in Account : x # to => end[x] = mid[x]
    BY DEF Moved
  <2> HIDE DEF mid, end
  <2>2. QED
    BY <1>1, <2>1, SumOfOneChange
<1>4. mid[from] - bal[from] = 0 - amount /\ end[to] - mid[to] = amount
  BY DEF Moved
<1> HIDE DEF mid, end
<1>5. SumFunctionOnSet(end, Account) = SumFunctionOnSet(bal, Account)
  BY <1>2, <1>3, <1>4
<1>6. QED
  BY <1>5 DEF end

(* A burn takes exactly its amount from the sum.                               *)
LEMMA BurnedLowersSum ==
  ASSUME NEW bal \in [Account -> Int], NEW from \in Account, NEW amount \in Int
  PROVE  /\ SumFunctionOnSet(bal, Account) \in Int
         /\ SumFunctionOnSet(Burned(bal, from, amount), Account)
              = SumFunctionOnSet(bal, Account) - amount
<1> DEFINE end == Burned(bal, from, amount)
<1>1. end \in [Account -> Int] /\ end[from] = bal[from] - amount
      /\ bal[from] \in Int /\ \A x \in Account : x # from => end[x] = bal[x]
  BY DEF Burned
<1> HIDE DEF end
<1>2. /\ SumFunctionOnSet(bal, Account) \in Int
      /\ SumFunctionOnSet(end, Account) = SumFunctionOnSet(bal, Account) + (end[from] - bal[from])
  BY <1>1, SumOfOneChange
<1>3. QED
  BY <1>1, <1>2 DEF end

(* What a step can do to the tokens: nothing, one transfer, one burn, or the    *)
(* transfer and the burn of a settlement.                                     *)
SupplyStep ==
  \/ UNCHANGED <<balance, totalSupply>>
  \/ \E from, to \in Account, paid, burnt \in Nat :
       /\ balance' = Burned(Moved(balance, from, to, paid), from, burnt)
       /\ totalSupply' = totalSupply - burnt

(* The middle of a step that moves and burns: each half is one of the above.   *)
LEMMA SupplyStepKeeps ==
  ASSUME TokenTypeOK, SupplyConserved, SupplyStep
  PROVE  SupplyConserved'
<1>1. CASE UNCHANGED <<balance, totalSupply>>
  BY <1>1 DEF SupplyConserved
<1>2. ASSUME NEW from \in Account, NEW to \in Account, NEW paid \in Nat, NEW burnt \in Nat,
             balance' = Burned(Moved(balance, from, to, paid), from, burnt),
             totalSupply' = totalSupply - burnt
      PROVE  SupplyConserved'
  <2> DEFINE mid == Moved(balance, from, to, paid)
  <2>1. balance \in [Account -> Int] /\ totalSupply \in Int /\ MAX_SUPPLY \in Int
    BY GenesisAssumption DEF TokenTypeOK
  <2>2. mid \in [Account -> Int]
    BY <2>1 DEF Moved
  <2>3. SumFunctionOnSet(mid, Account) = SumFunctionOnSet(balance, Account)
    BY <2>1, MovedKeepsSum
  <2> HIDE DEF mid
  <2>4. SumFunctionOnSet(Burned(mid, from, burnt), Account) = SumFunctionOnSet(mid, Account) - burnt
    BY <2>2, BurnedLowersSum
  <2>5. SumFunctionOnSet(balance', Account) = totalSupply'
    BY <1>2, <2>3, <2>4 DEF SupplyConserved, mid
  <2>6. totalSupply' <= MAX_SUPPLY
    BY <1>2, <2>1 DEF SupplyConserved
  <2>7. QED
    BY <2>5, <2>6 DEF SupplyConserved
<1>3. QED
  BY <1>1, <1>2 DEF SupplyStep

LEMMA MovedNothing ==
  ASSUME NEW bal \in [Account -> Nat], NEW a \in Account
  PROVE  Moved(bal, a, a, 0) = bal
BY DEF Moved

LEMMA BurnedNothing ==
  ASSUME NEW bal \in [Account -> Int], NEW a \in Account
  PROVE  Burned(bal, a, 0) = bal
BY DEF Burned

(* A transfer alone, and a burn alone.                                         *)
LEMMA TransferIsSupplyStep ==
  ASSUME TokenTypeOK, NEW from \in Account, NEW to \in Account, NEW amount \in Nat,
         balance' = Moved(balance, from, to, amount), UNCHANGED totalSupply
  PROVE  SupplyStep
<1>1. Moved(balance, from, to, amount) \in [Account -> Int]
  BY DEF TokenTypeOK, Moved
<1>2. balance' = Burned(Moved(balance, from, to, amount), from, 0)
  BY <1>1, BurnedNothing
<1>3. totalSupply' = totalSupply - 0
  BY DEF TokenTypeOK
<1>4. QED
  BY <1>2, <1>3 DEF SupplyStep

LEMMA BurnIsSupplyStep ==
  ASSUME TokenTypeOK, NEW from \in Account, NEW amount \in Nat,
         balance' = Burned(balance, from, amount), totalSupply' = totalSupply - amount
  PROVE  SupplyStep
<1>1. Moved(balance, from, from, 0) = balance
  BY MovedNothing DEF TokenTypeOK
<1>2. balance' = Burned(Moved(balance, from, from, 0), from, amount)
  BY <1>1
<1>3. QED
  BY <1>2 DEF SupplyStep

LEMMA NextIsSupplyStep ==
  ASSUME TypeInv, [Next]_vars
  PROVE  SupplyStep
<1>1. TokenTypeOK /\ Account \cap {Treasury} = {Treasury} /\ Players \subseteq Account
      /\ Holder \subseteq Account /\ Treasury \in Account
  BY DEF TypeInv, TypeOK, Account, Holder
<1>2. ASSUME NEW p \in Players, NEW t \in Tiers, NEW s \in Stakes, NEW c \in Seeds,
             placeBet(p, t, s, c)
      PROVE  SupplyStep
  BY <1>1, <1>2, InputAssumption, TransferIsSupplyStep DEF placeBet
<1>3. ASSUME NEW r \in Reveals, settleBet(r)
      PROVE  SupplyStep
  <2> DEFINE bet    == Active
             payout == IF Wins(r, bet, activeBetId) THEN PayoutFor(bet.tier, bet.stake) ELSE 0
             burn   == (bet.stake * burnRateBps) \div BPS_DEN
  <2>1. activeBetId \in BetId /\ bet \in Bet /\ bet.player \in Players
        /\ bet.stake \in Nat /\ bet.tier \in Nat
    BY <1>3 DEF settleBet, TypeInv, TypeOK, BetId, Active, Bet, ActiveTyped
  <2>2. payout \in Nat /\ burn \in Nat
    BY <2>1, PayoutType, BurnType DEF TypeInv
  <2>3. /\ balance' = Burned(Moved(balance, Treasury, bet.player, payout), Treasury, burn)
        /\ totalSupply' = totalSupply - burn
    BY <1>3 DEF settleBet
  <2> HIDE DEF payout, burn, bet
  <2>4. QED
    BY <1>1, <2>1, <2>2, <2>3 DEF SupplyStep
<1>4. ASSUME NEW b \in BetId, refund(b)
      PROVE  SupplyStep
  <2>1. b = activeBetId /\ b # 0 /\ bets[b] \in Bet
    BY <1>4 DEF refund, MayRefund, BetId, TypeInv, TypeOK
  <2>2. bets[b].player \in Players /\ bets[b].stake \in Nat
    BY <2>1 DEF ActiveTyped, TypeInv, Active, Bet
  <2>3. QED
    BY <1>1, <1>4, <2>2, TransferIsSupplyStep DEF refund
<1>5. ASSUME NEW a \in Account, NEW v \in Amounts, burnTreasuryProfit(a, v)
      PROVE  SupplyStep
  BY <1>1, <1>5, InputAssumption, BurnIsSupplyStep DEF burnTreasuryProfit
<1>6. CASE Governing
  <2>1. CASE \E a \in Account, v \in Amounts : burnTreasuryProfit(a, v)
    BY <2>1, <1>5
  <2>2. CASE ~ \E a \in Account, v \in Amounts : burnTreasuryProfit(a, v)
    <3>1. UNCHANGED tokenVars
      BY <1>6, <2>2 DEF Governing, setGovernance, setGuardian, setBurnRate,
              setEconomicsGovernable, setMinBet, setEdge, setSolvencyCap, setTreasuryFloor
    <3>2. QED
      BY <3>1 DEF tokenVars, SupplyStep
  <2>3. QED
    BY <2>1, <2>2
<1>7. CASE Operating \/ Tick \/ UNCHANGED vars
  BY <1>7 DEF Operating, rotateChain, pause, unpause, Tick, vars, tokenVars, SupplyStep
<1>8. CASE TokenHolding
  <2>1. ASSUME NEW a \in Holder, NEW b \in Account, NEW v \in Amounts, TokenTransfer(a, b, v)
        PROVE  SupplyStep
    BY <1>1, <2>1, InputAssumption, TransferIsSupplyStep DEF TokenTransfer, Transfer
  <2>2. ASSUME NEW a \in Holder, NEW v \in Amounts, TokenBurn(a, v)
        PROVE  SupplyStep
    BY <1>1, <2>2, InputAssumption, BurnIsSupplyStep DEF TokenBurn, HolderBurn
  <2>3. ASSUME NEW p \in Players, NEW v \in Approvals, TokenApprove(p, v)
        PROVE  SupplyStep
    BY <2>3 DEF TokenApprove, Approve, SupplyStep
  <2>4. QED
    BY <1>8, <2>1, <2>2, <2>3 DEF TokenHolding
<1>9. QED
  BY <1>2, <1>3, <1>4, <1>6, <1>7, <1>8 DEF Next, Betting

(* Tokens are neither created nor lost by any operation of the token, the      *)
(* treasury or the game: the balances add up to the supply for ever.           *)
THEOREM SupplyIsConserved == Spec => []SupplyConserved
<1>1. Init => SupplyConserved
  <2>1. Genesis \in [Account -> Int] /\ MAX_SUPPLY \in Nat
    BY GenesisAssumption
  <2>2. DOMAIN Genesis = Account
    BY <2>1
  <2>3. SumFunctionOnSet(Genesis, Account) = MAX_SUPPLY
    BY <2>2, GenesisSplit DEF SumFunction
  <2>4. QED
    BY <2>1, <2>3 DEF Init, TokenInit, SupplyConserved
<1>2. TypeInv /\ SupplyConserved /\ [Next]_vars => SupplyConserved'
  BY NextIsSupplyStep, SupplyStepKeeps DEF TypeInv, TypeOK
<1>3. QED
  BY <1>1, <1>2, TypeInvariant, PTL DEF Spec

(* A sum of natural numbers is one, and no less than any of its terms.         *)
LEMMA SumIsNatural ==
  ASSUME NEW f \in [Account -> Nat]
  PROVE  SumFunctionOnSet(f, Account) \in Nat
<1>1. PICK h : SumTable(h, f, SUBSET Account) /\ SumFunctionOnSet(f, Account) = h[Account]
  BY FoldIsSumTable
<1> DEFINE Bad == {n \in Nat : \E s \in SUBSET Account : Cardinality(s) = n /\ h[s] \notin Nat}
<1>2. SUFFICES Bad = {}
  BY <1>1, SubsetFacts
<1>3. SUFFICES ASSUME Bad # {} PROVE FALSE
  OBVIOUS
<1>4. PICK n \in Bad : \A m \in Bad : n <= m
  BY <1>3, LeastNatural
<1>5. PICK s \in SUBSET Account : Cardinality(s) = n /\ h[s] \notin Nat
  BY <1>4
<1>6. s # {}
  BY <1>1, <1>5 DEF SumTable
<1> DEFINE t == s \ {FirstOf(s)}
<1>7. FirstOf(s) \in Account /\ t \in SUBSET Account /\ Cardinality(t) \in Nat
      /\ ~(n <= Cardinality(t))
  BY <1>5, <1>6, SubsetFacts
<1>8. h[t] \in Nat
  BY <1>4, <1>7
<1>9. h[s] = f[FirstOf(s)] + h[t]
  BY <1>1, <1>6 DEF SumTable
<1>10. QED
  BY <1>5, <1>7, <1>8, <1>9

LEMMA TermWithinSum ==
  ASSUME NEW f \in [Account -> Nat], NEW a \in Account
  PROVE  f[a] <= SumFunctionOnSet(f, Account)
<1> DEFINE rest == [f EXCEPT ![a] = 0]
<1>1. /\ rest \in [Account -> Nat] /\ rest[a] = 0 /\ f[a] \in Nat
      /\ \A x \in Account : x # a => f[x] = rest[x]
  OBVIOUS
<1> HIDE DEF rest
<1>2. SumFunctionOnSet(rest, Account) \in Nat
  BY <1>1, SumIsNatural
<1>3. SumFunctionOnSet(f, Account) = SumFunctionOnSet(rest, Account) + (f[a] - rest[a])
  BY <1>1, SumOfOneChange
<1>4. QED
  BY <1>1, <1>2, <1>3

(* ERC20 credits an account and lowers the supply without overflow checks: it  *)
(* may, because the supply never falls below zero nor rises above what was     *)
(* minted, and no balance exceeds it.                                         *)
NoneWraps ==
  /\ totalSupply \in 0..MAX_SUPPLY
  /\ \A a \in Account : balance[a] <= totalSupply

THEOREM UncheckedArithmeticIsSafe == Spec => []NoneWraps
<1>1. ASSUME TypeInv, SupplyConserved PROVE NoneWraps
  <2>1. balance \in [Account -> Nat] /\ totalSupply \in Int
    BY <1>1 DEF TypeInv, TypeOK, TokenTypeOK
  <2>2. totalSupply \in Nat /\ \A a \in Account : balance[a] <= totalSupply
    BY <1>1, <2>1, SumIsNatural, TermWithinSum DEF SupplyConserved
  <2>3. totalSupply <= MAX_SUPPLY /\ MAX_SUPPLY \in Nat
    BY <1>1, GenesisAssumption DEF SupplyConserved
  <2>4. QED
    BY <2>2, <2>3 DEF NoneWraps
<1>2. QED
  BY <1>1, TypeInvariant, SupplyIsConserved, PTL

------------------------------------------------------------------------------
(* Refinement: the game implements the chain that the web client's modules     *)
(* are written against (ClientChain) and the safety part of the bet lifecycle  *)
(* promised to a player (BetLifecycle).  Steps that touch no bet and leave the *)
(* clock alone are stutters of both.                                        *)

ViewBets == [b \in 1..betCounter |-> [player |-> bets[b].player, state |-> StatusOf(b),
                                      placedAt |-> bets[b].placedAt]]

(* No step of governance, the guardian, the relayer's rotation or the token     *)
(* moves a bet or the clock.                                                *)
LEMMA QuietSteps ==
  ASSUME Governing \/ Operating \/ TokenHolding \/ UNCHANGED vars
  PROVE  UNCHANGED <<betVars, now>>
<1>1. CASE Governing
  BY <1>1 DEF Governing, setGovernance, setGuardian, setBurnRate, burnTreasuryProfit,
              setEconomicsGovernable, setMinBet, setEdge, setSolvencyCap, setTreasuryFloor
<1>2. CASE Operating
  BY <1>2 DEF Operating, rotateChain, pause, unpause
<1>3. CASE TokenHolding
  BY <1>3 DEF TokenHolding, TokenTransfer, TokenApprove, TokenBurn, gameVars
<1>4. CASE UNCHANGED vars
  BY <1>4 DEF vars
<1>5. QED
  BY <1>1, <1>2, <1>3, <1>4

(* The active bet is the last one placed.                                    *)
ActiveIsLast == activeBetId # 0 => activeBetId = betCounter

LEMMA LastInvariant == Spec => []ActiveIsLast
<1>1. Init => ActiveIsLast
  BY DEF Init, ActiveIsLast
<1>2. ASSUME TypeInv, ActiveIsLast, [Next]_vars PROVE ActiveIsLast'
  <2>1. CASE Betting
    BY <2>1 DEF Betting, placeBet, settleBet, refund, ActiveIsLast
  <2>2. CASE Aside
    BY <1>2, <2>2 DEF Aside, betVars, ActiveIsLast
  <2>3. QED
    BY <1>2, <2>1, <2>2, StepCases
<1>3. QED
  BY <1>1, <1>2, TypeInvariant, PTL DEF Spec

(* What the game's bets look like to a client.                                *)
LEMMA ViewFacts ==
  ASSUME TypeInv, RecordInv, ActiveIsLast
  PROVE  /\ betCounter \in Nat /\ 1..betCounter \subseteq BetId
         /\ Len(ViewBets) = betCounter /\ DOMAIN ViewBets = 1..betCounter
         /\ \A b \in 1..betCounter : ViewBets[b].state = StatusOf(b)
         /\ activeBetId \in {0, betCounter}
         /\ activeBetId # 0 => StatusOf(activeBetId) = "open"
         /\ \A b \in 1..betCounter : b # activeBetId => StatusOf(b) # "open"
<1>1. betCounter \in Nat /\ 1..betCounter \subseteq BetId /\ activeBetId \in {0, betCounter}
  BY GameAssumption DEF TypeInv, TypeOK, ActiveIsLast, BetId
<1>2. Len(ViewBets) = betCounter /\ DOMAIN ViewBets = 1..betCounter
  BY <1>1 DEF ViewBets
<1>3. \A b \in 1..betCounter : ViewBets[b].state = StatusOf(b)
  BY DEF ViewBets
<1>4. \A b \in 1..betCounter : b <= betCounter /\ b \in BetId
  BY <1>1
<1>5. \A b \in 1..betCounter : (~bets[b].settled) <=> b = activeBetId
  BY <1>4 DEF RecordInv, OneOpenBet
<1>6. \A b \in 1..betCounter : b # activeBetId => StatusOf(b) # "open"
  BY <1>1, <1>5 DEF StatusOf
<1>7. activeBetId # 0 => StatusOf(activeBetId) = "open"
  BY <1>1, <1>5 DEF StatusOf
<1>8. QED
  BY <1>1, <1>2, <1>3, <1>6, <1>7

(* The records of the client's chain.                                         *)
ViewBet == [player : Players \cup {NoOne}, placedAt : Nat,
            state : {"none", "open", "drawn", "refunded"}]

(* So it is a sequence of the records the client's chain is made of.            *)
LEMMA ViewTyped ==
  ASSUME TypeInv, RecordInv, ActiveIsLast
  PROVE  ViewBets \in Seq(ViewBet)
<1>1. \A b \in 1..betCounter : ViewBets[b] \in ViewBet
  BY ViewFacts DEF ViewBets, ViewBet, StatusOf, TypeInv, TypeOK, Bet
<1>2. QED
  BY <1>1, ViewFacts DEF ViewBets

(* The client sees the active bet as active.                                 *)
LEMMA ViewActive ==
  ASSUME TypeInv, RecordInv, ActiveIsLast
  PROVE  /\ View!activeBetId = activeBetId
         /\ activeBetId # 0 => (View!Overdue(activeBetId)
                                  <=> now >= bets[activeBetId].placedAt + SETTLE_TIMEOUT)
<1>1. View!activeBetId = IF betCounter \in 1..betCounter /\ ViewBets[betCounter].state = "open"
                         THEN betCounter ELSE 0
  BY ViewFacts DEF ViewBets, View!activeBetId, View!IsOpen, View!State
<1>2. View!activeBetId = activeBetId
  BY <1>1, ViewFacts
<1>3. ASSUME activeBetId # 0
      PROVE  View!Overdue(activeBetId) <=> now >= bets[activeBetId].placedAt + SETTLE_TIMEOUT
  BY <1>3, ViewFacts DEF View!Overdue
<1>4. QED
  BY <1>2, <1>3

------------------------------------------------------------------------------
(* The client's chain: one lemma for each kind of step                        *)

(* A placed bet is appended to the client's chain, open.                       *)
LEMMA ViewPlaced ==
  ASSUME TypeInv, TypeInv', RecordInv, RecordInv', ActiveIsLast, ActiveIsLast',
         NEW p \in Players, NEW t \in Tiers, NEW s \in Stakes, NEW c \in Seeds,
         placeBet(p, t, s, c)
  PROVE  View!Placed(p)
<1>1. /\ activeBetId = 0 /\ betCounter' = betCounter + 1 /\ activeBetId' = betCounter + 1
      /\ betCounter < MaxBets /\ now' = now
  BY GameAssumption DEF placeBet, TypeInv, TypeOK
<1>2. bets'[betCounter'].player = p /\ bets'[betCounter'].placedAt = now
  BY <1>1, ViewFacts DEF placeBet, TypeInv, TypeOK, BetId
<1>3. \A b \in 1..betCounter : bets'[b] = bets[b]
  BY <1>1, ViewFacts DEF placeBet, TypeInv, TypeOK
<1>4. \A b \in 1..betCounter : StatusOf(b)' = StatusOf(b)
  BY <1>1, <1>3, ViewFacts DEF StatusOf
<1>5. StatusOf(betCounter)' = "open"
  BY <1>1, ViewFacts DEF placeBet, StatusOf, TypeInv, TypeOK, BetId
<1> DEFINE new == [player |-> p, state |-> "open", placedAt |-> now]
<1>6. ViewBets' = Append(ViewBets, new)
  <2>1. ViewBets \in Seq(ViewBet) /\ new \in ViewBet
    BY ViewTyped, ViewFacts DEF ViewBet, TypeInv, TypeOK
  <2>2. /\ DOMAIN Append(ViewBets, new) = 1..(betCounter + 1)
        /\ Append(ViewBets, new)[betCounter + 1] = new
        /\ \A b \in 1..betCounter : Append(ViewBets, new)[b] = ViewBets[b]
        /\ Append(ViewBets, new) \in Seq(ViewBet)
    BY <2>1, ViewFacts, AppendProperties
  <2>3. \A b \in 1..betCounter : ViewBets'[b] = ViewBets[b]
    BY <1>1, <1>3, <1>4, ViewFacts DEF ViewBets
  <2>4. ViewBets'[betCounter + 1] = new /\ DOMAIN ViewBets' = 1..(betCounter + 1)
    BY <1>1, <1>2, <1>5, ViewFacts DEF ViewBets
  <2>5. ViewBets' = [b \in 1..(betCounter + 1) |-> ViewBets'[b]]
    BY <1>1 DEF ViewBets
  <2>6. Append(ViewBets, new) = [b \in 1..(betCounter + 1) |-> Append(ViewBets, new)[b]]
    <3> DEFINE a == Append(ViewBets, new)
    <3>1. a \in [1..Len(a) -> ViewBet] /\ DOMAIN a = 1..Len(a)
      BY <2>2, LenProperties
    <3>2. DOMAIN a = 1..(betCounter + 1)
      BY <2>2
    <3> HIDE DEF a
    <3>3. a = [b \in 1..(betCounter + 1) |-> a[b]]
      BY <3>1, <3>2
    <3>4. QED
      BY <3>3 DEF a
  <2>7. \A b \in 1..(betCounter + 1) : ViewBets'[b] = Append(ViewBets, new)[b]
    BY <2>2, <2>3, <2>4, ViewFacts
  <2>8. QED
    BY <2>5, <2>6, <2>7
<1>7. Len(ViewBets) < MaxBets /\ View!activeBetId = 0
  BY <1>1, ViewFacts, ViewActive
<1>8. QED
  BY <1>1, <1>6, <1>7 DEF View!Placed, ViewBets

(* A settlement turns the client's active bet into a drawn one.                 *)
LEMMA ViewSettled ==
  ASSUME TypeInv, TypeInv', RecordInv, RecordInv', ActiveIsLast,
         NEW r \in Reveals, settleBet(r)
  PROVE  View!Settled
<1>1. /\ activeBetId # 0 /\ activeBetId = betCounter /\ activeBetId \in 1..betCounter
      /\ betCounter' = betCounter /\ now' = now
  BY ViewFacts DEF settleBet
<1>2. bets' = [bets EXCEPT ![activeBetId] = Drawn(@, r)] /\ bets \in [BetId -> Bet]
  BY DEF settleBet, TypeInv, TypeOK
<1>3. /\ bets'[activeBetId].settled /\ bets'[activeBetId].reveal = r /\ r # NoReveal
      /\ bets'[activeBetId].player = bets[activeBetId].player
      /\ bets'[activeBetId].placedAt = bets[activeBetId].placedAt
  BY <1>1, <1>2, ViewFacts, GameAssumption DEF Drawn, Bet
<1>4. \A b \in 1..betCounter : b # activeBetId => bets'[b] = bets[b]
  BY <1>1, <1>2, ViewFacts
<1> DEFINE closed == [ViewBets EXCEPT ![activeBetId].state = "drawn"]
<1>5. ViewBets' = closed
  <2>1. /\ DOMAIN ViewBets' = 1..betCounter /\ DOMAIN closed = 1..betCounter
        /\ ViewBets' = [b \in 1..betCounter |-> ViewBets'[b]]
        /\ closed = [b \in 1..betCounter |-> closed[b]]
    BY <1>1 DEF ViewBets
  <2>2. ASSUME NEW b \in 1..betCounter, b # activeBetId PROVE ViewBets'[b] = closed[b]
    <3>1. StatusOf(b)' = StatusOf(b)
      BY <1>1, <1>4, <2>2, ViewFacts DEF StatusOf
    <3>2. closed[b] = ViewBets[b]
      BY <2>2 DEF ViewBets
    <3>3. ViewBets'[b] = ViewBets[b]
      BY <1>1, <1>4, <2>2, <3>1 DEF ViewBets
    <3>4. QED
      BY <3>2, <3>3
  <2>3. ViewBets'[activeBetId] = closed[activeBetId]
    <3>1. activeBetId = betCounter /\ betCounter' = betCounter
      BY <1>1, ViewFacts
    <3>2. bets'[betCounter'].settled /\ StatusOf(betCounter)' = "drawn"
      BY <1>1, <1>3, <3>1 DEF StatusOf
    <3>3. ViewBets'[betCounter] = [player |-> bets[betCounter].player, state |-> "drawn",
                                   placedAt |-> bets[betCounter].placedAt]
      BY <1>1, <1>3, <3>1, <3>2 DEF ViewBets
    <3>4. closed[activeBetId] = [ViewBets[activeBetId] EXCEPT !.state = "drawn"]
      BY <1>1 DEF ViewBets
    <3>5. ViewBets[activeBetId] = [player |-> bets[activeBetId].player,
                                   state |-> StatusOf(activeBetId),
                                   placedAt |-> bets[activeBetId].placedAt]
      BY <1>1 DEF ViewBets
    <3>6. QED
      BY <3>1, <3>3, <3>4, <3>5
  <2>4. \A b \in 1..betCounter : ViewBets'[b] = closed[b]
    BY <2>2, <2>3
  <2>5. QED
    BY <2>1, <2>4
<1>6. QED
  BY <1>1, <1>5, ViewActive DEF View!Settled, ViewBets

(* A refund closes the client's active bet, which is overdue.                  *)
LEMMA ViewRefunded ==
  ASSUME TypeInv, TypeInv', RecordInv, RecordInv', ActiveIsLast,
         NEW id \in BetId, refund(id)
  PROVE  View!Refunded(id)
<1>1. /\ id = activeBetId /\ activeBetId # 0 /\ activeBetId \in 1..betCounter
      /\ betCounter' = betCounter /\ now' = now
      /\ now >= bets[activeBetId].placedAt + SETTLE_TIMEOUT
  BY ViewFacts DEF refund, MayRefund, BetId
<1>2. bets' = [bets EXCEPT ![activeBetId] = Refunded(@)] /\ bets \in [BetId -> Bet]
  BY <1>1 DEF refund, TypeInv, TypeOK
<1>3. /\ bets'[activeBetId].settled /\ bets'[activeBetId].reveal = NoReveal
      /\ bets'[activeBetId].player = bets[activeBetId].player
      /\ bets'[activeBetId].placedAt = bets[activeBetId].placedAt
  BY <1>1, <1>2, ViewFacts DEF Refunded, Bet, RecordInv, ActiveFresh, Active
<1>4. \A b \in 1..betCounter : b # activeBetId => bets'[b] = bets[b]
  BY <1>1, <1>2, ViewFacts
<1> DEFINE closed == [ViewBets EXCEPT ![activeBetId].state = "refunded"]
<1>5. ViewBets' = closed
  <2>1. /\ DOMAIN ViewBets' = 1..betCounter /\ DOMAIN closed = 1..betCounter
        /\ ViewBets' = [b \in 1..betCounter |-> ViewBets'[b]]
        /\ closed = [b \in 1..betCounter |-> closed[b]]
    BY <1>1 DEF ViewBets
  <2>2. ASSUME NEW b \in 1..betCounter, b # activeBetId PROVE ViewBets'[b] = closed[b]
    <3>1. StatusOf(b)' = StatusOf(b)
      BY <1>1, <1>4, <2>2, ViewFacts DEF StatusOf
    <3>2. closed[b] = ViewBets[b]
      BY <2>2 DEF ViewBets
    <3>3. ViewBets'[b] = ViewBets[b]
      BY <1>1, <1>4, <2>2, <3>1 DEF ViewBets
    <3>4. QED
      BY <3>2, <3>3
  <2>3. ViewBets'[activeBetId] = closed[activeBetId]
    <3>1. activeBetId = betCounter /\ betCounter' = betCounter
      BY <1>1, ViewFacts
    <3>2. bets'[betCounter'].settled /\ StatusOf(betCounter)' = "refunded"
      BY <1>1, <1>3, <3>1 DEF StatusOf
    <3>3. ViewBets'[betCounter] = [player |-> bets[betCounter].player, state |-> "refunded",
                                   placedAt |-> bets[betCounter].placedAt]
      BY <1>1, <1>3, <3>1, <3>2 DEF ViewBets
    <3>4. closed[activeBetId] = [ViewBets[activeBetId] EXCEPT !.state = "refunded"]
      BY <1>1 DEF ViewBets
    <3>5. ViewBets[activeBetId] = [player |-> bets[activeBetId].player,
                                   state |-> StatusOf(activeBetId),
                                   placedAt |-> bets[activeBetId].placedAt]
      BY <1>1 DEF ViewBets
    <3>6. QED
      BY <3>1, <3>3, <3>4, <3>5
  <2>4. \A b \in 1..betCounter : ViewBets'[b] = closed[b]
    BY <2>2, <2>3
  <2>5. QED
    BY <2>1, <2>4
<1>6. QED
  BY <1>1, <1>5, ViewActive DEF View!Refunded, ViewBets

(* The clock moves for the client too, until the active bet is overdue.         *)
LEMMA ViewTick ==
  ASSUME TypeInv, RecordInv, ActiveIsLast, Tick
  PROVE  View!TimePasses
<1>1. activeBetId # 0 /\ now < bets[activeBetId].placedAt + SETTLE_TIMEOUT /\ now' = now + 1
  BY DEF Tick, Active
<1>2. bets[activeBetId].placedAt \in Nat /\ now \in Nat
  BY <1>1, ViewFacts DEF TypeInv, TypeOK, Bet
<1>3. ~View!Overdue(activeBetId) /\ View!activeBetId = activeBetId
  BY <1>1, <1>2, ViewActive, GameAssumption
<1>4. ViewBets' = ViewBets
  BY DEF Tick, betVars, ViewBets, StatusOf
<1>5. QED
  BY <1>1, <1>3, <1>4 DEF View!TimePasses, ViewBets

(* What touches neither the bets nor the clock is no step of the client's chain. *)
LEMMA ViewStutter ==
  ASSUME UNCHANGED <<betVars, now>>
  PROVE  UNCHANGED View!chainVars
BY DEF betVars, View!chainVars, StatusOf

(* The web client's modules rest on this: whatever governance, the relayer and   *)
(* the token do meanwhile, bets open one at a time, close once, and are refunded *)
(* only when overdue.                                                        *)
THEOREM ImplementsClientView == Spec => KeepsClientView
<1>1. Init => View!ChainInit
  <2>1. ASSUME Init PROVE ViewBets = << >>
    BY <2>1 DEF Init, ViewBets
  <2>2. QED
    BY <2>1 DEF Init, View!ChainInit, ViewBets
<1>2. ASSUME TypeInv, TypeInv', RecordInv, RecordInv', ActiveIsLast, ActiveIsLast', [Next]_vars
      PROVE  [View!ChainNext]_(View!chainVars)
  <2>1. CASE Betting
    <3>1. ASSUME NEW id \in BetId, refund(id) PROVE View!ChainNext
      <4>1. id \in DOMAIN ViewBets
        BY <1>2, <3>1, ViewFacts DEF refund, MayRefund, BetId
      <4>2. QED
        BY <1>2, <3>1, <4>1, ViewRefunded DEF View!ChainNext, ViewBets
    <3>2. QED
      BY <1>2, <2>1, <3>1, ViewPlaced, ViewSettled DEF Betting, View!ChainNext
  <2>2. CASE Tick
    BY <1>2, <2>2, ViewTick DEF View!ChainNext
  <2>3. CASE Governing \/ Operating \/ TokenHolding \/ UNCHANGED vars
    BY <2>3, QuietSteps, ViewStutter
  <2>4. QED
    BY <1>2, <2>1, <2>2, <2>3 DEF Next
<1>3. QED
  BY <1>1, <1>2, TypeInvariant, RecordInvariant, LastInvariant, PTL
  DEF Spec, KeepsClientView, View!ChainSpec

------------------------------------------------------------------------------
(* The bet lifecycle: one lemma for each kind of step                         *)

Status == [b \in BetId |-> StatusOf(b)]
Staked == [b \in BetId |-> bets[b].stake]

(* Before placement a bet is none, the active one is open, and the others are closed. *)
LEMMA StatusFacts ==
  ASSUME TypeInv, RecordInv
  PROVE  /\ \A b \in BetId : b > betCounter <=> StatusOf(b) = "none"
         /\ \A b \in BetId : StatusOf(b) = "open" <=> (b = activeBetId /\ b <= betCounter)
BY DEF StatusOf, RecordInv, OneOpenBet, BetId, TypeInv, TypeOK

(* A placed bet was none and is open, with the payout quoted.                   *)
LEMMA PlacePromise ==
  ASSUME TypeInv, TypeInv', RecordInv, RecordInv', NEW p \in Players, NEW t \in Tiers,
         NEW s \in Stakes, NEW c \in Seeds, placeBet(p, t, s, c)
  PROVE  Promise!Next
<1>0. PICK id \in BetId : id = betCounter + 1
  BY DEF placeBet, TypeInv, TypeOK, BetId
<1>1. /\ id \in BetId /\ id = betCounter + 1 /\ betCounter \in Nat /\ betCounter' = id /\ activeBetId = 0
  BY <1>0 DEF placeBet, TypeInv, TypeOK
<1>2. /\ bets \in [BetId -> Bet] /\ quoted \in [BetId -> Nat] /\ quoted' \in [BetId -> Nat]
  BY DEF TypeInv, TypeOK
<1>3. /\ bets'[id].stake = s /\ ~bets'[id].settled
      /\ \A b \in BetId : b # id => bets'[b] = bets[b]
      /\ quoted' = [quoted EXCEPT ![id] = quoted'[id]] /\ received' = received
  BY <1>1, <1>2 DEF placeBet
<1>4. /\ StatusOf(id) = "none" /\ StatusOf(id)' = "open"
      /\ \A b \in BetId : StatusOf(b) # "open" /\ (b < id => StatusOf(b) # "none")
  BY <1>1, <1>3, StatusFacts DEF StatusOf, BetId
<1>5. \A b \in BetId : b # id => StatusOf(b)' = StatusOf(b)
  BY <1>1, <1>3 DEF StatusOf, BetId
<1>6. Status' = [Status EXCEPT ![id] = "open"]
  BY <1>1, <1>4, <1>5 DEF Status
<1>7. Staked' = [Staked EXCEPT ![id] = s]
  BY <1>1, <1>3 DEF Staked
<1>8. Promise!Place(id)
  BY <1>1, <1>2, <1>3, <1>4, <1>6, <1>7 DEF Promise!Place, Promise!Bets, Status, Staked, BetId
<1>9. QED
  BY <1>1, <1>8 DEF Promise!Next, Promise!Bets, BetId

(* A bet that was open closes, and nothing of another one moves.                *)
LEMMA ClosePromise ==
  ASSUME TypeInv, RecordInv, NEW id \in BetId, id = activeBetId,
         betCounter' = betCounter, quoted' = quoted,
         NEW amount, received' = [received EXCEPT ![id] = amount],
         NEW outcome, StatusOf(id)' = outcome, bets'[id].stake = bets[id].stake,
         \A b \in BetId : b # id => bets'[b] = bets[b]
  PROVE  Promise!Close(id, outcome, amount)
<1>1. StatusOf(id) = "open"
  BY StatusFacts DEF RecordInv
<1>2. \A b \in BetId : b # id => StatusOf(b)' = StatusOf(b)
  BY DEF StatusOf
<1>3. Status' = [Status EXCEPT ![id] = outcome]
  BY <1>1, <1>2 DEF Status
<1>4. Staked' = Staked
  BY <1>1 DEF Staked
<1>5. QED
  BY <1>1, <1>3, <1>4 DEF Promise!Close, Status, Staked

(* A settlement pays the quoted prize or nothing.                               *)
LEMMA SettlePromise ==
  ASSUME TypeInv, TypeInv', RecordInv, RecordInv', NEW r \in Reveals, settleBet(r)
  PROVE  Promise!Next
<1>0. PICK id \in BetId : id = activeBetId
  BY DEF settleBet, TypeInv, TypeOK, BetId
<1>1. /\ id \in Nat \ {0} /\ id <= betCounter /\ betCounter' = betCounter
      /\ betCounter \in Nat /\ quoted' = quoted
  BY <1>0 DEF settleBet, TypeInv, TypeOK, RecordInv, BetId
<1>2. /\ bets \in [BetId -> Bet] /\ received \in [BetId -> Nat] /\ quoted \in [BetId -> Nat]
  BY DEF TypeInv, TypeOK
<1>3. bets' = [bets EXCEPT ![id] = Drawn(@, r)]
  BY <1>0 DEF settleBet
<1>4. /\ bets'[id].settled /\ bets'[id].reveal = r /\ r # NoReveal
      /\ bets'[id].stake = bets[id].stake
      /\ \A b \in BetId : b # id => bets'[b] = bets[b]
  BY <1>1, <1>2, <1>3, GameAssumption DEF Drawn, Bet
<1>5. StatusOf(id)' = "drawn"
  BY <1>1, <1>4 DEF StatusOf
<1>6. PICK amount \in {0, quoted[id]} : received'[id] = amount
  BY <1>1, <1>4 DEF RecordInv, PaidAsPromised, Promised
<1>7. received' = [received EXCEPT ![id] = amount]
  BY <1>0, <1>2, <1>6 DEF settleBet
<1>8. Promise!Close(id, "drawn", amount)
  BY <1>0, <1>1, <1>4, <1>5, <1>7, ClosePromise
<1>9. QED
  BY <1>6, <1>8 DEF Promise!Next, Promise!Resolve, Promise!Bets, BetId

(* A refund returns the stake.                                                 *)
LEMMA RefundPromise ==
  ASSUME TypeInv, TypeInv', RecordInv, RecordInv', NEW b \in BetId, refund(b)
  PROVE  Promise!Next
<1>0. PICK id \in BetId : id = activeBetId /\ id = b
  BY DEF refund, MayRefund
<1>1. /\ id \in Nat \ {0} /\ id <= betCounter /\ betCounter' = betCounter
      /\ betCounter \in Nat /\ quoted' = quoted
  BY <1>0 DEF refund, TypeInv, TypeOK, RecordInv, BetId
<1>2. /\ bets \in [BetId -> Bet] /\ received \in [BetId -> Nat]
  BY DEF TypeInv, TypeOK
<1>3. bets' = [bets EXCEPT ![id] = Refunded(@)] /\ bets[id].reveal = NoReveal
  BY <1>0, <1>1 DEF refund, RecordInv, ActiveFresh, Active
<1>4. /\ bets'[id].settled /\ bets'[id].reveal = NoReveal
      /\ bets'[id].stake = bets[id].stake
      /\ \A o \in BetId : o # id => bets'[o] = bets[o]
  BY <1>1, <1>2, <1>3 DEF Refunded, Bet
<1>5. StatusOf(id)' = "refunded"
  BY <1>1, <1>4 DEF StatusOf
<1>6. PICK amount : amount = bets[id].stake /\ received'[id] = amount
  BY <1>1, <1>4 DEF RecordInv, PaidAsPromised, Promised
<1>7. received' = [received EXCEPT ![id] = amount]
  BY <1>0, <1>2, <1>6 DEF refund
<1>8. Promise!Close(id, "refunded", amount)
  BY <1>0, <1>1, <1>4, <1>5, <1>7, ClosePromise
<1>9. QED
  BY <1>6, <1>8 DEF Promise!Next, Promise!Resolve, Promise!Bets, BetId

(* What a player is promised, but for its liveness: whatever else happens, a bet  *)
(* closes once, and pays the prize quoted when it was placed, nothing, or the     *)
(* stake (placeBet, settleBet, refund).                                        *)
THEOREM ImplementsLifecycle == Spec => Promise!Init /\ [][Promise!Next]_(Promise!vars)
<1>1. Init => Promise!Init
  BY DEF Init, Promise!Init, Promise!Bets, BetId, StatusOf, EmptyBet
<1>2. ASSUME TypeInv, TypeInv', RecordInv, RecordInv', [Next]_vars
      PROVE  [Promise!Next]_(Promise!vars)
  <2>1. CASE Betting
    BY <1>2, <2>1, PlacePromise, SettlePromise, RefundPromise DEF Betting
  <2>2. CASE Tick \/ Governing \/ Operating \/ TokenHolding \/ UNCHANGED vars
    <3>1. UNCHANGED betVars
      BY <2>2, QuietSteps DEF Tick
    <3>2. QED
      BY <3>1 DEF betVars, Promise!vars, StatusOf
  <2>3. QED
    BY <1>2, <2>1, <2>2 DEF Next
<1>3. QED
  BY <1>1, <1>2, TypeInvariant, RecordInvariant, PTL DEF Spec
==============================================================================
