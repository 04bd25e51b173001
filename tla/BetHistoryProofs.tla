---------------------------- MODULE BetHistoryProofs ----------------------------
(***************************************************************************)
(* The player's list of past bets, for any accounts, bets and answers in      *)
(* flight: every row is the connected account's and the chain's, and a row    *)
(* only moves forward.                                                      *)
(***************************************************************************)
EXTENDS BetHistory, SequenceTheorems, TLAPS

Bet == [player : Players, state : Kinds, placedAt : Nat]
Row == [outcome : Kinds \cup {"none"}, terms : BOOLEAN, reveal : BOOLEAN]

ChainTyped == bets \in Seq(Bet) /\ now \in Nat

(* What no transaction takes back: whose a bet is, and how it closed.          *)
BetsKept ==
  \A b \in DOMAIN bets :
    /\ b \in DOMAIN bets'
    /\ bets'[b].player = bets[b].player
    /\ State(b) # "open" => bets'[b].state = State(b)

(* The inductive invariant.  Answers still in flight must be about the bets of  *)
(* the account on screen, or, for a read, say nothing of a bet that its row    *)
(* could not already claim.                                                  *)
ScreenTyped ==
  /\ drafts \in [1..MaxBets -> Row]
  /\ backfills \subseteq [player : Players, answers : [Kinds -> Int]]
  /\ hydrating \subseteq [bet : Nat, seen : Kinds \cup {"nothing"}]

OwnBackfills == \A f \in backfills : f.player = address

HonestReads ==
  \A r \in hydrating :
    /\ r.bet \in DOMAIN bets
    /\ r.seen = "drawn" => State(r.bet) = "drawn"

IInv == ChainTyped /\ ScreenTyped /\ OwnBackfills /\ HonestReads /\ RowsAreTrue

(* A row that is empty, or says of its bet what the chain says or "open".       *)
TrueRow(row, state) ==
  row = NoRow \/ (row.outcome \in {"open", state} /\ (row.reveal => state = "drawn"))

(* What a row that stays on screen may do.                                     *)
Advances(old, new) ==
  /\ old.outcome \in {"drawn", "refunded"} => new.outcome = old.outcome
  /\ Verifiable(old) => Verifiable(new)

RowsAdvance == \A b \in 1..MaxBets : Advances(drafts[b], drafts'[b])

------------------------------------------------------------------------------
(* The chain                                                                 *)

(* Every record of the chain is a typed one.                                  *)
LEMMA TypedBets ==
  ASSUME ChainTyped
  PROVE  /\ Len(bets) \in Nat /\ DOMAIN bets = 1..Len(bets)
         /\ bets \in [1..Len(bets) -> Bet]
         /\ activeBetId \in Nat
         /\ activeBetId # 0 => activeBetId \in DOMAIN bets /\ State(activeBetId) = "open"
         /\ LastClosed \in Int
<1>1. Len(bets) \in Nat /\ DOMAIN bets = 1..Len(bets) /\ bets \in [1..Len(bets) -> Bet]
  BY LenProperties DEF ChainTyped
<1>2. QED
  BY <1>1 DEF activeBetId, IsOpen, LastClosed

(* Closing the open bet changes nothing else of any bet.                       *)
LEMMA Closing ==
  ASSUME ChainTyped, NEW id \in DOMAIN bets, State(id) = "open", NEW s \in {"drawn", "refunded"},
         bets' = [bets EXCEPT ![id].state = s], now' = now
  PROVE  ChainTyped' /\ BetsKept
<1>1. bets \in [1..Len(bets) -> Bet] /\ DOMAIN bets = 1..Len(bets) /\ Len(bets) \in Nat
  BY TypedBets
<1>2. PICK r \in Bet : r = [bets[id] EXCEPT !.state = s]
  BY <1>1 DEF Bet, Kinds
<1>3. bets' = [bets EXCEPT ![id] = r]
  BY <1>2
<1>4. bets' \in Seq(Bet) /\ Len(bets') = Len(bets)
      /\ \A j \in 1..Len(bets) : bets'[j] = IF j = id THEN r ELSE bets[j]
  BY <1>1, <1>3, ExceptSeq DEF ChainTyped
<1>5. DOMAIN bets' = 1..Len(bets')
  BY <1>4, LenProperties
<1>6. r.player = bets[id].player /\ r.placedAt = bets[id].placedAt
  BY <1>1, <1>2 DEF Bet
<1>7. BetsKept
  BY <1>1, <1>4, <1>5, <1>6 DEF BetsKept, ChainTyped, State
<1>8. QED
  BY <1>4, <1>7 DEF ChainTyped

(* Placing a bet changes none of those there were.                             *)
LEMMA PlacingKeeps ==
  ASSUME ChainTyped, NEW p \in Players, Placed(p)
  PROVE  ChainTyped' /\ BetsKept
<1>1. bets \in [1..Len(bets) -> Bet] /\ DOMAIN bets = 1..Len(bets) /\ Len(bets) \in Nat
  BY TypedBets
<1>2. PICK r \in Bet : r = [player |-> p, state |-> "open", placedAt |-> now]
  BY DEF Bet, ChainTyped, Kinds
<1>3. bets' = Append(bets, r) /\ now' = now
  BY <1>2 DEF Placed
<1>4. /\ bets' \in Seq(Bet) /\ Len(bets') = Len(bets) + 1
      /\ \A i \in 1..Len(bets) : bets'[i] = bets[i]
      /\ bets'[Len(bets) + 1] = r
  BY <1>1, <1>3, AppendProperties DEF ChainTyped
<1>5. DOMAIN bets' = 1..Len(bets')
  BY <1>4, LenProperties
<1>6. BetsKept
  BY <1>1, <1>3, <1>4, <1>5 DEF BetsKept, ChainTyped, State
<1>7. QED
  BY <1>1, <1>2, <1>3, <1>4, <1>5, <1>6 DEF ChainTyped

(* What any transaction, or none, leaves of the bets there were.               *)
LEMMA ChainStep ==
  ASSUME ChainTyped, [ChainNext]_chainVars
  PROVE  ChainTyped' /\ BetsKept
<1>1. ASSUME UNCHANGED chainVars PROVE ChainTyped' /\ BetsKept
  BY <1>1 DEF ChainTyped, BetsKept, chainVars, State
<1>2. ASSUME NEW p \in Players, Placed(p) PROVE ChainTyped' /\ BetsKept
  BY <1>2, PlacingKeeps
<1>3. ASSUME Settled PROVE ChainTyped' /\ BetsKept
  <2>1. PICK id \in DOMAIN bets : id = activeBetId /\ State(id) = "open"
    BY <1>3, TypedBets DEF Settled
  <2>2. QED
    BY <1>3, <2>1, Closing DEF Settled
<1>4. ASSUME NEW b \in DOMAIN bets, Refunded(b) PROVE ChainTyped' /\ BetsKept
  BY <1>4, Closing, TypedBets DEF Refunded, IsOpen
<1>5. ASSUME TimePasses PROVE ChainTyped' /\ BetsKept
  BY <1>5 DEF TimePasses, ChainTyped, BetsKept, State
<1>6. QED
  BY <1>1, <1>2, <1>3, <1>4, <1>5 DEF ChainNext

------------------------------------------------------------------------------
(* The reducers                                                              *)

(* One log of a kind the chain emitted keeps a row true and moves it forward.   *)
LEMMA ApplyKeeps ==
  ASSUME NEW row \in Row, NEW state \in Kinds, TrueRow(row, state),
         NEW kind \in {"open", state}
  PROVE  /\ Apply(kind, row) \in Row
         /\ TrueRow(Apply(kind, row), state)
         /\ Advances(row, Apply(kind, row))
<1>1. /\ place(row) \in Row
      /\ place(row).outcome = IF row.outcome = "none" THEN "open" ELSE row.outcome
      /\ place(row).terms = TRUE /\ place(row).reveal = row.reveal
  BY DEF place, Row, Kinds
<1>2. /\ settle(row) \in Row /\ settle(row).outcome = "drawn"
      /\ settle(row).terms = row.terms /\ settle(row).reveal = TRUE
  BY DEF settle, Row, Kinds
<1>3. /\ refundEntry(row) \in Row /\ refundEntry(row).outcome = "refunded"
      /\ refundEntry(row).terms = row.terms /\ refundEntry(row).reveal = row.reveal
  BY DEF refundEntry, Row, Kinds
<1>4. /\ row.outcome \in {"none", "open", state}
      /\ row.reveal => state = "drawn"
      /\ row.outcome = "none" => ~row.reveal
  BY DEF TrueRow, NoRow, Kinds
<1>5. CASE kind = "open"
  <2>1. Apply(kind, row) = place(row)
    BY <1>5 DEF Apply
  <2>2. QED
    BY <1>1, <1>4, <2>1 DEF TrueRow, Advances, Verifiable
<1>6. CASE kind = "drawn"
  <2>1. Apply(kind, row) = settle(row) /\ state = "drawn"
    BY <1>6 DEF Apply
  <2>2. QED
    BY <1>2, <1>4, <2>1 DEF TrueRow, Advances, Verifiable
<1>7. CASE kind = "refunded"
  <2>1. Apply(kind, row) = refundEntry(row) /\ state = "refunded"
    BY <1>7 DEF Apply
  <2>2. QED
    BY <1>3, <1>4, <2>1 DEF TrueRow, Advances, Verifiable
<1>8. QED
  BY <1>5, <1>6, <1>7 DEF Kinds

(* So does a backfill, whatever it found of the bet's logs.                    *)
LEMMA FoldedKeeps ==
  ASSUME NEW row \in Row, NEW state \in Kinds, TrueRow(row, state),
         NEW kinds \in SUBSET {"open", state}
  PROVE  /\ Folded(row, kinds) \in Row
         /\ TrueRow(Folded(row, kinds), state)
         /\ Advances(row, Folded(row, kinds))
<1> DEFINE placed  == IF "open" \in kinds THEN Apply("open", row) ELSE row
<1> DEFINE settled == IF "drawn" \in kinds THEN Apply("drawn", placed) ELSE placed
<1> DEFINE final   == IF "refunded" \in kinds THEN Apply("refunded", settled) ELSE settled
<1>1. \A r : Advances(r, r)
  BY DEF Advances
<1>2. \A r, s, t : Advances(r, s) /\ Advances(s, t) => Advances(r, t)
  BY DEF Advances
<1>3. placed \in Row /\ TrueRow(placed, state) /\ Advances(row, placed)
  BY <1>1, ApplyKeeps
<1>4. settled \in Row /\ TrueRow(settled, state) /\ Advances(placed, settled)
  <2> HIDE DEF placed
  <2>1. CASE "drawn" \in kinds
    BY <1>3, <2>1, ApplyKeeps DEF Kinds
  <2>2. CASE "drawn" \notin kinds
    BY <1>1, <1>3, <2>2
  <2>3. QED
    BY <2>1, <2>2
<1>5. final \in Row /\ TrueRow(final, state) /\ Advances(settled, final)
  <2> HIDE DEF settled
  <2>1. CASE "refunded" \in kinds
    BY <1>4, <2>1, ApplyKeeps DEF Kinds
  <2>2. CASE "refunded" \notin kinds
    BY <1>1, <1>4, <2>2
  <2>3. QED
    BY <2>1, <2>2
<1>6. Folded(row, kinds) = final
  BY DEF Folded, Apply
<1> HIDE DEF placed, settled, final
<1>7. QED
  BY <1>2, <1>3, <1>4, <1>5, <1>6

(* And a record read from the chain, whenever it was read.                     *)
LEMMA HydrateKeeps ==
  ASSUME NEW row \in Row, row # NoRow, NEW state \in Kinds, TrueRow(row, state),
         NEW seen, seen = "drawn" => state = "drawn"
  PROVE  /\ hydrateEntry(row, seen) \in Row
         /\ TrueRow(hydrateEntry(row, seen), state)
         /\ Advances(row, hydrateEntry(row, seen))
<1>1. hydrateEntry(row, seen) \in Row
  BY DEF hydrateEntry, Row
<1>2. /\ hydrateEntry(row, seen).outcome = row.outcome
      /\ hydrateEntry(row, seen).terms = TRUE
      /\ hydrateEntry(row, seen).reveal <=> (row.reveal \/ seen = "drawn")
  BY DEF hydrateEntry, Row
<1>3. row.outcome \in {"open", state} /\ (row.reveal => state = "drawn")
  BY DEF TrueRow
<1>4. QED
  BY <1>1, <1>2, <1>3 DEF TrueRow, Advances, Verifiable

------------------------------------------------------------------------------
(* The screen                                                                *)

(* A row is true of its bet, or empty.                                         *)
LEMMA TrueRows ==
  ASSUME RowsAreTrue, NEW b \in 1..MaxBets
  PROVE  TrueRow(drafts[b], State(b))
BY DEF RowsAreTrue, TrueRow

(* What the chain does to bets under the screen's feet makes none of it false.  *)
LEMMA KeptScreen ==
  ASSUME IInv, ChainTyped', BetsKept, UNCHANGED address
  PROVE  /\ UNCHANGED backfills => OwnBackfills'
         /\ UNCHANGED hydrating => HonestReads'
         /\ UNCHANGED drafts => RowsAreTrue' /\ RowsAdvance
<1>1. UNCHANGED backfills => OwnBackfills'
  BY DEF IInv, OwnBackfills
<1>2. UNCHANGED hydrating => HonestReads'
  BY DEF IInv, HonestReads, BetsKept, State
<1>3. ASSUME UNCHANGED drafts PROVE RowsAreTrue'
  <2> SUFFICES ASSUME NEW b \in 1..MaxBets, drafts[b] # NoRow
               PROVE  /\ b \in DOMAIN bets' /\ bets'[b].player = address
                      /\ drafts[b].outcome \in {"open", bets'[b].state}
                      /\ drafts[b].reveal => bets'[b].state = "drawn"
    BY <1>3 DEF RowsAreTrue, State, Owner
  <2>1. /\ b \in DOMAIN bets /\ Owner(b) = address
        /\ drafts[b].outcome \in {"open", State(b)}
        /\ drafts[b].reveal => State(b) = "drawn"
    BY DEF IInv, RowsAreTrue
  <2>2. QED
    BY <2>1 DEF BetsKept, Owner
<1>4. UNCHANGED drafts => RowsAdvance
  BY DEF RowsAdvance, Advances
<1>5. QED
  BY <1>1, <1>2, <1>3, <1>4

(* A callback that replaces rows of this account's bets by true, later ones.    *)
LEMMA RowsReplaced ==
  ASSUME IInv, UNCHANGED <<chainVars, address>>,
         \A b \in 1..MaxBets :
           \/ drafts'[b] = drafts[b]
           \/ /\ b \in DOMAIN bets /\ Owner(b) = address
              /\ TrueRow(drafts'[b], State(b))
              /\ Advances(drafts[b], drafts'[b])
  PROVE  RowsAreTrue' /\ RowsAdvance
<1>1. \A b : Advances(drafts[b], drafts[b])
  BY DEF Advances
<1>2. RowsAdvance
  BY <1>1 DEF RowsAdvance
<1>3. ASSUME NEW b \in 1..MaxBets, drafts'[b] # NoRow
      PROVE  /\ b \in DOMAIN bets /\ Owner(b) = address
             /\ drafts'[b].outcome \in {"open", State(b)}
             /\ drafts'[b].reveal => State(b) = "drawn"
  BY <1>3 DEF IInv, RowsAreTrue, TrueRow
<1>4. RowsAreTrue'
  BY <1>3 DEF RowsAreTrue, State, Owner, chainVars
<1>5. QED
  BY <1>2, <1>4

(* The chain's own step, or none.                                              *)
LEMMA ChainKeeps ==
  ASSUME IInv, [ChainNext]_chainVars, UNCHANGED screenVars
  PROVE  IInv' /\ RowsAdvance
<1>1. ChainTyped' /\ BetsKept
  BY ChainStep DEF IInv
<1>2. UNCHANGED <<address, drafts, backfills, heard, hydrating>>
  BY DEF screenVars
<1>3. ScreenTyped'
  BY <1>2 DEF IInv, ScreenTyped
<1>4. QED
  BY <1>1, <1>2, <1>3, KeptScreen DEF IInv

(* One query of a backfill is answered: it stays its account's, and no row moves. *)
LEMMA AnswerLogsKeeps ==
  ASSUME IInv, NEW f \in backfills, NEW k \in Kinds, AnswerLogs(f, k)
  PROVE  IInv' /\ RowsAdvance
<1>1. ChainTyped' /\ BetsKept
  BY ChainStep DEF IInv, AnswerLogs
<1>2. UNCHANGED <<address, drafts, hydrating>>
  BY DEF AnswerLogs
<1>3. PICK p \in Players, a \in [Kinds -> Int] : f = [player |-> p, answers |-> a]
  BY DEF IInv, ScreenTyped
<1>4. PICK last \in Int : last = LastEmitted(k)
  <2>1. LastEmitted(k) \in Int
    BY TypedBets DEF IInv, LastEmitted
  <2>2. QED
    BY <2>1
<1>5. PICK g \in [player : Players, answers : [Kinds -> Int]] :
        g = [f EXCEPT !.answers[k] = last] /\ g.player = p
  <2>1. [a EXCEPT ![k] = last] \in [Kinds -> Int]
    OBVIOUS
  <2>2. [f EXCEPT !.answers[k] = last] = [player |-> p, answers |-> [a EXCEPT ![k] = last]]
    BY <1>3
  <2>3. QED
    BY <2>1, <2>2
<1>6. backfills' = (backfills \ {f}) \cup {g}
  BY <1>4, <1>5 DEF AnswerLogs
<1>7. ScreenTyped'
  BY <1>2, <1>6 DEF IInv, ScreenTyped
<1>8. p = address
  BY <1>3 DEF IInv, OwnBackfills
<1>9. OwnBackfills'
  BY <1>2, <1>5, <1>6, <1>8 DEF IInv, OwnBackfills
<1>10. QED
  BY <1>1, <1>2, <1>7, <1>9, KeptScreen DEF IInv

(* The backfill folds only what the chain emitted, onto rows of its account.    *)
LEMMA BackfillKeeps ==
  ASSUME IInv, NEW f \in backfills, Backfill(f)
  PROVE  IInv' /\ RowsAdvance
<1>1. ChainTyped' /\ BetsKept
  BY ChainStep DEF IInv, Backfill
<1>2. UNCHANGED <<chainVars, address, hydrating>> /\ backfills' = backfills \ {f}
  BY DEF Backfill
<1> DEFINE kinds(b) == {k \in Kinds : b <= f.answers[k] /\ b \in Emitted(k)}
<1>3. ASSUME NEW b \in 1..MaxBets
      PROVE  /\ drafts'[b] \in Row
             /\ \/ drafts'[b] = drafts[b]
                \/ /\ b \in DOMAIN bets /\ Owner(b) = address
                   /\ TrueRow(drafts'[b], State(b))
                   /\ Advances(drafts[b], drafts'[b])
  <2>1. drafts[b] \in Row /\ TrueRow(drafts[b], State(b))
    BY TrueRows DEF IInv, ScreenTyped
  <2>2. CASE b \in DOMAIN bets /\ Owner(b) = f.player
    <3>1. drafts'[b] = Folded(drafts[b], kinds(b))
      BY <2>2 DEF Backfill
    <3>2. State(b) \in Kinds
      BY <2>2, TypedBets DEF IInv, State, Bet
    <3>3. kinds(b) \in SUBSET {"open", State(b)}
      BY DEF Emitted
    <3>4. PICK ks \in SUBSET {"open", State(b)} : ks = kinds(b)
      BY <3>3
    <3>5. f.player = address
      BY DEF IInv, OwnBackfills
    <3>6. QED
      BY <2>1, <2>2, <3>1, <3>2, <3>4, <3>5, FoldedKeeps
  <2>3. CASE ~(b \in DOMAIN bets /\ Owner(b) = f.player)
    BY <2>1, <2>3 DEF Backfill
  <2>4. QED
    BY <2>2, <2>3
<1>4. DOMAIN drafts' = 1..MaxBets /\ drafts' = [b \in 1..MaxBets |-> drafts'[b]]
  BY DEF Backfill
<1>5. drafts' \in [1..MaxBets -> Row]
  BY <1>3, <1>4
<1>6. RowsAreTrue' /\ RowsAdvance
  BY <1>2, <1>3, RowsReplaced
<1>7. ScreenTyped' /\ OwnBackfills'
  BY <1>2, <1>5 DEF IInv, ScreenTyped, OwnBackfills
<1>8. QED
  BY <1>1, <1>2, <1>6, <1>7, KeptScreen DEF IInv

(* A log that is delivered is one the chain emitted, and asks for a read.       *)
LEMMA ReceiveKeeps ==
  ASSUME IInv, NEW k \in Kinds, NEW b \in DOMAIN bets, receive(k, b)
  PROVE  IInv' /\ RowsAdvance
<1>1. ChainTyped' /\ BetsKept
  BY ChainStep DEF IInv, receive
<1>2. UNCHANGED <<chainVars, address, backfills>>
  BY DEF receive
<1>3. OwnBackfills'
  BY <1>2 DEF IInv, OwnBackfills
<1>4. CASE Owner(b) # address
  <2>1. UNCHANGED <<drafts, hydrating>>
    BY <1>4 DEF receive
  <2>2. QED
    BY <1>1, <1>2, <1>3, <2>1, KeptScreen DEF IInv, ScreenTyped
<1>5. CASE Owner(b) = address
  <2>1. drafts' = [drafts EXCEPT ![b] = Apply(k, drafts[b])]
    BY <1>5 DEF receive
  <2>2. State(b) \in Kinds /\ b \in Nat
    BY TypedBets DEF IInv, State, Bet
  <2>3. k \in {"open", State(b)}
    BY DEF receive, Emitted
  <2>4. ASSUME NEW c \in 1..MaxBets
        PROVE  /\ drafts'[c] \in Row
               /\ \/ drafts'[c] = drafts[c]
                  \/ /\ c \in DOMAIN bets /\ Owner(c) = address
                     /\ TrueRow(drafts'[c], State(c))
                     /\ Advances(drafts[c], drafts'[c])
    <3>1. drafts[c] \in Row /\ TrueRow(drafts[c], State(c))
      BY TrueRows DEF IInv, ScreenTyped
    <3>2. CASE c = b
      <4>1. drafts'[b] = Apply(k, drafts[b])
        BY <2>1, <3>2 DEF IInv, ScreenTyped
      <4>2. QED
        BY <1>5, <2>2, <2>3, <3>1, <3>2, <4>1, ApplyKeeps
    <3>3. CASE c # b
      BY <2>1, <3>1, <3>3 DEF IInv, ScreenTyped
    <3>4. QED
      BY <3>2, <3>3
  <2>5. drafts' \in [1..MaxBets -> Row]
    BY <2>1, <2>4 DEF IInv, ScreenTyped
  <2>6. RowsAreTrue' /\ RowsAdvance
    BY <1>2, <2>4, RowsReplaced
  <2>7. hydrating' = hydrating \cup {[bet |-> b, seen |-> "nothing"]}
    BY <1>5 DEF receive, Touched
  <2>8. ScreenTyped'
    BY <1>2, <2>2, <2>5, <2>7 DEF IInv, ScreenTyped
  <2>9. HonestReads'
    BY <1>2, <2>7 DEF IInv, HonestReads, State, chainVars
  <2>10. QED
    BY <1>1, <1>3, <2>6, <2>8, <2>9 DEF IInv
<1>6. QED
  BY <1>4, <1>5

(* The node answers a read with what the bet is then.                          *)
LEMMA AnswerReadKeeps ==
  ASSUME IInv, NEW r \in hydrating, AnswerRead(r)
  PROVE  IInv' /\ RowsAdvance
<1>1. ChainTyped' /\ BetsKept
  BY ChainStep DEF IInv, AnswerRead
<1>2. UNCHANGED <<chainVars, address, drafts, backfills>>
  BY DEF AnswerRead
<1>3. r.bet \in DOMAIN bets /\ r.bet \in Nat
  BY DEF IInv, HonestReads, ScreenTyped
<1>4. PICK s \in Kinds : s = State(r.bet)
  BY <1>3, TypedBets DEF IInv, State, Bet
<1>5. PICK q \in [bet : Nat, seen : Kinds \cup {"nothing"}] :
        q = [r EXCEPT !.seen = s] /\ q.bet = r.bet /\ q.seen = s
  <2>1. [r EXCEPT !.seen = s] \in [bet : Nat, seen : Kinds \cup {"nothing"}]
    BY DEF IInv, ScreenTyped
  <2>2. [r EXCEPT !.seen = s].bet = r.bet /\ [r EXCEPT !.seen = s].seen = s
    BY DEF IInv, ScreenTyped
  <2>3. QED
    BY <2>1, <2>2
<1>6. hydrating' = (hydrating \ {r}) \cup {q}
  BY <1>4, <1>5 DEF AnswerRead
<1>7. ScreenTyped'
  BY <1>2, <1>6 DEF IInv, ScreenTyped
<1>8. HonestReads'
  BY <1>2, <1>3, <1>4, <1>5, <1>6 DEF IInv, HonestReads, State, chainVars
<1>9. QED
  BY <1>1, <1>2, <1>7, <1>8, KeptScreen DEF IInv

(* An answer about a bet of an account that has left finds no row.              *)
LEMMA hydrateKeeps ==
  ASSUME IInv, NEW r \in hydrating, hydrate(r)
  PROVE  IInv' /\ RowsAdvance
<1>1. ChainTyped' /\ BetsKept
  BY ChainStep DEF IInv, hydrate
<1>2. UNCHANGED <<chainVars, address, backfills>> /\ hydrating' = hydrating \ {r}
  BY DEF hydrate
<1>3. OwnBackfills' /\ HonestReads'
  BY <1>2 DEF IInv, OwnBackfills, HonestReads, State, chainVars
<1>4. PICK b \in DOMAIN bets : b = r.bet /\ (r.seen = "drawn" => State(b) = "drawn")
  BY DEF IInv, HonestReads
<1>5. State(b) \in Kinds
  BY TypedBets DEF IInv, State, Bet
<1>6. CASE drafts[b] = NoRow
  BY <1>1, <1>2, <1>3, <1>4, <1>6, KeptScreen DEF IInv, ScreenTyped, hydrate
<1>7. CASE drafts[b] # NoRow
  <2>1. drafts' = [drafts EXCEPT ![b] = hydrateEntry(drafts[b], r.seen)]
    BY <1>4, <1>7 DEF hydrate
  <2>2. ASSUME NEW c \in 1..MaxBets
        PROVE  /\ drafts'[c] \in Row
               /\ \/ drafts'[c] = drafts[c]
                  \/ /\ c \in DOMAIN bets /\ Owner(c) = address
                     /\ TrueRow(drafts'[c], State(c))
                     /\ Advances(drafts[c], drafts'[c])
    <3>1. drafts[c] \in Row /\ TrueRow(drafts[c], State(c))
      BY TrueRows DEF IInv, ScreenTyped
    <3>2. CASE c = b
      <4>1. drafts'[b] = hydrateEntry(drafts[b], r.seen)
        BY <2>1, <3>2 DEF IInv, ScreenTyped
      <4>2. Owner(b) = address
        BY <1>7, <3>2 DEF IInv, RowsAreTrue
      <4>3. QED
        BY <1>4, <1>5, <1>7, <3>1, <3>2, <4>1, <4>2, HydrateKeeps
    <3>3. CASE c # b
      BY <2>1, <3>1, <3>3 DEF IInv, ScreenTyped
    <3>4. QED
      BY <3>2, <3>3
  <2>3. drafts' \in [1..MaxBets -> Row]
    BY <2>1, <2>2 DEF IInv, ScreenTyped
  <2>4. RowsAreTrue' /\ RowsAdvance
    BY <1>2, <2>2, RowsReplaced
  <2>5. ScreenTyped'
    BY <1>2, <2>3 DEF IInv, ScreenTyped
  <2>6. QED
    BY <1>1, <1>3, <2>4, <2>5 DEF IInv
<1>8. QED
  BY <1>6, <1>7

(* A subscription that begins and an answer that is lost move no row.           *)
LEMMA NothingArrives ==
  ASSUME IInv, ReadFails \/ \E k \in Kinds : Subscribe(k)
  PROVE  IInv' /\ RowsAdvance
<1>1. UNCHANGED <<chainVars, address, drafts>>
  BY DEF ReadFails, Subscribe
<1>2. ChainTyped' /\ BetsKept
  BY <1>1, ChainStep DEF IInv
<1>3. backfills' \subseteq backfills /\ hydrating' \subseteq hydrating
  BY DEF ReadFails, Subscribe
<1>4. ScreenTyped' /\ OwnBackfills' /\ HonestReads'
  BY <1>1, <1>3 DEF IInv, ScreenTyped, OwnBackfills, HonestReads, State, chainVars
<1>5. QED
  BY <1>1, <1>2, <1>4, KeptScreen DEF IInv

(* Another account starts from an empty list; only reads outlive the change.    *)
LEMMA SwitchKeeps ==
  ASSUME IInv, NEW a \in Players \cup {Nobody}, SwitchTo(a)
  PROVE  IInv' /\ address' # address
<1>1. UNCHANGED <<chainVars, hydrating>> /\ address' = a /\ a # address
  BY DEF SwitchTo
<1>2. ChainTyped'
  BY <1>1, ChainStep DEF IInv
<1>3. backfills' = NewBackfill(a)
  BY DEF SwitchTo, Kept
<1>4. backfills' \subseteq [player : Players, answers : [Kinds -> Int]] /\ OwnBackfills'
  BY <1>1, <1>3 DEF NewBackfill, Unread, OwnBackfills
<1>5. drafts' = [b \in 1..MaxBets |-> NoRow]
  BY DEF SwitchTo
<1>6. drafts' \in [1..MaxBets -> Row] /\ RowsAreTrue'
  BY <1>5 DEF NoRow, Row, RowsAreTrue
<1>7. HonestReads'
  BY <1>1 DEF IInv, HonestReads, State, chainVars
<1>8. QED
  BY <1>1, <1>2, <1>4, <1>6, <1>7 DEF IInv, ScreenTyped

------------------------------------------------------------------------------
(* The theorems                                                              *)

(* Every step keeps the invariant, and moves rows only forward.                *)
LEMMA NextKeepsIInv ==
  ASSUME IInv, [Next]_vars
  PROVE  IInv' /\ (address' = address => RowsAdvance)
<1>1. ASSUME UNCHANGED vars PROVE IInv' /\ RowsAdvance
  BY <1>1, ChainKeeps DEF vars
<1>2. ASSUME Screen PROVE IInv' /\ RowsAdvance
  BY <1>2, AnswerLogsKeeps, BackfillKeeps, ReceiveKeeps, AnswerReadKeeps, hydrateKeeps,
     NothingArrives DEF Screen
<1>3. ASSUME ReadFails PROVE IInv' /\ RowsAdvance
  BY <1>3, NothingArrives
<1>4. ASSUME NEW a \in Players \cup {Nobody}, SwitchTo(a)
      PROVE  IInv' /\ address' # address
  BY <1>4, SwitchKeeps
<1>5. ASSUME Chain PROVE IInv' /\ RowsAdvance
  BY <1>5, ChainKeeps DEF Chain
<1>6. QED
  BY <1>1, <1>2, <1>3, <1>4, <1>5 DEF Next

(* Whatever is in flight is about this account's bets, or claims nothing that   *)
(* could be false.                                                           *)
THEOREM Inductive == Spec => []IInv
<1>1. Init => IInv
  <2> SUFFICES ASSUME Init PROVE IInv
    OBVIOUS
  <2>1. ChainTyped
    BY EmptySeq DEF Init, ChainInit, ChainTyped
  <2>2. drafts \in [1..MaxBets -> Row] /\ RowsAreTrue
    BY DEF Init, NoRow, Row, RowsAreTrue
  <2>3. backfills \subseteq [player : Players, answers : [Kinds -> Int]] /\ OwnBackfills
    BY DEF Init, NewBackfill, Unread, OwnBackfills
  <2>4. hydrating \subseteq [bet : Nat, seen : Kinds \cup {"nothing"}] /\ HonestReads
    BY DEF Init, HonestReads
  <2>5. QED
    BY <2>1, <2>2, <2>3, <2>4 DEF IInv, ScreenTyped
<1>2. IInv /\ [Next]_vars => IInv'
  BY NextKeepsIInv
<1>3. QED
  BY <1>1, <1>2, PTL DEF Spec

(* No row is about somebody else's bet, or claims what the chain does not have  *)
(* (useBetHistory.ts reducers, backfill, hydrate).                             *)
THEOREM RowsAreTrueAlways == Spec => []RowsAreTrue
<1>1. IInv => RowsAreTrue
  BY DEF IInv
<1>2. QED
  BY <1>1, Inductive, PTL

(* A closed row stays closed, in whatever order logs and answers arrive.        *)
THEOREM ClosedRowsStayClosedAlways == Spec => ClosedRowsStayClosed
<1>1. ASSUME IInv, [Next]_vars
      PROVE  address' = address =>
               \A b \in 1..MaxBets : drafts[b].outcome \in {"drawn", "refunded"}
                                       => drafts'[b].outcome = drafts[b].outcome
  BY <1>1, NextKeepsIInv DEF RowsAdvance, Advances
<1>2. QED
  BY <1>1, Inductive, PTL DEF Spec, ClosedRowsStayClosed

(* A row that offers its verification link keeps offering it.                   *)
THEOREM VerifyLinkStaysAlways == Spec => VerifyLinkStays
<1>1. ASSUME IInv, [Next]_vars
      PROVE  address' = address =>
               \A b \in 1..MaxBets : Verifiable(drafts[b]) => Verifiable(drafts'[b])
  BY <1>1, NextKeepsIInv DEF RowsAdvance, Advances
<1>2. QED
  BY <1>1, Inductive, PTL DEF Spec, VerifyLinkStays
==============================================================================
