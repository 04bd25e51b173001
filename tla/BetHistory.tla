------------------------------ MODULE BetHistory ------------------------------
(***************************************************************************)
(* The player's list of past bets (web/lib/useBetHistory.ts): rows folded    *)
(* from a backfill of three log queries and from three live subscriptions,   *)
(* and completed by reads of the chain's record, all of which answer in any  *)
(* order while bets are placed and closed and the wallet changes account.    *)
(*                                                                         *)
(* A row keeps what the screen decides on: its outcome (a win and a loss are *)
(* both "drawn"), whether its terms (tier, stake, seed, commitment) are      *)
(* known, and whether its reveal is.  One node answers everything.           *)
(***************************************************************************)
EXTENDS ClientChain

CONSTANTS
  Nobody,      \* no account connected
  MaxActs,     \* bound on changes of account
  MaxFaults    \* bound on reads that fail

ASSUME HistoryAssumption ==
  Nobody \notin Players /\ {MaxBets, MaxActs, MaxFaults} \subseteq Nat

Unread == -1   \* not answered, or not subscribed
Kinds  == {"open", "drawn", "refunded"}   \* BetPlaced, BetSettled, BetRefunded
NoRow  == [outcome |-> "none", terms |-> FALSE, reveal |-> FALSE]

VARIABLES
  address,    \* the connected account
  drafts,     \* the rows, by bet
  backfills,  \* backfills whose effect has not been cleaned up: the account
              \* and, for each query, the last bet its answer covers
  heard,      \* for each subscription, the last bet whose log was delivered
  hydrating,  \* reads of bets(betId) in flight
  acts, faults

screenVars == <<address, drafts, backfills, heard, hydrating>>
vars == <<chainVars, screenVars, acts, faults>>

------------------------------------------------------------------------------
(* The reducers                                                              *)

place_Resets(row) == [row EXCEPT !.outcome = "open", !.terms = TRUE]
place(row) ==
  [row EXCEPT !.outcome = IF @ = "none" THEN "open" ELSE @, !.terms = TRUE]
settle(row)      == [row EXCEPT !.outcome = "drawn", !.reveal = TRUE]
refundEntry(row) == [row EXCEPT !.outcome = "refunded"]

Apply(kind, row) ==
  CASE kind = "open" -> place(row)
    [] kind = "drawn" -> settle(row)
    [] kind = "refunded" -> refundEntry(row)

(* A record read from the chain never erases what an event supplied: the slot *)
(* of a reveal that the read did not see is empty.                           *)
hydrateEntry_Overwrites(row, seen) ==
  [row EXCEPT !.terms = TRUE, !.reveal = (seen = "drawn")]
hydrateEntry(row, seen) ==
  [row EXCEPT !.terms = TRUE, !.reveal = @ \/ seen = "drawn"]

(* foldBetLogs on the logs of one bet in the order of the backfill: placement, *)
(* settlement, refund.                                                       *)
Folded(row, kinds) ==
  LET placed  == IF "open" \in kinds THEN place(row) ELSE row
      settled == IF "drawn" \in kinds THEN settle(placed) ELSE placed
  IN IF "refunded" \in kinds THEN refundEntry(settled) ELSE settled

(* Bets of `kind` whose log has been emitted: every bet has been placed.       *)
Emitted(kind) ==
  {b \in DOMAIN bets : kind = "open" \/ (b <= LastClosed /\ State(b) = kind)}

LastEmitted(kind) == IF kind = "open" THEN Len(bets) ELSE LastClosed

(* The reads a delivered log asks for.                                        *)
Touched_PlacedOnly(kind, b) ==
  IF kind = "open" THEN {[bet |-> b, seen |-> "nothing"]} ELSE {}
Touched(kind, b) == {[bet |-> b, seen |-> "nothing"]}

(* What survives the cleanup of the effect when the account changes.           *)
Kept_NotCancelled(inFlight) == inFlight
Kept(inFlight) == {}

------------------------------------------------------------------------------
NewBackfill(a) ==
  IF a = Nobody THEN {} ELSE {[player |-> a, answers |-> [k \in Kinds |-> Unread]]}

Init ==
  /\ ChainInit
  /\ address \in Players \cup {Nobody}
  /\ drafts = [b \in 1..MaxBets |-> NoRow]
  /\ backfills = NewBackfill(address)
  /\ heard = [k \in Kinds |-> Unread]
  /\ hydrating = {}
  /\ acts = 0 /\ faults = 0

(* The account changes, connects or disconnects: the list is cleared, the old  *)
(* backfill cancelled and a new one begun; the subscriptions outlive a change  *)
(* of account, and reads in flight are not cancelled.                        *)
SwitchTo(a) ==
  /\ a # address
  /\ acts < MaxActs /\ acts' = acts + 1
  /\ address' = a
  /\ drafts' = [b \in 1..MaxBets |-> NoRow]
  /\ backfills' = Kept(backfills) \cup NewBackfill(a)
  /\ heard' = IF a = Nobody THEN [k \in Kinds |-> Unread] ELSE heard
  /\ UNCHANGED <<chainVars, hydrating, faults>>

AnswerLogs(f, k) ==
  /\ f.answers[k] = Unread
  /\ backfills' = (backfills \ {f}) \cup {[f EXCEPT !.answers[k] = LastEmitted(k)]}
  /\ UNCHANGED <<chainVars, address, drafts, heard, hydrating, acts, faults>>

(* Promise.all has resolved: fold onto whatever live events supplied first.    *)
Backfill(f) ==
  /\ \A k \in Kinds : f.answers[k] # Unread
  /\ drafts' = [b \in 1..MaxBets |->
       IF b \in DOMAIN bets /\ Owner(b) = f.player
       THEN Folded(drafts[b], {k \in Kinds : b <= f.answers[k] /\ b \in Emitted(k)})
       ELSE drafts[b]]
  /\ backfills' = backfills \ {f}
  /\ UNCHANGED <<chainVars, address, heard, hydrating, acts, faults>>

Subscribe(k) ==
  /\ address # Nobody /\ heard[k] = Unread
  /\ heard' = [heard EXCEPT ![k] = LastEmitted(k)]
  /\ UNCHANGED <<chainVars, address, drafts, backfills, hydrating, acts, faults>>

(* The next log of one subscription is delivered: one that is not this         *)
(* player's is skipped.                                                      *)
receive(k, b) ==
  /\ heard[k] # Unread /\ b > heard[k] /\ b \in Emitted(k)
  /\ \A c \in Emitted(k) : c <= heard[k] \/ c >= b
  /\ heard' = [heard EXCEPT ![k] = b]
  /\ IF Owner(b) = address
     THEN /\ drafts' = [drafts EXCEPT ![b] = Apply(k, @)]
          /\ hydrating' = hydrating \cup Touched(k, b)
     ELSE UNCHANGED <<drafts, hydrating>>
  /\ UNCHANGED <<chainVars, address, backfills, acts, faults>>

AnswerRead(r) ==
  /\ r.seen = "nothing"
  /\ hydrating' = (hydrating \ {r}) \cup {[r EXCEPT !.seen = State(r.bet)]}
  /\ UNCHANGED <<chainVars, address, drafts, backfills, heard, acts, faults>>

(* A read whose row is gone (the account has changed) is dropped.             *)
hydrate(r) ==
  /\ r.seen # "nothing"
  /\ hydrating' = hydrating \ {r}
  /\ drafts' = IF drafts[r.bet] = NoRow THEN drafts
               ELSE [drafts EXCEPT ![r.bet] = hydrateEntry(@, r.seen)]
  /\ UNCHANGED <<chainVars, address, backfills, heard, acts, faults>>

ReadFails ==
  /\ faults < MaxFaults /\ faults' = faults + 1
  /\ \/ \E f \in backfills : backfills' = backfills \ {f} /\ UNCHANGED hydrating
     \/ \E r \in hydrating : hydrating' = hydrating \ {r} /\ UNCHANGED backfills
  /\ UNCHANGED <<chainVars, address, drafts, heard, acts>>

Chain == ChainNext /\ UNCHANGED <<screenVars, acts, faults>>

Screen ==
  \/ \E f \in backfills, k \in Kinds : AnswerLogs(f, k)
  \/ \E f \in backfills : Backfill(f)
  \/ \E k \in Kinds : Subscribe(k)
  \/ \E k \in Kinds, b \in DOMAIN bets : receive(k, b)
  \/ \E r \in hydrating : AnswerRead(r) \/ hydrate(r)

Next ==
  \/ Screen
  \/ ReadFails
  \/ \E a \in Players \cup {Nobody} : SwitchTo(a)
  \/ Chain

Spec == Init /\ [][Next]_vars

(* What a page in front of its player is owed: queries, subscriptions, logs    *)
(* and reads come through.  Each is finite, so that fairness of them together  *)
(* is fairness of each.                                                      *)
FairSpec == Spec /\ WF_vars(Screen)

------------------------------------------------------------------------------
(* Properties                                                                *)

(* No row is about somebody else's bet, and none claims an outcome, or a       *)
(* reveal, that the chain does not have, whichever account's answers are still *)
(* in flight.                                                                *)
RowsAreTrue ==
  \A b \in 1..MaxBets : drafts[b] # NoRow =>
    /\ b \in DOMAIN bets /\ Owner(b) = address
    /\ drafts[b].outcome \in {"open", State(b)}
    /\ drafts[b].reveal => State(b) = "drawn"

(* A row that has been closed stays closed: a backfill or a BetPlaced that     *)
(* arrives after the outcome does not put it back to pending.                 *)
ClosedRowsStayClosed ==
  [][address' = address =>
       \A b \in 1..MaxBets : drafts[b].outcome \in {"drawn", "refunded"}
                               => drafts'[b].outcome = drafts[b].outcome]_vars

(* A row that offers its verification link keeps offering it: a record read    *)
(* before the settlement does not erase the reveal (hydrateEntry, fairness.ts  *)
(* verifyInputsFor).                                                         *)
Verifiable(row) == row.terms /\ row.reveal
VerifyLinkStays ==
  [][address' = address =>
       \A b \in 1..MaxBets : Verifiable(drafts[b]) => Verifiable(drafts'[b])]_vars

(* A bet that closes while the page listens for its kind of log ends up with   *)
(* its outcome, and a drawn one with its link, even if its placement was never *)
(* seen, unless the account changes or a read is lost.                        *)
CaughtUp(b) ==
  /\ drafts[b].outcome = State(b)
  /\ State(b) = "drawn" => Verifiable(drafts[b])
RowsCatchUp ==
  \A b \in 1..MaxBets, a \in Players, lost \in 0..MaxFaults :
    (/\ address = a /\ faults = lost
     /\ b \in 1..LastClosed /\ Owner(b) = a /\ heard[State(b)] \in 0..(b - 1))
    ~> (\/ address # a \/ faults # lost
        \/ b \in 1..LastClosed /\ CaughtUp(b))
==============================================================================
