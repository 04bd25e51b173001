------------------------------- MODULE Verifier -------------------------------
(***************************************************************************)
(* The fairness verifier: the recomputation and the parsing that every way in *)
(* shares (verifier/src/index.ts, parse.ts), the command line                *)
(* (verifier/bin/verify.ts) and the /verify page                             *)
(* (web/app/verify/VerifyTool.tsx), where a player opens links, edits fields,*)
(* presses Verify and looks bets up while bets are being settled.            *)
(*                                                                         *)
(* Text is abstracted to what parsing tells apart: Blank, Malformed (any text *)
(* a field's rule refuses), or the value it denotes.  The numbers beyond      *)
(* MaxWord are those that parse but do not fit the 256 bits of the preimage.  *)
(***************************************************************************)
EXTENDS Integers, Sequences

CONSTANTS
  Reveals, Commits, Seeds,
  Keccak,            \* [Reveals -> Commits]
  Draw,              \* [Reveals \X Seeds \X Nat -> Nat], the hash of the three
  BetRecord,         \* the bets the contract holds, in order of placement
  MaxWord,           \* 2^256 - 1
  Blank, Malformed,  \* text of a field
  Nothing,           \* no lookup in flight
  MaxActs            \* bound on links opened and fields edited

BetIds == DOMAIN BetRecord
TIER_ODDS == <<2, 4, 10, 50, 100, 1000>>   \* tier t has entry t + 1

(* A commitment opens to one reveal; the texts that are no value are none.        *)
ASSUME VerifierAssumption ==
  /\ Keccak \in [Reveals -> Commits] /\ MaxActs \in Nat
  /\ \A r, q \in Reveals : Keccak[r] = Keccak[q] => r = q
  /\ Blank # Malformed
  /\ \A text \in {Blank, Malformed} :
       /\ text \notin Nat /\ text \notin BOOLEAN
       /\ text \notin Reveals /\ text \notin Commits /\ text \notin Seeds
  /\ MaxWord \in Nat /\ Len(BetRecord) \in Nat /\ Len(BetRecord) <= MaxWord
  /\ BetIds = 1..Len(BetRecord)
  /\ \A b \in BetIds : /\ BetRecord[b].tier \in 0..5
                       /\ BetRecord[b].clientSeed \in Seeds
                       /\ BetRecord[b].reveal \in Reveals
                       /\ BetRecord[b].commit = Keccak[BetRecord[b].reveal]
  /\ \A r \in Reveals, s \in Seeds, b \in 0..MaxWord : Draw[<<r, s, b>>] \in Nat

Required == {"betId", "tier", "clientEntropy", "serverReveal", "commitment"}
Reported == {"win", "roll"}
Fields   == Required \cup Reported

NoVerdict == [none |-> TRUE]

VARIABLES
  settled,   \* bets the contract has settled; what it publishes of the others
             \* has no reveal
  fields,    \* the texts of the form
  verdict,   \* the verdict shown, with the inputs it judged
  errors,    \* the fields with a message
  lookup,    \* the bet id a lookup was started for
  acts

pageVars == <<fields, verdict, errors, lookup>>
vars == <<settled, pageVars, acts>>

------------------------------------------------------------------------------
(* The draw                                                                  *)

isKnownTier(t) == t \in 0..(Len(TIER_ODDS) - 1)
oddsFor(t) == TIER_ODDS[t + 1]

(* RushoodGame.outcomeOf, with which the contract settled the bet.            *)
OutcomeOf(b) ==
  LET r == BetRecord[b]
      roll == Draw[<<r.reveal, r.clientSeed, b>>] % TIER_ODDS[r.tier + 1]
  IN [roll |-> roll, win |-> roll = 0]

computeRoll(i) ==
  LET roll == Draw[<<i.serverReveal, i.clientEntropy, i.betId>>] % oddsFor(i.tier)
  IN [roll |-> roll, win |-> roll = 0]

(* The packed preimage has 32 bytes for each number: a larger one makes       *)
(* encodePacked throw.                                                        *)
Throws(i) == i.betId > MaxWord

commitmentMatches(i) == Keccak[i.serverReveal] = i.commitment

Disagrees(claim, value) == claim # Blank /\ claim # value

verifyRoll_NoLink(i) ==
  LET computed == computeRoll(i) IN
  [ok |-> ~Disagrees(i.win, computed.win) /\ ~Disagrees(i.roll, computed.roll),
   computed |-> computed]
verifyRoll(i) ==
  IF ~isKnownTier(i.tier)
  THEN [ok |-> FALSE, computed |-> [roll |-> 0, win |-> FALSE]]
  ELSE LET computed == computeRoll(i) IN
       [ok |-> /\ commitmentMatches(i)
               /\ ~Disagrees(i.roll, computed.roll)
               /\ ~Disagrees(i.win, computed.win),
        computed |-> computed]

------------------------------------------------------------------------------
(* Parsing, links and the command line                                       *)

(* Every field with a problem: a required one that is blank, any malformed one.*)
ParseErrors(raw) ==
  {f \in Required : raw[f] = Blank} \cup {f \in Fields : raw[f] = Malformed}

(* The inputs of a row of the history; the outcome is stated only once its     *)
(* event has been seen.                                                      *)
verifyInputsFor_AlwaysReports(row) ==
  [betId |-> row.betId, tier |-> row.tier, clientEntropy |-> row.clientSeed,
   commitment |-> row.commit, serverReveal |-> row.reveal,
   win |-> row.outcome = "won", roll |-> row.roll]
verifyInputsFor(row) ==
  [betId |-> row.betId, tier |-> row.tier, clientEntropy |-> row.clientSeed,
   commitment |-> row.commit, serverReveal |-> row.reveal,
   win |-> IF row.outcome = "pending" THEN Blank ELSE row.outcome = "won",
   roll |-> row.roll]

(* A link carries the inputs, and of the reported ones those that are known.   *)
verifyQueryParams(inputs) ==
  [f \in Required \cup {g \in Reported : inputs[g] # Blank} |-> inputs[f]]

NoText == [f \in Fields |-> Blank]

(* The texts of some fields over those of a form.                              *)
Over(some, form) ==
  [f \in DOMAIN some \cup DOMAIN form |-> IF f \in DOMAIN some THEN some[f] ELSE form[f]]

(* verify --url <link> --<field> <value>: a flag wins over the link.           *)
readArgs(flags, link) == Over(flags, Over(link, NoText))

(* The command line's exit code is zero.                                      *)
Exit0(raw) == ParseErrors(raw) = {} /\ ~Throws(raw) /\ verifyRoll(raw).ok

------------------------------------------------------------------------------
(* The rows the app may hold of a settled bet: its record read back before or  *)
(* after the event that tells the outcome.                                    *)
RowsOf(b) ==
  LET terms == [betId |-> b, tier |-> BetRecord[b].tier, commit |-> BetRecord[b].commit,
                clientSeed |-> BetRecord[b].clientSeed, reveal |-> BetRecord[b].reveal]
      told  == IF OutcomeOf(b).win THEN "won" ELSE "lost"
  IN { Over([outcome |-> "pending", roll |-> Blank], terms),
       Over([outcome |-> told, roll |-> OutcomeOf(b).roll], terms) }

AppLinks == UNION {{verifyQueryParams(verifyInputsFor(row)) : row \in RowsOf(b)} :
                   b \in settled}

Without(link, f) == [g \in DOMAIN link \ {f} |-> link[g]]

(* What reaches a player: a link of the app, one with a field lost, garbled or *)
(* exchanged with that of another bet.                                        *)
Links ==
  AppLinks \cup {Without(l, f) : l \in AppLinks, f \in Fields}
    \cup {[l EXCEPT ![f] = Malformed] : l \in AppLinks, f \in Required}
    \cup {[l EXCEPT ![f] = k[f]] : l \in AppLinks, k \in AppLinks, f \in Required}

EMPTY == [NoText EXCEPT !.tier = 0]

Init ==
  /\ settled = {}
  /\ fields = EMPTY
  /\ verdict = NoVerdict
  /\ errors = {}
  /\ lookup = Nothing
  /\ acts = 0

(* run: judge the given texts.  When the recomputation throws, the messages    *)
(* are gone and the verdict shown is the one before.                          *)
Run(raw) ==
  /\ errors' = ParseErrors(raw)
  /\ verdict' = IF ParseErrors(raw) # {} THEN NoVerdict
                ELSE IF Throws(raw) THEN verdict
                ELSE [inputs |-> raw, ok |-> verifyRoll(raw).ok,
                      computed |-> verifyRoll(raw).computed]

(* The effect of an opened link; it does not stop a lookup in flight.          *)
OpenLink(link) ==
  /\ acts < MaxActs
  /\ link # <<>>
  /\ fields' = Over(link, EMPTY)
  /\ Run(fields')
  /\ acts' = acts + 1
  /\ UNCHANGED <<settled, lookup>>

(* The form has an input for each required field, and for those only.          *)
Edit(f, text) ==
  /\ acts < MaxActs
  /\ f \in Required
  /\ fields[f] # text
  /\ fields' = [fields EXCEPT ![f] = text]
  /\ acts' = acts + 1
  /\ UNCHANGED <<settled, verdict, errors, lookup>>

PressVerify == Run(fields) /\ UNCHANGED <<settled, fields, lookup, acts>>

PressLookUp ==
  /\ lookup = Nothing /\ fields.betId # Blank
  /\ lookup' = fields.betId
  /\ UNCHANGED <<settled, fields, verdict, errors, acts>>

FilledIn_KeepsReported(form, betId) ==
  [form EXCEPT !.betId = betId, !.tier = BetRecord[betId].tier,
               !.clientEntropy = BetRecord[betId].clientSeed,
               !.commitment = BetRecord[betId].commit,
               !.serverReveal = IF betId \in settled THEN BetRecord[betId].reveal ELSE Blank]
FilledIn(form, betId) ==
  [form EXCEPT !.betId = betId, !.tier = BetRecord[betId].tier,
               !.clientEntropy = BetRecord[betId].clientSeed,
               !.commitment = BetRecord[betId].commit,
               !.serverReveal = IF betId \in settled THEN BetRecord[betId].reveal ELSE Blank,
               !.win = Blank, !.roll = Blank]

(* The record of the bet that was asked for replaces the whole form, edits     *)
(* made meanwhile included.                                                   *)
LookedUp ==
  /\ lookup \in BetIds
  /\ fields' = FilledIn(fields, lookup)
  /\ Run(fields')
  /\ lookup' = Nothing
  /\ UNCHANGED <<settled, acts>>

(* No such bet, no such number, or no answer.                                  *)
LookUpFails ==
  /\ lookup # Nothing
  /\ lookup' = Nothing
  /\ UNCHANGED <<settled, fields, verdict, errors, acts>>

(* The contract settles the next bet.                                         *)
Settle ==
  /\ \E b \in BetIds : /\ b \notin settled
                       /\ 1..(b - 1) \subseteq settled
                       /\ settled' = settled \cup {b}
  /\ UNCHANGED <<pageVars, acts>>

(* What a player pastes or types: published values, and mistakes.              *)
Texts(f) ==
  {Malformed} \cup
  CASE f = "betId" -> BetIds \cup {Blank, MaxWord + 1}
    [] f = "tier" -> {BetRecord[b].tier : b \in BetIds}
    [] f = "clientEntropy" -> {BetRecord[b].clientSeed : b \in BetIds} \cup {Blank}
    [] f = "commitment" -> {BetRecord[b].commit : b \in BetIds}
    [] f = "serverReveal" -> {BetRecord[b].reveal : b \in settled}

Next ==
  \/ \E link \in Links : OpenLink(link)
  \/ \E f \in Required : \E text \in Texts(f) : Edit(f, text)
  \/ PressVerify \/ PressLookUp \/ LookedUp \/ LookUpFails
  \/ Settle

Spec == Init /\ [][Next]_vars

------------------------------------------------------------------------------
(* A PASS that the page shows for the published terms of a bet (its id, tier,  *)
(* seed and commitment) is a PASS for what the contract did with that bet: the *)
(* same reveal, the same roll, and no claim about the outcome but the true one.*)
PassIsGenuine ==
  LET i == verdict.inputs IN
  (verdict # NoVerdict /\ verdict.ok /\ i.betId \in BetIds
     /\ i.tier = BetRecord[i.betId].tier
     /\ i.clientEntropy = BetRecord[i.betId].clientSeed
     /\ i.commitment = BetRecord[i.betId].commit)
  => /\ i.serverReveal = BetRecord[i.betId].reveal
     /\ verdict.computed = OutcomeOf(i.betId)
     /\ i.win \in {Blank, OutcomeOf(i.betId).win}

(* Opening a link that the app made shows a PASS, at whatever moment between   *)
(* the events and the reads the app made it, and whatever the page held; the   *)
(* command line agrees, and with one field of the link lost or garbled it      *)
(* agrees again once that field is given as a flag.                           *)
LinksPass ==
  [][\A l \in AppLinks :
       OpenLink(l) => /\ verdict' # NoVerdict /\ verdict'.ok
                      /\ Exit0(readArgs(<<>>, l))
                      /\ \A f \in Required : Exit0(readArgs([g \in {f} |-> l[f]], [l EXCEPT ![f] = Malformed]))]_vars

(* Looking a settled bet up ends with a PASS, whatever was in the form and     *)
(* whatever was opened or edited while the chain was being read.              *)
LookupsPass ==
  [][(LookedUp /\ lookup \in settled) => verdict' # NoVerdict /\ verdict'.ok]_vars
==============================================================================
