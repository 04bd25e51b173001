---------------------------- MODULE VerifierProofs ----------------------------
(***************************************************************************)
(* The verifier's verdicts, for every chain of bets, draw and course of links, *)
(* edits and lookups: a PASS for published terms is one for what the contract  *)
(* did, and the app's own links and lookups pass.                            *)
(***************************************************************************)
EXTENDS Verifier, TLAPS

(* The form always has all fields, and a reveal in it is one.                    *)
FormTyped ==
  /\ DOMAIN fields = Fields
  /\ fields["serverReveal"] \in Reveals \cup {Blank, Malformed}
  /\ settled \subseteq BetIds

(* What a text that parses and verifies says of the bet it names.                *)
Genuine(i) ==
  (/\ i.betId \in BetIds /\ i.tier = BetRecord[i.betId].tier
   /\ i.clientEntropy = BetRecord[i.betId].clientSeed
   /\ i.commitment = BetRecord[i.betId].commit)
  => /\ i.serverReveal = BetRecord[i.betId].reveal
     /\ computeRoll(i) = OutcomeOf(i.betId)
     /\ i.win \in {Blank, OutcomeOf(i.betId).win}

VerdictInv ==
  verdict # NoVerdict =>
    /\ verdict.ok =>
         verdict.computed = computeRoll(verdict.inputs) /\ Genuine(verdict.inputs)

VerifierInv == FormTyped /\ VerdictInv

(* The recomputation passes only with the reveal that the commitment binds.       *)
LEMMA PassOpensCommitment ==
  ASSUME NEW i, i.serverReveal \in Reveals, verifyRoll(i).ok
  PROVE  verifyRoll(i).computed = computeRoll(i) /\ Genuine(i)
<1>1. /\ isKnownTier(i.tier) /\ verifyRoll(i).computed = computeRoll(i)
      /\ commitmentMatches(i) /\ ~Disagrees(i.win, computeRoll(i).win)
  BY DEF verifyRoll
<1>2. ASSUME i.betId \in BetIds, i.tier = BetRecord[i.betId].tier,
             i.clientEntropy = BetRecord[i.betId].clientSeed,
             i.commitment = BetRecord[i.betId].commit
      PROVE  /\ i.serverReveal = BetRecord[i.betId].reveal
             /\ computeRoll(i) = OutcomeOf(i.betId)
             /\ i.win \in {Blank, OutcomeOf(i.betId).win}
  <2>1. Keccak[i.serverReveal] = Keccak[BetRecord[i.betId].reveal]
    BY <1>1, <1>2, VerifierAssumption DEF commitmentMatches
  <2>2. i.serverReveal = BetRecord[i.betId].reveal
    BY <1>2, <2>1, VerifierAssumption
  <2>3. computeRoll(i) = OutcomeOf(i.betId)
    BY <1>2, <2>2 DEF computeRoll, OutcomeOf, oddsFor
  <2>4. QED
    BY <1>1, <2>2, <2>3 DEF Disagrees
<1>3. QED
  BY <1>1, <1>2 DEF Genuine

(* A text without errors has a reveal.                                          *)
LEMMA ParsedReveal ==
  ASSUME NEW raw, raw["serverReveal"] \in Reveals \cup {Blank, Malformed}, ParseErrors(raw) = {}
  PROVE  raw.serverReveal \in Reveals
BY DEF ParseErrors, Required, Fields

(* So a verdict is genuine after any run on a typed form.                         *)
LEMMA RunKeepsVerdict ==
  ASSUME VerdictInv, NEW raw, raw["serverReveal"] \in Reveals \cup {Blank, Malformed}, Run(raw)
  PROVE  VerdictInv'
<1>1. CASE ParseErrors(raw) # {}
  BY <1>1 DEF Run, VerdictInv
<1>2. CASE ParseErrors(raw) = {} /\ Throws(raw)
  BY <1>2 DEF Run, VerdictInv
<1>3. CASE ParseErrors(raw) = {} /\ ~Throws(raw)
  <2>1. verdict' = [inputs |-> raw, ok |-> verifyRoll(raw).ok,
                    computed |-> verifyRoll(raw).computed]
    BY <1>3 DEF Run
  <2>2. verdict'.ok = verifyRoll(raw).ok /\ verdict'.computed = verifyRoll(raw).computed
        /\ verdict'.inputs = raw
    BY <2>1
  <2>3. QED
    BY <1>3, <2>2, ParsedReveal, PassOpensCommitment DEF VerdictInv
<1>4. QED
  BY <1>1, <1>2, <1>3

------------------------------------------------------------------------------
(* What reaches the form                                                      *)

(* A row of the app holds the record of its bet, and no outcome but the true one.  *)
LEMMA RowsAreRecords ==
  ASSUME NEW b \in BetIds, NEW row \in RowsOf(b)
  PROVE  /\ row.betId = b /\ row.tier = BetRecord[b].tier /\ row.commit = BetRecord[b].commit
         /\ row.clientSeed = BetRecord[b].clientSeed /\ row.reveal = BetRecord[b].reveal
         /\ row.outcome \in {"pending", IF OutcomeOf(b).win THEN "won" ELSE "lost"}
         /\ row.roll \in {Blank, OutcomeOf(b).roll}
BY DEF RowsOf, Over

(* So its link has the required fields of the record, and true reported ones.      *)
LinkOf(l, b) ==
  /\ Required \subseteq DOMAIN l /\ DOMAIN l \subseteq Fields
  /\ l["betId"] = b /\ l["tier"] = BetRecord[b].tier
  /\ l["clientEntropy"] = BetRecord[b].clientSeed
  /\ l["commitment"] = BetRecord[b].commit /\ l["serverReveal"] = BetRecord[b].reveal
  /\ "win" \in DOMAIN l => l["win"] = OutcomeOf(b).win
  /\ "roll" \in DOMAIN l => l["roll"] = OutcomeOf(b).roll

(* A link that the app made states a settled bet's record, and of its outcome     *)
(* nothing or the truth.                                                        *)
LEMMA AppLinksAreTrue ==
  ASSUME settled \subseteq BetIds, NEW l \in AppLinks
  PROVE  \E b \in settled : LinkOf(l, b)
<1>1. PICK b \in settled : \E row \in RowsOf(b) : l = verifyQueryParams(verifyInputsFor(row))
  BY DEF AppLinks
<1>2. PICK row \in RowsOf(b) : l = verifyQueryParams(verifyInputsFor(row))
  BY <1>1
<1> DEFINE inputs == verifyInputsFor(row)
<1>3. /\ inputs.betId = b /\ inputs.tier = BetRecord[b].tier
      /\ inputs.clientEntropy = BetRecord[b].clientSeed
      /\ inputs.commitment = BetRecord[b].commit /\ inputs.serverReveal = BetRecord[b].reveal
      /\ inputs.win \in {Blank, OutcomeOf(b).win} /\ inputs.roll \in {Blank, OutcomeOf(b).roll}
  <2>1. b \in BetIds /\ OutcomeOf(b).win \in BOOLEAN
    BY DEF OutcomeOf
  <2>2. QED
    BY <2>1, RowsAreRecords DEF verifyInputsFor
<1> HIDE DEF inputs
<1>4. l = [f \in Required \cup {g \in Reported : inputs[g] # Blank} |-> inputs[f]]
  BY <1>2 DEF inputs, verifyQueryParams
<1>5. QED
  BY <1>3, <1>4 DEF LinkOf, Required, Reported, Fields

(* A form filled with a bet's record.                                           *)
FormOf(raw, b) ==
  /\ DOMAIN raw = Fields
  /\ raw["betId"] = b /\ raw["tier"] = BetRecord[b].tier
  /\ raw["clientEntropy"] = BetRecord[b].clientSeed
  /\ raw["commitment"] = BetRecord[b].commit /\ raw["serverReveal"] = BetRecord[b].reveal
  /\ raw["win"] \in {Blank, OutcomeOf(b).win} /\ raw["roll"] \in {Blank, OutcomeOf(b).roll}

Passes(raw) == ParseErrors(raw) = {} /\ ~Throws(raw) /\ verifyRoll(raw).ok

(* The contract's outcome is a roll and whether it wins.                          *)
LEMMA OutcomeTyped ==
  ASSUME NEW b \in BetIds
  PROVE  OutcomeOf(b).win \in BOOLEAN /\ OutcomeOf(b).roll \in Nat
<1>1. BetRecord[b].tier \in 0..5
  BY VerifierAssumption
<1>2. TIER_ODDS[BetRecord[b].tier + 1] \in Nat \ {0}
  BY <1>1 DEF TIER_ODDS
<1> DEFINE roll == Draw[<<BetRecord[b].reveal, BetRecord[b].clientSeed, b>>]
                     % TIER_ODDS[BetRecord[b].tier + 1]
<1>3. Draw[<<BetRecord[b].reveal, BetRecord[b].clientSeed, b>>] \in Nat
  BY VerifierAssumption
<1>4. roll \in Nat
  BY <1>2, <1>3
<1>5. QED
  BY <1>4 DEF OutcomeOf

(* Such a form has no errors, does not throw and passes.                         *)
LEMMA RecordPasses ==
  ASSUME NEW b \in BetIds, NEW raw, FormOf(raw, b)
  PROVE  Passes(raw)
<1>1. /\ b \in Nat /\ b <= MaxWord /\ BetRecord[b].tier \in 0..5
      /\ BetRecord[b].clientSeed \in Seeds /\ BetRecord[b].reveal \in Reveals
      /\ BetRecord[b].commit \in Commits
      /\ BetRecord[b].commit = Keccak[BetRecord[b].reveal]
  BY VerifierAssumption
<1>2. ParseErrors(raw) = {}
  <2>1. \A f \in Required : raw[f] \notin {Blank, Malformed}
    BY <1>1, VerifierAssumption DEF FormOf, Required
  <2>2. \A f \in Reported : raw[f] # Malformed
    <3>1. OutcomeOf(b).win # Malformed
      BY OutcomeTyped, VerifierAssumption
    <3>2. OutcomeOf(b).roll # Malformed
      BY OutcomeTyped, VerifierAssumption
    <3>3. QED
      BY <3>1, <3>2, VerifierAssumption DEF FormOf, Reported
  <2>3. QED
    BY <2>1, <2>2 DEF ParseErrors, Fields
<1>3. ~Throws(raw)
  BY <1>1, VerifierAssumption DEF Throws, FormOf
<1>4. verifyRoll(raw).ok
  <2>1. isKnownTier(raw.tier) /\ commitmentMatches(raw)
    BY <1>1 DEF FormOf, isKnownTier, TIER_ODDS, commitmentMatches
  <2>2. computeRoll(raw) = OutcomeOf(b)
    BY DEF FormOf, computeRoll, OutcomeOf, oddsFor
  <2>3. ~Disagrees(raw.roll, computeRoll(raw).roll) /\ ~Disagrees(raw.win, computeRoll(raw).win)
    BY <2>2 DEF FormOf, Disagrees
  <2>4. QED
    BY <2>1, <2>3 DEF verifyRoll
<1>5. QED
  BY <1>2, <1>3, <1>4 DEF Passes

(* A link over a form that reports nothing is such a form, and so is a link with   *)
(* one field lost to noise and given again.                                     *)
LEMMA LinkFillsForm ==
  ASSUME NEW b \in BetIds, NEW l, LinkOf(l, b)
  PROVE  /\ FormOf(Over(l, EMPTY), b)
         /\ FormOf(readArgs(<<>>, l), b)
         /\ \A f \in Required :
              FormOf(readArgs([g \in {f} |-> l[f]], [l EXCEPT ![f] = Malformed]), b)
<1>1. FormOf(Over(l, EMPTY), b)
  BY DEF LinkOf, FormOf, Over, EMPTY, NoText, Required, Reported, Fields
<1>2. FormOf(Over(l, NoText), b)
  BY DEF LinkOf, FormOf, Over, NoText, Required, Reported, Fields
<1>3. readArgs(<<>>, l) = Over(l, NoText)
  BY DEF readArgs, Over
<1>4. ASSUME NEW f \in Required
      PROVE  FormOf(readArgs([g \in {f} |-> l[f]], [l EXCEPT ![f] = Malformed]), b)
  <2> DEFINE given == [g \in {f} |-> l[f]]
  <2> DEFINE noisy == [l EXCEPT ![f] = Malformed]
  <2>1. DOMAIN noisy = DOMAIN l /\ f \in DOMAIN l
        /\ \A g \in DOMAIN l : g # f => noisy[g] = l[g]
    BY DEF LinkOf
  <2>2. readArgs(given, noisy) = Over(l, NoText)
    <3>1. DOMAIN Over(noisy, NoText) = Fields /\ DOMAIN Over(l, NoText) = Fields
      BY <2>1 DEF Over, NoText, LinkOf
    <3>2. DOMAIN readArgs(given, noisy) = Fields
      BY <3>1 DEF readArgs, Over, Fields
    <3>3. ASSUME NEW g \in Fields PROVE readArgs(given, noisy)[g] = Over(l, NoText)[g]
      BY <2>1, <3>1 DEF readArgs, Over, NoText, Fields
    <3>4. QED
      BY <3>1, <3>2, <3>3 DEF readArgs, Over
  <2>3. QED
    BY <1>2, <2>2
<1>5. QED
  BY <1>1, <1>2, <1>3, <1>4

------------------------------------------------------------------------------
(* The steps                                                                  *)

(* Every link's reveal is one, or noise.                                        *)
LEMMA LinksTyped ==
  ASSUME settled \subseteq BetIds, NEW l \in Links
  PROVE  /\ DOMAIN l \subseteq Fields
         /\ "serverReveal" \in DOMAIN l => l["serverReveal"] \in Reveals \cup {Malformed}
<1>1. \A k \in AppLinks : /\ DOMAIN k \subseteq Fields /\ Required \subseteq DOMAIN k
                          /\ k["serverReveal"] \in Reveals
  BY AppLinksAreTrue, VerifierAssumption DEF LinkOf
<1>2. CASE l \in AppLinks
  BY <1>1, <1>2
<1>3. CASE \E k \in AppLinks, f \in Fields : l = Without(k, f)
  BY <1>1, <1>3 DEF Without
<1>4. CASE \E k \in AppLinks, f \in Required : l = [k EXCEPT ![f] = Malformed]
  BY <1>1, <1>4
<1>5. CASE \E k \in AppLinks, j \in AppLinks, f \in Required : l = [k EXCEPT ![f] = j[f]]
  BY <1>1, <1>5
<1>6. QED
  BY <1>2, <1>3, <1>4, <1>5 DEF Links

(* A link over the empty form gives every field a text.                           *)
LEMMA OverTyped ==
  ASSUME NEW l, DOMAIN l \subseteq Fields,
         "serverReveal" \in DOMAIN l => l["serverReveal"] \in Reveals \cup {Malformed}
  PROVE  /\ DOMAIN Over(l, EMPTY) = Fields
         /\ Over(l, EMPTY)["serverReveal"] \in Reveals \cup {Blank, Malformed}
BY DEF Over, EMPTY, NoText, Fields, Required, Reported

(* A lookup gives every field a text, and those of a settled bet's record.          *)
LEMMA FilledInTyped ==
  ASSUME FormTyped, NEW b \in BetIds
  PROVE  /\ DOMAIN FilledIn(fields, b) = Fields
         /\ FilledIn(fields, b)["serverReveal"] \in Reveals \cup {Blank}
         /\ b \in settled => FormOf(FilledIn(fields, b), b)
BY VerifierAssumption DEF FilledIn, FormTyped, FormOf, Fields, Required, Reported

(* Each step of the page keeps the verdict true to the texts it judged.             *)
LEMMA VerifierSteps ==
  ASSUME VerifierInv, [Next]_vars
  PROVE  VerifierInv'
<1>1. FormTyped /\ VerdictInv
  BY DEF VerifierInv
<1>2. ASSUME NEW l \in Links, OpenLink(l) PROVE VerifierInv'
  <2>1. fields' = Over(l, EMPTY) /\ Run(fields') /\ settled' = settled
    BY <1>2 DEF OpenLink
  <2>2. FormTyped'
    BY <1>1, <2>1, LinksTyped, OverTyped DEF FormTyped
  <2>3. VerdictInv'
    BY <1>1, <2>1, <2>2, RunKeepsVerdict DEF FormTyped
  <2>4. QED
    BY <2>2, <2>3 DEF VerifierInv
<1>3. ASSUME NEW f \in Required, NEW text \in Texts(f), Edit(f, text) PROVE VerifierInv'
  <2>1. f = "serverReveal" => text \in Reveals \cup {Malformed}
    BY <1>1, VerifierAssumption DEF Texts, FormTyped
  <2>2. QED
    BY <1>1, <1>3, <2>1 DEF Edit, VerifierInv, FormTyped, VerdictInv
<1>4. CASE PressVerify
  BY <1>1, <1>4, RunKeepsVerdict DEF PressVerify, VerifierInv, FormTyped
<1>5. CASE LookedUp
  <2>1. fields' = FilledIn(fields, lookup) /\ Run(fields') /\ settled' = settled
    BY <1>5 DEF LookedUp
  <2>2. FormTyped'
    BY <1>1, <1>5, <2>1, FilledInTyped DEF FormTyped, LookedUp
  <2>3. VerdictInv'
    BY <1>1, <2>1, <2>2, RunKeepsVerdict DEF FormTyped
  <2>4. QED
    BY <2>2, <2>3 DEF VerifierInv
<1>6. CASE PressLookUp \/ LookUpFails \/ Settle \/ UNCHANGED vars
  BY <1>1, <1>6 DEF PressLookUp, LookUpFails, Settle, vars, pageVars, VerifierInv, FormTyped,
                    VerdictInv
<1>7. QED
  BY <1>2, <1>3, <1>4, <1>5, <1>6 DEF Next

(* The invariant holds throughout.                                              *)
LEMMA VerifierInvariant == Spec => []VerifierInv
<1>1. Init => VerifierInv
  BY DEF Init, VerifierInv, FormTyped, VerdictInv, EMPTY, NoText, Fields, Required
<1>2. QED
  BY <1>1, VerifierSteps, PTL DEF Spec

(* A run on a form that passes shows a PASS.                                     *)
LEMMA RunPasses ==
  ASSUME NEW raw, Passes(raw), Run(raw)
  PROVE  verdict' # NoVerdict /\ verdict'.ok
<1>1. verdict' = [inputs |-> raw, ok |-> verifyRoll(raw).ok, computed |-> verifyRoll(raw).computed]
  BY DEF Passes, Run
<1>2. verdict'.ok
  BY <1>1 DEF Passes
<1>3. "ok" \in DOMAIN verdict' /\ "ok" \notin DOMAIN NoVerdict
  BY <1>1 DEF NoVerdict
<1>4. QED
  BY <1>2, <1>3

(* A PASS for published terms is one for what the contract did (verifyRoll,         *)
(* parseVerifyInputs, VerifyTool's run).                                        *)
THEOREM PassesAreGenuine == Spec => []PassIsGenuine
<1>1. VerifierInv => PassIsGenuine
  BY DEF VerifierInv, VerdictInv, Genuine, PassIsGenuine
<1>2. QED
  BY <1>1, VerifierInvariant, PTL

(* The app's own links pass, in the page and on the command line (verifyInputsFor,  *)
(* verifyQueryParams, readArgs).                                                *)
THEOREM AppLinksPass == Spec => LinksPass
<1> DEFINE Agreed(l) ==
      /\ verdict' # NoVerdict /\ verdict'.ok
      /\ Exit0(readArgs(<<>>, l))
      /\ \A f \in Required : Exit0(readArgs([g \in {f} |-> l[f]], [l EXCEPT ![f] = Malformed]))
<1>1. ASSUME VerifierInv, NEW l \in AppLinks, OpenLink(l)
      PROVE  Agreed(l)
  <2>1. PICK b \in BetIds : LinkOf(l, b)
    BY <1>1, AppLinksAreTrue DEF VerifierInv, FormTyped
  <2>2. verdict' # NoVerdict /\ verdict'.ok
    <3>1. Passes(fields') /\ Run(fields')
      BY <1>1, <2>1, LinkFillsForm, RecordPasses DEF OpenLink
    <3>2. QED
      BY <3>1, RunPasses
  <2>3. \A raw : FormOf(raw, b) => Exit0(raw)
    BY RecordPasses DEF Passes, Exit0
  <2>4. QED
    BY <2>1, <2>2, <2>3, LinkFillsForm
<1>2. ASSUME VerifierInv
      PROVE  [\A l \in AppLinks : OpenLink(l) => Agreed(l)]_vars
  BY <1>1, <1>2
<1>3. QED
  BY <1>2, VerifierInvariant, PTL DEF LinksPass

(* A lookup of a settled bet ends with a PASS (VerifyTool's lookup).               *)
THEOREM SettledLookupsPass == Spec => LookupsPass
<1>1. ASSUME VerifierInv, LookedUp, lookup \in settled
      PROVE  verdict' # NoVerdict /\ verdict'.ok
  <2>1. Passes(fields') /\ Run(fields')
    BY <1>1, FilledInTyped, RecordPasses DEF VerifierInv, LookedUp
  <2>2. QED
    BY <2>1, RunPasses
<1>2. QED
  BY <1>1, VerifierInvariant, PTL DEF LookupsPass
==============================================================================
