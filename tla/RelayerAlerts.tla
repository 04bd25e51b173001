---------------------------- MODULE RelayerAlerts ----------------------------
(***************************************************************************)
(* What the operator is told: the conditions a relayer pass judges           *)
(* (service/loop.ts, conditions.ts, liveness.ts, relayer-health.ts) and the   *)
(* edge-triggered Alerter that reports them to one Healthchecks check         *)
(* (alerts.ts).                                                              *)
(*                                                                         *)
(* The chain and the node are an environment that changes between passes.    *)
(* Times are kept as ages, which saturate one unit past the threshold they   *)
(* are compared with.                                                        *)
(***************************************************************************)
EXTENDS Integers, FiniteSets

CONSTANTS
  chainLength, rotationMargin,   \* as in HashChain
  LAG_WARNING, SETTLE_TIMEOUT,   \* ages of an unsettled bet
  probeTimeout, blockStall,      \* ages of the last read and of the last new block
  ethPageWei, ethWarnWei,        \* gas balances
  Balances,                      \* gas balances the relayer may have
  MaxFaults                      \* bound on passes that a failed call cuts short

ASSUME AlertAssumption ==
  /\ {chainLength, rotationMargin, LAG_WARNING, SETTLE_TIMEOUT, probeTimeout,
      blockStall, ethPageWei, ethWarnWei, MaxFaults} \subseteq Nat
  /\ rotationMargin < chainLength
  /\ LAG_WARNING < SETTLE_TIMEOUT
  /\ ethPageWei <= ethWarnWei
  /\ Balances \subseteq Nat

ALERT_KEYS == {"settlement-lag", "settlement-stalled", "rpc-down", "chain-stalled",
               "chain-exhaustion", "seed-mismatch", "relayer-funding"}
LIVENESS_KEYS_NoStall == {"rpc-down"}
LIVENESS_KEYS == {"rpc-down", "chain-stalled"}

NoBet == -1

VARIABLES
  reachable,  \* the node answers
  advanced,   \* it has a block this relayer has not seen
  betAge,     \* age of the active bet, or NoBet
  round,      \* roundForHead of the head, 0 when it is on no derivable chain
  balance,    \* the relayer's gas balance
  probeAge,   \* since lastProbeOkAt
  blockAge,   \* since lastBlockAdvanceAt
  firing,     \* Alerter.firing: the severity each key fires with
  check,      \* the alert check as Healthchecks shows it
  wrong,      \* history: what the last pass resolved although it was still true
  faults

worldVars == <<reachable, advanced, betAge, round, balance>>
probeVars == <<probeAge, blockAge>>
alertVars == <<firing, check, wrong>>
vars == <<worldVars, probeVars, alertVars, faults>>

------------------------------------------------------------------------------
(* The conditions: each gives the severity of its key, or "none".            *)

Quiet == [k \in ALERT_KEYS |-> "none"]

relayerHealth(age) ==
  CASE age = NoBet -> "idle"
    [] age >= SETTLE_TIMEOUT -> "stalled"
    [] age \in LAG_WARNING..(SETTLE_TIMEOUT - 1) -> "lagging"
    [] OTHER -> "settling"

settlementLagAlert_OneKey(age) ==
  IF relayerHealth(age) \in {"lagging", "stalled"}
  THEN [Quiet EXCEPT !["settlement-lag"] = "page"] ELSE Quiet
settlementLagAlert(age) ==
  CASE relayerHealth(age) = "lagging" -> [Quiet EXCEPT !["settlement-lag"] = "page"]
    [] relayerHealth(age) = "stalled" -> [Quiet EXCEPT !["settlement-stalled"] = "page"]
    [] OTHER -> Quiet

fundingAlert(wei) ==
  [Quiet EXCEPT !["relayer-funding"] =
     IF wei < ethPageWei THEN "page" ELSE IF wei < ethWarnWei THEN "warn" ELSE "none"]

chainExhaustionAlert(r) ==
  IF r <= chainLength - rotationMargin THEN Quiet
  ELSE [Quiet EXCEPT !["chain-exhaustion"] = "page"]

seedMismatchAlert == [Quiet EXCEPT !["seed-mismatch"] = "page"]

livenessState_StallFirst(sinceProbe, sinceBlock) ==
  CASE sinceBlock > blockStall -> "chain-stalled"
    [] sinceProbe > probeTimeout -> "rpc-down"
    [] OTHER -> "alive"
livenessState(sinceProbe, sinceBlock) ==
  CASE sinceProbe > probeTimeout -> "rpc-down"
    [] sinceProbe <= probeTimeout /\ sinceBlock > blockStall -> "chain-stalled"
    [] OTHER -> "alive"

livenessAlert(state) ==
  IF state = "alive" THEN Quiet ELSE [Quiet EXCEPT ![state] = "page"]

(* Alerts of several conditions together: their keys are distinct.           *)
Together(some) ==
  [k \in ALERT_KEYS |->
     IF \E a \in some : a[k] # "none"
     THEN (CHOOSE a \in some : a[k] # "none")[k] ELSE "none"]

(* What a pass that read the chain reports: with the head on no derivable     *)
(* chain it returns before the reveal chain and the bet are looked at, and    *)
(* without a balance there is no funding alert.                              *)
Judged(sinceBlock, balanceRead) ==
  Together({livenessAlert(livenessState(0, sinceBlock))}
    \cup (IF balanceRead THEN {fundingAlert(balance)} ELSE {})
    \cup (IF round = 0 THEN {seedMismatchAlert}
          ELSE {chainExhaustionAlert(round), settlementLagAlert(betAge)}))

(* What no pass need have read: whether a condition holds all the same.       *)
StillTrue(k) ==
  \/ k = "relayer-funding" /\ fundingAlert(balance)[k] # "none"
  \/ settlementLagAlert(betAge)[k] # "none"
  \/ k = "chain-exhaustion" /\ chainExhaustionAlert(round)[k] # "none"
  \/ k = "seed-mismatch" /\ round = 0

------------------------------------------------------------------------------
(* Alerter.evaluate: deliver what is new or has escalated, then resolve what  *)
(* the pass assessed and did not report.                                     *)
Delivers(alerts) ==
  {k \in ALERT_KEYS :
     /\ alerts[k] # "none"
     /\ firing[k] = "none" \/ (firing[k] = "warn" /\ alerts[k] = "page")}

Resolves_Unscoped(alerts, assessed) ==
  {k \in ALERT_KEYS : firing[k] # "none" /\ alerts[k] = "none"}
Resolves(alerts, assessed) ==
  {k \in assessed : firing[k] # "none" /\ alerts[k] = "none"}

evaluate(alerts, assessed) ==
  LET new  == Delivers(alerts)
      over == Resolves(alerts, assessed)
  IN
  /\ firing' = [k \in ALERT_KEYS |-> IF k \in new THEN alerts[k]
                                     ELSE IF k \in over THEN "none" ELSE firing[k]]
  /\ check' = IF over # {} THEN "up" ELSE IF new # {} THEN "down" ELSE check
  /\ wrong' = {k \in over : StillTrue(k)}

------------------------------------------------------------------------------
Init ==
  /\ reachable = TRUE /\ advanced = FALSE
  /\ betAge = NoBet /\ round = 1 /\ balance \in Balances
  /\ probeAge = 0 /\ blockAge = 0
  /\ firing = Quiet /\ check = "up"
  /\ wrong = {}
  /\ faults = 0

(* What a successful poll notes before anything is judged.                   *)
SeenBlockAge == IF advanced THEN 0 ELSE blockAge
Probed ==
  /\ reachable
  /\ probeAge' = 0
  /\ blockAge' = SeenBlockAge
  /\ advanced' = FALSE

Pass(balanceRead) ==
  /\ Probed
  /\ evaluate(Judged(SeenBlockAge, balanceRead), ALERT_KEYS)
  /\ UNCHANGED <<reachable, betAge, round, balance>>

FullPass == Pass(TRUE) /\ UNCHANGED faults

(* The balance read fails on its own.                                        *)
PassWithoutBalance ==
  /\ faults < MaxFaults
  /\ faults' = faults + 1
  /\ Pass(FALSE)

(* The reads of the bet, or the ping of the dead man's switch, throw out of   *)
(* runPass: nothing is evaluated.                                            *)
AbortedPass ==
  /\ faults < MaxFaults
  /\ faults' = faults + 1
  /\ \/ betAge # NoBet /\ round # 0
     \/ livenessState(0, SeenBlockAge) = "alive"
  /\ Probed
  /\ UNCHANGED <<reachable, betAge, round, balance, alertVars>>

(* The poll fails: only liveness is judged, from what earlier passes noted.   *)
FailedPass ==
  /\ ~reachable
  /\ evaluate(livenessAlert(livenessState(probeAge, blockAge)), LIVENESS_KEYS)
  /\ UNCHANGED <<worldVars, probeVars, faults>>

------------------------------------------------------------------------------
(* The chain, the node and the clock                                         *)

Older(age, bound) == IF age > bound THEN age ELSE age + 1

Tick ==
  /\ probeAge' = Older(probeAge, probeTimeout)
  /\ blockAge' = Older(blockAge, blockStall)
  /\ betAge' = IF betAge \in {NoBet, SETTLE_TIMEOUT} THEN betAge ELSE betAge + 1
  /\ UNCHANGED <<reachable, advanced, round, balance, alertVars, faults>>

NodeChanges ==
  /\ \/ reachable' = ~reachable /\ UNCHANGED advanced
     \/ advanced' = TRUE /\ ~advanced /\ UNCHANGED reachable
  /\ UNCHANGED <<betAge, round, balance, probeVars, alertVars, faults>>

GameChanges ==
  /\ \/ betAge = NoBet /\ betAge' = 0 /\ UNCHANGED <<round, balance>>
     \/ betAge # NoBet /\ betAge' = NoBet /\ UNCHANGED <<round, balance>>
     \/ /\ \E r \in 0..chainLength : r # round /\ round' = r
        /\ UNCHANGED <<betAge, balance>>
     \/ /\ \E wei \in Balances : wei # balance /\ balance' = wei
        /\ UNCHANGED <<betAge, round>>
  /\ UNCHANGED <<reachable, advanced, probeVars, alertVars, faults>>

Next ==
  \/ FullPass \/ PassWithoutBalance \/ AbortedPass \/ FailedPass
  \/ Tick \/ NodeChanges \/ GameChanges

Spec == Init /\ [][Next]_vars

(* The loop keeps making passes and time passes.                             *)
Fairness ==
  /\ WF_vars(FullPass \/ FailedPass)
  /\ WF_vars(Tick)

FairSpec == Spec /\ Fairness

------------------------------------------------------------------------------
(* Properties                                                                *)

(* The two keys of one escalation never fire together: the operator is told   *)
(* either that the node is unreachable or that its chain is stalled, either   *)
(* that a bet is late or that it is refundable.                              *)
OneDiagnosis ==
  /\ "none" \in {firing["rpc-down"], firing["chain-stalled"]}
  /\ "none" \in {firing["settlement-lag"], firing["settlement-stalled"]}

(* A poll that failed clears nothing but liveness, whatever was firing.       *)
FailedPollClearsNothing ==
  [][~reachable => \A k \in ALERT_KEYS \ LIVENESS_KEYS : firing'[k] = firing[k]]_vars

(* A node that stays unreachable is reported as such, for as long as it is    *)
(* gone, whatever the chain was doing before.                                *)
DeadNodePages == <>[]~reachable => <>[](firing["rpc-down"] = "page")

(* A bet that nobody settles ends up reported as refundable, however many     *)
(* passes fail first.                                                        *)
StuckBetPages ==
  <>[](reachable /\ round # 0 /\ betAge # NoBet)
    => <>[](firing["settlement-stalled"] = "page")

(* alerts.ts: silence about a condition is not evidence that it cleared.      *)
ClearedMeansClear == wrong = {}
==============================================================================
