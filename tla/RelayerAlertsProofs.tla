-------------------------- MODULE RelayerAlertsProofs --------------------------
(***************************************************************************)
(* One diagnosis at a time, for every threshold and chain length: what a pass *)
(* reports never has both keys of an escalation, and what it assessed and did  *)
(* not report does not keep firing.                                          *)
(***************************************************************************)
EXTENDS RelayerAlerts, TLAPS

Escalations == {<<"rpc-down", "chain-stalled">>, <<"settlement-lag", "settlement-stalled">>}

(* Reported together, a key has an alert only if one of the conditions gave it.   *)
LEMMA TogetherReports ==
  ASSUME NEW some, NEW k \in ALERT_KEYS, Together(some)[k] # "none"
  PROVE  \E a \in some : a[k] # "none"
BY DEF Together

(* Each condition reports under the keys that are its own.                       *)
LEMMA OwnKeys ==
  ASSUME NEW k \in ALERT_KEYS
  PROVE  /\ \A state : livenessAlert(state)[k] # "none" => k = state
         /\ \A age : settlementLagAlert(age)[k] # "none" =>
              \/ k = "settlement-lag" /\ relayerHealth(age) = "lagging"
              \/ k = "settlement-stalled" /\ relayerHealth(age) = "stalled"
         /\ \A wei : fundingAlert(wei)[k] # "none" => k = "relayer-funding"
         /\ \A r : chainExhaustionAlert(r)[k] # "none" => k = "chain-exhaustion"
         /\ seedMismatchAlert[k] # "none" => k = "seed-mismatch"
<1>1. \A state : livenessAlert(state)[k] # "none" => k = state
  BY DEF livenessAlert, Quiet
<1>2. \A age : settlementLagAlert(age)[k] # "none" =>
              \/ k = "settlement-lag" /\ relayerHealth(age) = "lagging"
              \/ k = "settlement-stalled" /\ relayerHealth(age) = "stalled"
  BY DEF settlementLagAlert, Quiet
<1>3. \A wei : fundingAlert(wei)[k] # "none" => k = "relayer-funding"
  BY DEF fundingAlert, Quiet
<1>4. \A r : chainExhaustionAlert(r)[k] # "none" => k = "chain-exhaustion"
  BY DEF chainExhaustionAlert, Quiet
<1>5. seedMismatchAlert[k] # "none" => k = "seed-mismatch"
  BY DEF seedMismatchAlert, Quiet
<1>6. QED
  BY <1>1, <1>2, <1>3, <1>4, <1>5

(* So a pass reports at most one key of an escalation.                           *)
LEMMA JudgedOnce ==
  ASSUME NEW sinceBlock, NEW balanceRead \in BOOLEAN, NEW pair \in Escalations
  PROVE  "none" \in {Judged(sinceBlock, balanceRead)[pair[1]],
                     Judged(sinceBlock, balanceRead)[pair[2]]}
<1> DEFINE state == livenessState(0, sinceBlock)
<1> DEFINE some == {livenessAlert(state)}
               \cup (IF balanceRead THEN {fundingAlert(balance)} ELSE {})
               \cup (IF round = 0 THEN {seedMismatchAlert}
                     ELSE {chainExhaustionAlert(round), settlementLagAlert(betAge)})
<1>1. Judged(sinceBlock, balanceRead) = Together(some)
  BY DEF Judged
<1>2. ASSUME NEW k \in ALERT_KEYS, Together(some)[k] # "none"
      PROVE  \/ k \in {"relayer-funding", "seed-mismatch", "chain-exhaustion"}
             \/ k = state
             \/ k = "settlement-lag" /\ relayerHealth(betAge) = "lagging"
             \/ k = "settlement-stalled" /\ relayerHealth(betAge) = "stalled"
  <2>1. PICK a \in some : a[k] # "none"
    BY <1>2, TogetherReports
  <2>2. a \in {livenessAlert(state), fundingAlert(balance), seedMismatchAlert,
               chainExhaustionAlert(round), settlementLagAlert(betAge)}
    BY <2>1
  <2>3. QED
    BY <2>1, <2>2, OwnKeys
<1>3. state \in {"alive", "rpc-down", "chain-stalled"}
  BY DEF livenessState
<1> HIDE DEF state, some
<1>4. ASSUME pair = <<"rpc-down", "chain-stalled">>
      PROVE  "none" \in {Together(some)[pair[1]], Together(some)[pair[2]]}
  <2>1. "rpc-down" \in ALERT_KEYS /\ "chain-stalled" \in ALERT_KEYS
    BY DEF ALERT_KEYS
  <2>2. QED
    BY <1>2, <1>3, <1>4, <2>1
<1>5. ASSUME pair = <<"settlement-lag", "settlement-stalled">>
      PROVE  "none" \in {Together(some)[pair[1]], Together(some)[pair[2]]}
  <2>1. "settlement-lag" \in ALERT_KEYS /\ "settlement-stalled" \in ALERT_KEYS
    BY DEF ALERT_KEYS
  <2>2. QED
    BY <1>2, <1>3, <1>5, <2>1
<1>6. QED
  BY <1>1, <1>4, <1>5 DEF Escalations

(* A key that was assessed fires afterwards only if the pass reported it; another  *)
(* fires as before, or because the pass reported it.                            *)
LEMMA FiresIfReported ==
  ASSUME NEW alerts, NEW assessed, evaluate(alerts, assessed), NEW k \in ALERT_KEYS
  PROVE  /\ k \in assessed /\ firing'[k] # "none" => alerts[k] # "none"
         /\ k \notin assessed /\ alerts[k] = "none" => firing'[k] = firing[k]
<1>1. firing'[k] = IF k \in Delivers(alerts) THEN alerts[k]
                   ELSE IF k \in Resolves(alerts, assessed) THEN "none" ELSE firing[k]
  BY DEF evaluate
<1>2. QED
  BY <1>1 DEF Delivers, Resolves

(* So the keys of an escalation do not fire together after a pass.                 *)
LEMMA PassDiagnosesOnce ==
  ASSUME NEW alerts, evaluate(alerts, ALERT_KEYS),
         \A pair \in Escalations : "none" \in {alerts[pair[1]], alerts[pair[2]]}
  PROVE  OneDiagnosis'
<1>1. \A k \in ALERT_KEYS : firing'[k] # "none" => alerts[k] # "none"
  BY FiresIfReported
<1>2. /\ "none" \in {alerts["rpc-down"], alerts["chain-stalled"]}
      /\ "none" \in {alerts["settlement-lag"], alerts["settlement-stalled"]}
  <2>1. /\ <<"rpc-down", "chain-stalled">> \in Escalations
        /\ <<"settlement-lag", "settlement-stalled">> \in Escalations
    BY DEF Escalations
  <2>2. QED
    BY <2>1
<1>3. {"rpc-down", "chain-stalled", "settlement-lag", "settlement-stalled"} \subseteq ALERT_KEYS
  BY DEF ALERT_KEYS
<1>4. QED
  BY <1>1, <1>2, <1>3 DEF OneDiagnosis

(* A poll that failed judges liveness alone.                                     *)
LEMMA FailedPassKeeps ==
  ASSUME FailedPass
  PROVE  /\ \A k \in ALERT_KEYS \ LIVENESS_KEYS : firing'[k] = firing[k]
         /\ OneDiagnosis => OneDiagnosis'
<1> DEFINE state == livenessState(probeAge, blockAge)
<1>1. evaluate(livenessAlert(state), LIVENESS_KEYS) /\ state \in {"alive", "rpc-down", "chain-stalled"}
  BY DEF FailedPass, livenessState
<1>2. \A k \in ALERT_KEYS : livenessAlert(state)[k] # "none" => k = state
  BY OwnKeys
<1> HIDE DEF state
<1>3. ASSUME NEW k \in ALERT_KEYS \ LIVENESS_KEYS PROVE firing'[k] = firing[k]
  <2>1. k # state
    BY <1>1, <1>3 DEF LIVENESS_KEYS, ALERT_KEYS
  <2>2. QED
    BY <1>1, <1>2, <2>1, FiresIfReported
<1>4. ASSUME NEW k \in LIVENESS_KEYS, firing'[k] # "none" PROVE k = state
  <2>1. k \in ALERT_KEYS
    BY DEF LIVENESS_KEYS, ALERT_KEYS
  <2>2. QED
    BY <1>1, <1>2, <1>4, <2>1, FiresIfReported
<1>5. /\ {"settlement-lag", "settlement-stalled"} \subseteq ALERT_KEYS \ LIVENESS_KEYS
      /\ {"rpc-down", "chain-stalled"} \subseteq LIVENESS_KEYS
  BY DEF ALERT_KEYS, LIVENESS_KEYS
<1>6. QED
  BY <1>3, <1>4, <1>5 DEF OneDiagnosis

(* The operator is told one thing of an escalation at a time (livenessState,       *)
(* settlementLagAlert, Alerter.evaluate).                                       *)
THEOREM DiagnosesOnce == Spec => []OneDiagnosis
<1>1. Init => OneDiagnosis
  BY DEF Init, OneDiagnosis, Quiet, ALERT_KEYS
<1>2. ASSUME OneDiagnosis, [Next]_vars PROVE OneDiagnosis'
  <2>1. ASSUME NEW balanceRead \in BOOLEAN, Pass(balanceRead) PROVE OneDiagnosis'
    <3>1. evaluate(Judged(SeenBlockAge, balanceRead), ALERT_KEYS)
      BY <2>1 DEF Pass
    <3>2. QED
      BY <3>1, JudgedOnce, PassDiagnosesOnce
  <2>2. CASE FullPass \/ PassWithoutBalance
    BY <2>1, <2>2 DEF FullPass, PassWithoutBalance
  <2>3. CASE FailedPass
    BY <1>2, <2>3, FailedPassKeeps
  <2>4. CASE AbortedPass \/ Tick \/ NodeChanges \/ GameChanges \/ UNCHANGED vars
    <3>1. firing' = firing
      BY <2>4 DEF AbortedPass, Tick, NodeChanges, GameChanges, vars, alertVars
    <3>2. QED
      BY <1>2, <3>1 DEF OneDiagnosis
  <2>5. QED
    BY <1>2, <2>2, <2>3, <2>4 DEF Next
<1>3. QED
  BY <1>1, <1>2, PTL DEF Spec

(* A poll that failed clears nothing but liveness (loop.ts, the failed poll's       *)
(* assessed: LIVENESS_KEYS).                                                    *)
THEOREM FailedPollsClearNothing == Spec => FailedPollClearsNothing
<1>1. ASSUME [Next]_vars
      PROVE  [~reachable => \A k \in ALERT_KEYS \ LIVENESS_KEYS : firing'[k] = firing[k]]_vars
  <2>1. CASE FailedPass
    BY <2>1, FailedPassKeeps
  <2>2. CASE FullPass \/ PassWithoutBalance
    <3>1. reachable
      BY <2>2 DEF FullPass, PassWithoutBalance, Pass, Probed
    <3>2. QED
      BY <3>1
  <2>3. CASE AbortedPass \/ Tick \/ NodeChanges \/ GameChanges
    <3>1. firing' = firing
      BY <2>3 DEF AbortedPass, Tick, NodeChanges, GameChanges, alertVars
    <3>2. QED
      BY <3>1
  <2>4. QED
    BY <1>1, <2>1, <2>2, <2>3 DEF Next
<1>2. QED
  BY <1>1, PTL DEF Spec, FailedPollClearsNothing
==============================================================================
