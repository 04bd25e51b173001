---------------------------- MODULE MCAdminConsole ----------------------------
(* Each operation with a value it takes and one it refuses, on each side of a    *)
(* bound; calls of others that move authority.                                  *)
(* The run has two scopes: all operations while the game is played, with the      *)
(* queue executed and cancelled by others; and the queue panel over few calls.   *)
EXTENDS AdminConsole

VARIABLE scope

Typed(id, fields_) == [id |-> id, raw |-> fields_]
SomeInputs ==
  { Typed("setBurnRate", <<MAX_BURN_RATE_BPS>>), Typed("setBurnRate", <<MAX_BURN_RATE_BPS + 1>>),
    Typed("setEconomicsGovernable", <<1>>), Typed("setMinBet", <<MAX_UINT + 1>>),
    Typed("setMinBet", <<1>>), Typed("setEdge", <<2, 1>>), Typed("setEdge", <<1, 2>>),
    Typed("setSolvencyCap", <<MIN_SOLVENCY_CAP_DEN>>), Typed("setTreasuryFloor", <<2>>),
    Typed("burnTreasuryProfit", <<2>>), Typed("burnTreasuryProfit", <<Malformed>>) }

SomeCalls == {[id |-> "setGovernance", args |-> <<>>], [id |-> "setGuardian", args |-> <<>>],
              [id |-> "revokeRole", args |-> <<>>], [id |-> "setBurnRate", args |-> <<0>>]}
SomeRoles == {{"proposer", "executor"}, {"proposer", "executor", "canceller"}}

OneInput == {Typed("setBurnRate", <<MAX_BURN_RATE_BPS>>)}
OneCall == {[id |-> "revokeRole", args |-> <<>>]}

MCInit ==
  /\ Init
  /\ scope \in {"values", "queue"}
  /\ scope = "queue" =>
       ~game.economicsGovernable /\ game.governance = "timelock" /\ game.guardian = "other"
MCNext ==
  /\ UNCHANGED scope
  /\ \/ scope = "values" /\ (Operator(Inputs) \/ Everybody(OthersCalls) \/ Players)
        /\ Len(timelock.log') <= 1
     \/ scope = "queue" /\ (Operator(OneInput) \/ QueuePanel \/ Everybody(OneCall))
MCSpec == MCInit /\ [][MCNext]_<<vars, scope>>
==============================================================================
