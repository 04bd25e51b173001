---------------------------- MODULE MCLaunchRecords ----------------------------
(* A supply of which every share is whole, seeds with and without padding, and  *)
(* a relayer environment with each variable changed in turn.                   *)
(* The run has two scopes: the steps of the deployments and what stops them,    *)
(* and everything that happens around deployments that are whole, as            *)
(* RecordedStackIsComplete shows the recorded ones to be.                      *)
EXTENDS LaunchRecords

VARIABLE scope

OneTarget == <<"game">>

Seed(text, padded) == [text |-> text, padded |-> padded]
SomeSeeds == {Seed("secret", FALSE), Seed(DevSeed, TRUE)}

Named == [network |-> "testnet", rpcUrl |-> Blank, gameAddress |-> Blank, privateKey |-> "key",
          seed |-> Seed("secret", TRUE), credential |-> Blank, chainLength |-> Blank,
          rotationMargin |-> Blank, ethWarn |-> Blank, ethPage |-> Blank,
          healthcheckUrl |-> "ping", alertUrl |-> "alert"]

SomeEnvs ==
  { Named,
    [Named EXCEPT !.rpcUrl = "elsewhere"],
    [Named EXCEPT !.network = Blank, !.rpcUrl = "home", !.gameAddress = 1],
    [Named EXCEPT !.network = Blank, !.rpcUrl = "home", !.gameAddress = 1,
                  !.seed = Seed(DevSeed, TRUE)],
    [Named EXCEPT !.network = Blank, !.rpcUrl = "elsewhere", !.gameAddress = 1],
    [Named EXCEPT !.seed = Blank, !.credential = Seed("secret", FALSE)],
    [Named EXCEPT !.rotationMargin = 99] }

(* In the second a record from before stamping lies about, a local node keeps    *)
(* its mocks, and others price the pool of one stack at most.                   *)
PricedByOthers == {n \in DOMAIN stacks : stacks[n].pool = OtherPrice}

MCInit ==
  /\ Init
  /\ \/ scope = "steps" /\ record = None
     \/ scope = "whole" /\ record # None /\ (isLocal => uniswapFile = 0)
MCNext ==
  \/ scope = "steps" /\ DeployNext /\ UNCHANGED <<recordsVars, scope>>
  \/ scope = "whole" /\ Next /\ Cardinality(PricedByOthers') <= 1 /\ UNCHANGED scope
MCSpec == MCInit /\ [][MCNext]_<<vars, scope>>
==============================================================================
