--------------------------- MODULE LaunchDeployment ---------------------------
(***************************************************************************)
(* The launch deployment (contracts/scripts/deploy-launch.ts with lib/genesis,*)
(* lib/seed-pool, lib/uniswap-price), the stand-up of Uniswap on a chain that *)
(* has none (deploy-uniswap-v3.ts), and the walking skeleton for local nodes  *)
(* (deploy-skeleton.ts).  Each transaction is an action, and the script may   *)
(* stop before any of them: a wallet, a node, an environment variable that is *)
(* only read there.  Every attempt deploys a stack of its own; one that no file *)
(* names is forgotten when its attempt ends.  The scripts sign with one          *)
(* deployer's key, so the operator runs one of them at a time.                  *)
(*                                                                         *)
(* RUSH is counted in small units; the price keeps its integer square root    *)
(* with Q in the place of 2^96.                                              *)
(***************************************************************************)
EXTENDS Integers, Sequences, FiniteSets

CONSTANTS
  Supply,         \* MAX_SUPPLY
  RUSH_PER_ETH,   \* the opening price
  Q,              \* 2^96
  Dust,           \* what the position manager may leave of the desired amount
  Leftovers,      \* what it may leave when the pool has somebody else's price
  LpEths,         \* values of LP_ETH_AMOUNT
  Seeds,          \* values of RELAYER_SEED: [text |-> ..., padded |-> BOOLEAN]
  LOCK_SECONDS,
  MaxStacks       \* bound on stacks and on position managers

DEFAULT_MASTER_SEED == [text |-> "rushood-dev-seed", padded |-> FALSE]
Unset == [text |-> "", padded |-> FALSE]
None  == [none |-> TRUE]
OtherPrice == [others |-> TRUE]   \* of a pool that the script did not price

(* GENESIS_ALLOCATION, in basis points of the supply, in the order of payment. *)
BUCKETS == <<"treasury", "liquidity", "community", "team", "staking">>
Bps == [treasury |-> 4500, liquidity |-> 2500, community |-> 1500, team |-> 1000,
        staking |-> 500]

ASSUME LaunchAssumption ==
  /\ {Supply, LOCK_SECONDS, Dust, MaxStacks} \subseteq Nat
  /\ {RUSH_PER_ETH, Q} \subseteq Nat \ {0}
  /\ Leftovers \subseteq Nat
  /\ LpEths \subseteq Nat \ {0}
  /\ Seeds \subseteq [text : STRING, padded : BOOLEAN]

VARIABLES
  network,     \* the Hardhat network the scripts run on
  now,         \* block.timestamp
  managers,    \* position managers stood up on this chain
  uniswapRun,  \* the one deploy-uniswap-v3.ts has deployed and not yet recorded
  uniswapFile, \* deployments/uniswap-<network>.json, 0 when there is none
  stacks,      \* the stacks on the chain that a file names, and the one being deployed
  launch,      \* the run of deploy-launch.ts
  file         \* deployments/<network>.json

deployVars == <<network, now, managers, uniswapRun, uniswapFile, stacks, launch, file>>

isLocal == network = "localhost"
HasCanonicalUniswap == network = "mainnet"
CanonicalManager == MaxStacks + 1   \* apart from those stood up, 1..MaxStacks

------------------------------------------------------------------------------
(* The genesis split                                                         *)

allocationOf(bucket) == (Supply * Bps[bucket]) \div 10000
allocationTotal ==
  allocationOf("treasury") + allocationOf("liquidity") + allocationOf("community")
    + allocationOf("team") + allocationOf("staking")

Holders == {"deployer", "treasury", "safe", "vesting", "pool"}
Destination == [treasury |-> "treasury", liquidity |-> "deployer", community |-> "safe",
                team |-> "vesting", staking |-> "safe"]

(* What an address should hold after the split: the Safe has two buckets.      *)
expectedByAddress(holder) ==
  LET Part(bucket) == IF Destination[bucket] = holder THEN allocationOf(bucket) ELSE 0
  IN Part("treasury") + Part("liquidity") + Part("community") + Part("team") + Part("staking")

Paid(held, to, amount) ==
  LET taken == [held EXCEPT !.deployer = @ - amount] IN [taken EXCEPT ![to] = @ + amount]

------------------------------------------------------------------------------
(* The opening price                                                         *)

(* Newton's iteration from above, to the floor of the root.                   *)
sqrtBigInt(value) ==
  LET step[x \in 1..value] == LET y == (x + value \div x) \div 2
                              IN IF y < x THEN step[y] ELSE x
  IN IF value < 2 THEN value ELSE step[value]

encodeSqrtPriceX96(amount0, amount1) == sqrtBigInt((amount1 * Q * Q) \div amount0)

(* Uniswap orders the tokens by address, and the amounts go with them.         *)
buildSeedParams_AmountsAsGiven(rushIs0, rush, eth) ==
  [rushIs0 |-> rushIs0, sqrtPriceX96 |-> encodeSqrtPriceX96(rush, eth)]
buildSeedParams(rushIs0, rush, eth) ==
  [rushIs0 |-> rushIs0,
   sqrtPriceX96 |-> IF rushIs0 THEN encodeSqrtPriceX96(rush, eth)
                               ELSE encodeSqrtPriceX96(eth, rush)]

------------------------------------------------------------------------------
(* deploy-uniswap-v3.ts: refused next to a canonical deployment, nothing to do *)
(* while the recorded one has code, and recorded once it is live.             *)
DeployUniswap ==
  /\ ~HasCanonicalUniswap
  /\ launch = None /\ uniswapRun = 0
  /\ uniswapFile = 0 /\ managers < MaxStacks
  /\ managers' = managers + 1
  /\ uniswapRun' = managers + 1
  /\ UNCHANGED <<network, now, uniswapFile, stacks, launch, file>>

RecordUniswap ==
  /\ uniswapRun # 0
  /\ uniswapFile' = uniswapRun
  /\ uniswapRun' = 0
  /\ UNCHANGED <<network, now, managers, stacks, launch, file>>

AbortUniswap ==
  /\ uniswapRun # 0
  /\ uniswapRun' = 0
  /\ UNCHANGED <<network, now, managers, uniswapFile, stacks, launch, file>>

------------------------------------------------------------------------------
(* deploy-launch.ts                                                          *)

Contracts == {"rush", "timelock", "treasury", "game", "vesting", "lpLock"}

Steps_RecordsEarly ==
  <<"rush", "timelock", "treasury", "game", "setGame", "vesting", "uniswap", "lpLock",
    "genesis", "split", "verify", "pool", "mint", "seeded", "unseeded", "record", "guardian",
    "governance">>
Steps ==
  <<"rush", "timelock", "treasury", "game", "setGame", "vesting", "uniswap", "lpLock",
    "genesis", "split", "verify", "pool", "mint", "seeded", "unseeded", "guardian",
    "governance", "record">>

At(step) == launch # None /\ launch.step <= Len(Steps) /\ Steps[launch.step] = step

this == stacks[launch.stack]
lpRushAmount(env) == env.lpEth * RUSH_PER_ETH
unseeded(env) == allocationOf("liquidity") - lpRushAmount(env)

(* The step done, the stack with the given change.                            *)
Step(stack) ==
  /\ stacks' = [stacks EXCEPT ![launch.stack] = stack]
  /\ launch' = [launch EXCEPT !.step = @ + 1]
  /\ UNCHANGED <<network, now, managers, uniswapRun, uniswapFile, file>>

(* The whole environment a run reads.  The operator takes the position manager *)
(* from the canonical deployment, from what deploy-uniswap-v3.ts printed, or   *)
(* leaves it out.                                                            *)
Managers == {0} \cup (IF HasCanonicalUniswap THEN {CanonicalManager} ELSE {uniswapFile})
Envs == [seed : Seeds \cup {Unset}, lpEth : LpEths, allowPartial : BOOLEAN, manager : Managers]

(* The dev seed is the fallback of a local node and refused elsewhere, letter  *)
(* by letter.                                                                *)
SeedAccepted(seed) == isLocal \/ seed \notin {Unset, DEFAULT_MASTER_SEED}
resolveMasterSeed(seed) == IF isLocal /\ seed = Unset THEN DEFAULT_MASTER_SEED ELSE seed

FreshStack(env) ==
  [built |-> {}, seed |-> resolveMasterSeed(env.seed), wired |-> FALSE, kind |-> "launch",
   held |-> [h \in Holders |-> IF h = "deployer" THEN Supply ELSE 0], sent |-> 0,
   manager |-> 0, pool |-> None, position |-> "none", unlockTime |-> 0,
   guardian |-> "deployer", governance |-> "deployer"]

Start(env) ==
  /\ launch = None /\ uniswapRun = 0 /\ Len(stacks) < MaxStacks
  /\ SeedAccepted(env.seed)
  /\ lpRushAmount(env) <= allocationOf("liquidity")
  /\ stacks' = Append(stacks, FreshStack(env))
  /\ launch' = [stack |-> Len(stacks) + 1, step |-> 1, env |-> env]
  /\ UNCHANGED <<network, now, managers, uniswapRun, uniswapFile, file>>

Build(contract) ==
  /\ contract \in Contracts /\ At(contract)
  /\ Step([this EXCEPT !.built = @ \cup {contract},
                       !.unlockTime = IF contract = "lpLock" THEN now + LOCK_SECONDS ELSE @])

SetGame == At("setGame") /\ Step([this EXCEPT !.wired = TRUE])

(* Locally, mocks; on a public network the addresses must have been given.     *)
ResolveUniswap ==
  /\ At("uniswap")
  /\ launch.env.manager # 0 \/ isLocal
  /\ Step([this EXCEPT !.manager = launch.env.manager])

(* Nothing moves unless the split uses up a supply that is all there.          *)
CheckGenesis ==
  /\ At("genesis")
  /\ allocationTotal = Supply
  /\ this.held.deployer = Supply
  /\ Step(this)

SendBucket ==
  /\ At("split")
  /\ LET bucket == BUCKETS[this.sent + 1]
         stack == [this EXCEPT !.held = Paid(@, Destination[bucket], allocationOf(bucket)),
                               !.sent = @ + 1]
     IN IF stack.sent = Len(BUCKETS) THEN Step(stack)
        ELSE /\ stacks' = [stacks EXCEPT ![launch.stack] = stack]
             /\ UNCHANGED <<network, now, managers, uniswapRun, uniswapFile, launch, file>>

VerifyGenesis ==
  /\ At("verify")
  /\ \A h \in Holders \ {"pool"} : this.held[h] = expectedByAddress(h)
  /\ Step(this)

(* A pool is anybody's to initialise as soon as the tokens are known, and while    *)
(* it is empty any trade moves its price.  Nothing reads the price before the      *)
(* pool's step, so what is set by then counts.  On a local node there is nobody else. *)
OthersSetPrice ==
  /\ At("pool") \/ At("mint")
  /\ ~isLocal
  /\ stacks' = [stacks EXCEPT ![launch.stack].pool = OtherPrice]
  /\ UNCHANGED <<network, now, managers, uniswapRun, uniswapFile, launch, file>>

(* seedPoolAndLock: wrap, approve, and initialise if that has not been done; which  *)
(* token is token0 depends on addresses nobody chose.                          *)
OpenPool(rushIs0) ==
  /\ At("pool")
  /\ Step([this EXCEPT
             !.pool = IF @ # None THEN @
                      ELSE buildSeedParams(rushIs0, lpRushAmount(launch.env), launch.env.lpEth)])

(* The mint has no minimum: it takes what the pool's price calls for.            *)
Leavings(pool) == IF pool = OtherPrice THEN Leftovers ELSE {0, Dust}
MintPosition(left) ==
  /\ At("mint")
  /\ left \in Leavings(this.pool) /\ lpRushAmount(launch.env) >= left
  /\ Step([this EXCEPT !.held = Paid(@, "pool", lpRushAmount(launch.env) - left),
                       !.position = "lock"])

PartialAccepted(env) == unseeded(env) > 0 => isLocal \/ env.allowPartial
CheckSeeded == At("seeded") /\ PartialAccepted(launch.env) /\ Step(this)

SendUnseeded ==
  /\ At("unseeded")
  /\ Step([this EXCEPT !.held = Paid(@, "safe", unseeded(launch.env))])

SetGuardian ==
  At("guardian") /\ this.governance = "deployer" /\ Step([this EXCEPT !.guardian = "safe"])
SetGovernance ==
  At("governance") /\ this.governance = "deployer" /\ Step([this EXCEPT !.governance = "timelock"])

WriteRecord ==
  /\ At("record")
  /\ file' = [stack |-> launch.stack, unseeded |-> unseeded(launch.env),
              manager |-> this.manager, unlockTime |-> this.unlockTime]
  /\ launch' = [launch EXCEPT !.step = @ + 1]
  /\ UNCHANGED <<network, now, managers, uniswapRun, uniswapFile, stacks>>

(* The end of the script, or the error that stops it before its next step.     *)
Exit ==
  /\ launch # None
  /\ launch' = None
  /\ stacks' = IF file # None /\ file.stack = launch.stack THEN stacks
               ELSE SubSeq(stacks, 1, launch.stack - 1)
  /\ UNCHANGED <<network, now, managers, uniswapRun, uniswapFile, file>>

(* deploy-skeleton.ts, on a local node: an aborted run leaves no record.  It    *)
(* has no vesting, lock or pool, and a timelock only when a Safe is named.     *)
SkeletonFunding == 1
DeploySkeleton(handOver) ==
  /\ isLocal /\ launch = None /\ uniswapRun = 0 /\ Len(stacks) < MaxStacks
  /\ LET env == [seed |-> Unset]
         stack == [FreshStack(env) EXCEPT
                     !.kind = "skeleton", !.wired = TRUE,
                     !.built = {"rush", "treasury", "game"}
                                 \cup (IF handOver THEN {"timelock"} ELSE {}),
                     !.held = Paid(@, "treasury", SkeletonFunding),
                     !.guardian = IF handOver THEN "safe" ELSE @,
                     !.governance = IF handOver THEN "timelock" ELSE @]
     IN stacks' = Append(stacks, stack)
  /\ file' = [stack |-> Len(stacks) + 1, unseeded |-> 0, manager |-> 0, unlockTime |-> 0]
  /\ UNCHANGED <<network, now, managers, uniswapRun, uniswapFile, launch>>

(* The whole script, from Start to Exit, as those who read its record see it: of   *)
(* the price, which has been traded away since, only that it was not the script's. *)
WholeStack(env, pool, left) ==
  LET inPool == lpRushAmount(env) - left IN
  [FreshStack(env) EXCEPT
     !.built = Contracts, !.wired = TRUE, !.sent = Len(BUCKETS), !.manager = env.manager,
     !.held = [deployer |-> left, treasury |-> allocationOf("treasury"), pool |-> inPool,
               vesting |-> allocationOf("team"),
               safe |-> allocationOf("community") + allocationOf("staking") + unseeded(env)],
     !.pool = pool, !.position = "lock", !.unlockTime = now + LOCK_SECONDS,
     !.guardian = "safe", !.governance = "timelock"]

WholeLaunch(env, pool, left) ==
  /\ launch = None /\ uniswapRun = 0 /\ Len(stacks) < MaxStacks
  /\ SeedAccepted(env.seed) /\ PartialAccepted(env) /\ (env.manager # 0 \/ isLocal)
  /\ unseeded(env) >= 0 /\ lpRushAmount(env) >= left /\ left \in Leavings(pool)
  /\ pool = OtherPrice => ~isLocal
  /\ stacks' = Append(stacks, WholeStack(env, pool, left))
  /\ file' = [stack |-> Len(stacks) + 1, unseeded |-> unseeded(env), manager |-> env.manager,
              unlockTime |-> now + LOCK_SECONDS]
  /\ UNCHANGED <<network, now, managers, uniswapRun, uniswapFile, launch>>

DeployInit ==
  /\ network \in {"localhost", "testnet", "mainnet"}
  /\ now = 0 /\ uniswapRun = 0
  /\ uniswapFile \in IF HasCanonicalUniswap THEN {0} ELSE {0, 1}
  /\ managers = uniswapFile
  /\ stacks = <<>> /\ launch = None /\ file = None

DeployNext ==
  \/ DeployUniswap \/ RecordUniswap \/ AbortUniswap
  \/ \E env \in Envs : Start(env)
  \/ \E contract \in Contracts : Build(contract)
  \/ SetGame \/ ResolveUniswap \/ CheckGenesis \/ SendBucket \/ VerifyGenesis
  \/ OthersSetPrice
  \/ \E rushIs0 \in BOOLEAN : OpenPool(rushIs0)
  \/ \E left \in {0, Dust} \cup Leftovers : MintPosition(left)
  \/ CheckSeeded \/ SendUnseeded \/ SetGuardian \/ SetGovernance \/ WriteRecord \/ Exit
  \/ \E handOver \in BOOLEAN : DeploySkeleton(handOver)

DeploySpec == DeployInit /\ [][DeployNext]_deployVars

------------------------------------------------------------------------------
Recorded == {n \in DOMAIN stacks : file # None /\ file.stack = n}

(* A launch stack that the deployment file names is whole: every contract       *)
(* stands and the game is the treasury's, each allocation is where the spec     *)
(* puts it but for what the mint left with the deployer (dust, unless others had  *)
(* set the pool's price), the position went to the lock until the recorded date   *)
(* at least, the deployer has no role left, and what was not to be seeded is on   *)
(* record; whatever attempts failed before, and wherever (deploy-launch.ts).      *)
RecordedStackIsComplete ==
  \A n \in Recorded :
    LET s == stacks[n] IN
    s.kind = "launch" =>
      /\ s.position # "none" /\ file.unlockTime <= s.unlockTime
      /\ \E lpEth \in LpEths, left \in Leavings(s.pool) :
           LET env == [seed |-> s.seed, lpEth |-> lpEth, manager |-> s.manager] IN
           /\ file.unseeded = unseeded(env)
           /\ [s EXCEPT !.unlockTime = 0, !.position = "lock"]
                = [WholeStack(env, s.pool, left) EXCEPT !.unlockTime = 0]

(* A pool whose price is the script's has the price RUSH_PER_ETH, whichever token  *)
(* sorts first and however much is seeded: the price is token1 per token0, so the  *)
(* square of sqrtPriceX96 is Q * Q / RUSH_PER_ETH or Q * Q * RUSH_PER_ETH, to the  *)
(* last unit of the root (uniswap-price.ts buildSeedParams).  A pool that somebody *)
(* else priced has whatever price it has.                                       *)
IsRoot(root, num, den) ==
  root * root * den <= num /\ num < (root + 1) * (root + 1) * den
ScriptPriceIsPinned ==
  \A n \in DOMAIN stacks :
    LET p == stacks[n].pool
    IN p \notin {None, OtherPrice} =>
         IF p.rushIs0 THEN IsRoot(p.sqrtPriceX96, Q * Q, RUSH_PER_ETH)
         ELSE IsRoot(p.sqrtPriceX96, Q * Q * RUSH_PER_ETH, 1)
==============================================================================
