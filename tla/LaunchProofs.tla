------------------------------ MODULE LaunchProofs ------------------------------
(***************************************************************************)
(* The launch, for any supply, price, seeds and environments: what is on      *)
(* record of a stack, on the published page and in a running relayer stays    *)
(* true of the chain, whatever was deployed, checked, published, extended or  *)
(* withdrawn meanwhile; and the price that the script sets is the pinned one.  *)
(***************************************************************************)
EXTENDS LaunchRecords, FiniteSetTheorems, SequenceTheorems, TLAPS

SeedTexts == Seeds \cup {Unset, DEFAULT_MASTER_SEED}
Pools    == {None, OtherPrice} \cup {buildSeedParams(rushIs0, eth * RUSH_PER_ETH, eth) :
                           rushIs0 \in BOOLEAN, eth \in LpEths}
Lefts    == {0, Dust} \cup Leftovers

Stack ==
  [built : SUBSET Contracts, seed : SeedTexts, wired : BOOLEAN, kind : {"launch", "skeleton"},
   held : [Holders -> Int], sent : Nat, manager : Nat, pool : Pools,
   position : {"none", "lock", "withdrawn"}, unlockTime : Nat,
   guardian : {"deployer", "safe"}, governance : {"deployer", "timelock"}]

StacksTyped == stacks \in Seq(Stack) /\ Len(stacks) <= MaxStacks /\ now \in Nat

(* What is compared of a recorded stack: all but where the position is and until  *)
(* when.                                                                     *)
Essence(s) == [s EXCEPT !.unlockTime = 0, !.position = "lock"]

EnvOf(s, lpEth) == [seed |-> s.seed, lpEth |-> lpEth, manager |-> s.manager]
CompleteAs(s, d, lpEth, left) ==
  /\ d.unseeded = unseeded(EnvOf(s, lpEth))
  /\ Essence(s) = [WholeStack(EnvOf(s, lpEth), s.pool, left) EXCEPT !.unlockTime = 0]
Locked(s, d) == s.position # "none" /\ d.unlockTime <= s.unlockTime
Complete(n) ==
  stacks[n].kind = "launch" =>
    /\ Locked(stacks[n], file)
    /\ \E lpEth \in LpEths, left \in Leavings(stacks[n].pool) :
         CompleteAs(stacks[n], file, lpEth, left)

(* What nothing after a launch takes back: stacks stay, with their seed, their   *)
(* allocations and their manager; a lock is only extended, and a position only   *)
(* leaves it once its time has come.                                         *)
StacksKept ==
  /\ now <= now'
  /\ \A n \in DOMAIN stacks :
       /\ n \in DOMAIN stacks'
       /\ stacks'[n].seed = stacks[n].seed
       /\ stacks'[n].held = stacks[n].held
       /\ stacks'[n].manager = stacks[n].manager
       /\ stacks'[n].kind = stacks[n].kind
       /\ stacks'[n].pool = stacks[n].pool
       /\ stacks[n].unlockTime <= stacks'[n].unlockTime
       /\ \/ stacks'[n].position = stacks[n].position
          \/ now >= stacks[n].unlockTime /\ stacks'[n].position # "none"
       /\ Essence(stacks'[n]) = Essence(stacks[n])

(* The inductive invariant.  What is said of a stack's liquidity on a date, in the  *)
(* deployment file, in a publication under way and on the page: the lock holds     *)
(* the position until then.                                                    *)
Liquidity(n, until, rest) ==
  /\ n \in DOMAIN stacks /\ until \in Nat
  /\ until <= stacks[n].unlockTime
  /\ now < until => stacks[n].position = "lock"
  /\ allocationOf("liquidity") - stacks[n].held["pool"] - rest = stacks[n].held["deployer"]
  /\ stacks[n].pool # OtherPrice => stacks[n].held["deployer"] \in 0..Dust

Describes(d) ==
  /\ Liquidity(d.stack, d.unlockTime, d.unseeded)
  /\ (stacks[d.stack].manager = CanonicalManager)
       <=> (HasCanonicalUniswap /\ d.manager = CanonicalManager)

File == [stack : Nat, unseeded : Int, manager : Nat, unlockTime : Nat]
Publication == [deployed : File, next : Nat \ {0}, attempt : Nat, polling : BOOLEAN,
                verified : SUBSET STRING]

OneScript == launch = None /\ uniswapRun = 0 /\ uniswapFile \in {0, 1}
FileIsTrue ==
  file # None =>
    /\ file \in File /\ file.stack \in DOMAIN stacks
    /\ ~isLocal => Describes(file)
PubIsTrue ==
  pub # None =>
    /\ pub \in Publication /\ ~isLocal /\ Describes(pub.deployed)
    /\ \A c \in pub.verified : <<pub.deployed.stack, c>> \in confirmed
RecordIsEarned ==
  record # None /\ record.stack # 0 /\ record.passed => record.stack \in earned
PageIsTrue ==
  page # None =>
    /\ Liquidity(page.stack, page.unlockTime, page.unseeded)
    /\ page.selfDeployed = (stacks[page.stack].manager # CanonicalManager)
ServiceIsLive == service # None => service.gameAddress \in DOMAIN stacks

IInv ==
  /\ StacksTyped /\ OneScript
  /\ FileIsTrue /\ PubIsTrue /\ RecordIsEarned /\ PageIsTrue /\ PageIsEarned
  /\ ServiceIsLive /\ BootedRelayerServes
  /\ RecordedStackIsComplete

------------------------------------------------------------------------------
(* The stacks                                                                *)

(* Every stack is a typed one.                                                *)
LEMMA TypedStacks ==
  ASSUME StacksTyped
  PROVE  /\ Len(stacks) \in Nat /\ DOMAIN stacks = 1..Len(stacks)
         /\ stacks \in [1..Len(stacks) -> Stack]
BY LenProperties DEF StacksTyped

(* Each bucket is a natural amount.                                            *)
LEMMA Allocations ==
  ASSUME NEW bucket \in {"treasury", "liquidity", "community", "team", "staking"}
  PROVE  allocationOf(bucket) \in Nat
<1>1. Bps[bucket] \in Nat
  BY DEF Bps
<1>2. PICK amount \in Nat : amount = Supply * Bps[bucket]
  BY <1>1, LaunchAssumption
<1>3. amount \div 10000 \in Nat
  OBVIOUS
<1>4. QED
  BY <1>2, <1>3 DEF allocationOf

(* A stack that is deployed is the last one, and the others are as they were.    *)
LEMMA Appended ==
  ASSUME StacksTyped, Len(stacks) < MaxStacks, NEW s \in Stack,
         stacks' = Append(stacks, s), now' = now
  PROVE  /\ StacksTyped' /\ StacksKept
         /\ Len(stacks) + 1 \in DOMAIN stacks' /\ stacks'[Len(stacks) + 1] = s
<1>1. Len(stacks) \in Nat /\ DOMAIN stacks = 1..Len(stacks) /\ stacks \in [1..Len(stacks) -> Stack]
  BY TypedStacks
<1>2. /\ stacks' \in Seq(Stack) /\ Len(stacks') = Len(stacks) + 1
      /\ \A i \in 1..Len(stacks) : stacks'[i] = stacks[i]
      /\ stacks'[Len(stacks) + 1] = s
  BY <1>1, AppendProperties DEF StacksTyped
<1>3. DOMAIN stacks' = 1..Len(stacks')
  BY <1>2, LenProperties
<1>4. \A n \in DOMAIN stacks : stacks[n].unlockTime \in Nat
  BY <1>1 DEF Stack
<1>5. StacksKept
  BY <1>1, <1>2, <1>3, <1>4 DEF StacksKept, StacksTyped
<1>6. QED
  BY <1>1, <1>2, <1>3, <1>5, LaunchAssumption DEF StacksTyped

(* The lock's two transactions.                                               *)
LEMMA LockStep ==
  ASSUME StacksTyped, NEW n \in DOMAIN stacks, NEW until \in Nat,
         NEW where \in {"none", "lock", "withdrawn"},
         stacks[n].unlockTime <= until,
         where = stacks[n].position \/ (now >= stacks[n].unlockTime /\ where # "none"),
         stacks' = [stacks EXCEPT ![n] = [stacks[n] EXCEPT !.unlockTime = until,
                                                           !.position = where]],
         now' = now
  PROVE  StacksTyped' /\ StacksKept
<1>1. Len(stacks) \in Nat /\ DOMAIN stacks = 1..Len(stacks) /\ stacks \in [1..Len(stacks) -> Stack]
  BY TypedStacks
<1>2. PICK s \in Stack : s = stacks[n]
  BY <1>1
<1>3. PICK r \in Stack : r = [s EXCEPT !.unlockTime = until, !.position = where]
  BY DEF Stack
<1>4. /\ stacks' \in Seq(Stack) /\ Len(stacks') = Len(stacks)
      /\ \A j \in 1..Len(stacks) : stacks'[j] = IF j = n THEN r ELSE stacks[j]
  <2>1. stacks' = [stacks EXCEPT ![n] = r]
    BY <1>2, <1>3
  <2>2. QED
    BY <1>1, <2>1, ExceptSeq DEF StacksTyped
<1>5. DOMAIN stacks' = 1..Len(stacks')
  BY <1>4, LenProperties
<1>6. /\ r.seed = s.seed /\ r.held = s.held /\ r.manager = s.manager /\ r.kind = s.kind
      /\ r.pool = s.pool /\ r.unlockTime = until /\ r.position = where
  BY <1>3 DEF Stack
<1>7. Essence(r) = Essence(s)
  BY <1>3 DEF Essence, Stack
<1>8. \A j \in DOMAIN stacks : stacks[j].unlockTime \in Nat
  BY <1>1 DEF Stack
<1>9. StacksKept
  BY <1>1, <1>2, <1>4, <1>5, <1>6, <1>7, <1>8 DEF StacksKept, StacksTyped
<1>10. QED
  BY <1>4, <1>9 DEF StacksTyped

(* So is the one a launch begins with, whatever else its environment holds.      *)
LEMMA FreshTyped ==
  ASSUME NEW env, env.seed \in SeedTexts
  PROVE  /\ FreshStack(env) \in Stack
         /\ FreshStack(env).seed = resolveMasterSeed(env.seed)
         /\ FreshStack(env).kind = "launch" /\ FreshStack(env).manager = 0
         /\ FreshStack(env).pool = None
         /\ FreshStack(env).held["pool"] = 0
<1>1. PICK h \in [Holders -> Int] :
        h = [holder \in Holders |-> IF holder = "deployer" THEN Supply ELSE 0]
  <2>1. Supply \in Int
    BY LaunchAssumption
  <2>2. [holder \in Holders |-> IF holder = "deployer" THEN Supply ELSE 0] \in [Holders -> Int]
    BY <2>1
  <2>3. QED
    BY <2>2
<1>2. PICK seed \in SeedTexts : seed = resolveMasterSeed(env.seed)
  BY DEF resolveMasterSeed, SeedTexts
<1>3. None \in Pools
  BY DEF Pools
<1>4. FreshStack(env) =
        [built |-> {}, seed |-> seed, wired |-> FALSE, kind |-> "launch", held |-> h,
         sent |-> 0, manager |-> 0, pool |-> None, position |-> "none", unlockTime |-> 0,
         guardian |-> "deployer", governance |-> "deployer"]
  BY <1>1, <1>2 DEF FreshStack
<1>5. h["pool"] = 0
  BY <1>1 DEF Holders
<1>6. QED
  BY <1>2, <1>3, <1>4, <1>5 DEF Stack

(* The stack of a whole launch is typed, and what matters of it later.          *)
LEMMA WholeTyped ==
  ASSUME now \in Nat, NEW env, NEW pool \in Pools, NEW left \in Lefts,
         env.seed \in SeedTexts, env.lpEth \in LpEths, env.manager \in Nat
  PROVE  /\ WholeStack(env, pool, left) \in Stack
         /\ WholeStack(env, pool, left).seed = resolveMasterSeed(env.seed)
         /\ WholeStack(env, pool, left).kind = "launch"
         /\ WholeStack(env, pool, left).held["pool"] = lpRushAmount(env) - left
         /\ WholeStack(env, pool, left).held["deployer"] = left
         /\ WholeStack(env, pool, left).manager = env.manager
         /\ WholeStack(env, pool, left).position = "lock" /\ WholeStack(env, pool, left).pool = pool
         /\ WholeStack(env, pool, left).unlockTime = now + LOCK_SECONDS
         /\ unseeded(env) \in Int /\ lpRushAmount(env) \in Nat
<1>2. PICK amount \in Nat : amount = lpRushAmount(env)
  <2>1. env.lpEth \in Nat /\ RUSH_PER_ETH \in Nat
    BY LaunchAssumption
  <2>2. QED
    BY <2>1 DEF lpRushAmount
<1>3. unseeded(env) = allocationOf("liquidity") - amount
  BY <1>2 DEF unseeded
<1>4. PICK rest \in Int : rest = unseeded(env)
  BY <1>3, Allocations
<1>5. PICK few \in Nat : few = left
  BY LaunchAssumption DEF Lefts
<1>6. PICK inPool \in Int : inPool = amount - left
  BY <1>5
<1>7. PICK toTreasury \in Int : toTreasury = allocationOf("treasury")
  BY Allocations
<1>8. PICK toVesting \in Int : toVesting = allocationOf("team")
  BY Allocations
<1>9. PICK toSafe \in Int : toSafe = allocationOf("community") + allocationOf("staking") + rest
  <2>1. allocationOf("community") \in Nat /\ allocationOf("staking") \in Nat
    BY Allocations
  <2>2. allocationOf("community") + allocationOf("staking") + rest \in Int
    BY <2>1
  <2>3. QED
    BY <2>2
<1> DEFINE held == [deployer |-> left, treasury |-> toTreasury, pool |-> inPool,
                    vesting |-> toVesting, safe |-> toSafe]
<1>10. held \in [Holders -> Int] /\ held["pool"] = inPool /\ held["deployer"] = few
  BY <1>5 DEF Holders
<1>11. [deployer |-> left, treasury |-> allocationOf("treasury"),
        pool |-> lpRushAmount(env) - left, vesting |-> allocationOf("team"),
        safe |-> allocationOf("community") + allocationOf("staking") + unseeded(env)] = held
  BY <1>2, <1>4, <1>6, <1>7, <1>8, <1>9
<1> HIDE DEF held
<1>12. PICK until \in Nat : until = now + LOCK_SECONDS
  BY LaunchAssumption
<1>13. PICK manager \in Nat : manager = env.manager
  OBVIOUS
<1>14. Len(BUCKETS) = 5
  BY DEF BUCKETS
<1>15. PICK fresh \in Stack : fresh = FreshStack(env) /\ fresh.seed = resolveMasterSeed(env.seed)
                             /\ fresh.kind = "launch" /\ fresh.pool = None
  BY FreshTyped
<1>16. WholeStack(env, pool, left) =
         [fresh EXCEPT
            !.built = Contracts, !.wired = TRUE, !.sent = 5, !.manager = manager,
            !.held = held, !.pool = pool, !.position = "lock", !.unlockTime = until,
            !.guardian = "safe", !.governance = "timelock"]
  BY <1>11, <1>12, <1>13, <1>14, <1>15 DEF WholeStack
<1>17. WholeStack(env, pool, left) \in Stack
  <2>1. PICK a \in Stack : a = [fresh EXCEPT !.built = Contracts, !.wired = TRUE, !.sent = 5]
    BY DEF Stack
  <2>2. PICK b \in Stack : b = [a EXCEPT !.manager = manager, !.held = held, !.pool = pool,
                                       !.position = "lock"]
    BY <1>10 DEF Stack
  <2>3. PICK c \in Stack : c = [b EXCEPT !.unlockTime = until, !.guardian = "safe",
                                       !.governance = "timelock"]
    BY DEF Stack
  <2>4. QED
    BY <1>16, <2>1, <2>2, <2>3
<1>18. /\ WholeStack(env, pool, left).seed = fresh.seed
       /\ WholeStack(env, pool, left).kind = fresh.kind
       /\ WholeStack(env, pool, left).held = held
       /\ WholeStack(env, pool, left).manager = manager
       /\ WholeStack(env, pool, left).position = "lock"
       /\ WholeStack(env, pool, left).pool = pool
       /\ WholeStack(env, pool, left).unlockTime = until
  BY <1>15, <1>16 DEF Stack
<1>19. QED
  BY <1>2, <1>4, <1>5, <1>6, <1>10, <1>12, <1>13, <1>15, <1>17, <1>18

(* deploy-launch.ts as the records see it: the new stack is the one it records,   *)
(* and it is complete.                                                       *)
LEMMA WholeLaunchStep ==
  ASSUME StacksTyped, uniswapFile \in {0, 1}, NEW env \in Envs, NEW pool \in {None, OtherPrice},
         NEW left, WholeLaunch(env, pool, left)
  PROVE  /\ StacksTyped' /\ StacksKept /\ Len(stacks) + 1 \in DOMAIN stacks'
         /\ file'.stack = Len(stacks) + 1
         /\ file'.unseeded \in Int /\ file'.manager \in Nat /\ file'.unlockTime \in Nat
         /\ LET s == stacks'[Len(stacks) + 1] IN
            /\ s = WholeStack(env, pool, left) /\ s.kind = "launch" /\ s.pool = pool
            /\ s.position = "lock" /\ s.unlockTime = file'.unlockTime
            /\ s.manager = file'.manager
            /\ allocationOf("liquidity") - s.held["pool"] - file'.unseeded = s.held["deployer"]
            /\ s.held["deployer"] = left /\ left \in Leavings(pool) /\ left \in Nat
            /\ file'.unseeded = unseeded(env)
<1>1. env.manager \in Nat /\ env.seed \in SeedTexts /\ env.lpEth \in LpEths
  BY LaunchAssumption DEF Envs, Managers, CanonicalManager, SeedTexts
<1>2. /\ unseeded(env) >= 0 /\ left \in Leavings(pool) /\ left \in Lefts /\ left \in Nat
      /\ now \in Nat /\ pool \in Pools
  BY LaunchAssumption DEF WholeLaunch, StacksTyped, Leavings, Lefts, Pools
<1>3. PICK s \in Stack :
        /\ s = WholeStack(env, pool, left) /\ s.pool = pool
        /\ s.kind = "launch" /\ s.position = "lock" /\ s.manager = env.manager
        /\ s.held["pool"] = lpRushAmount(env) - left /\ s.held["deployer"] = left
        /\ s.unlockTime = now + LOCK_SECONDS
  BY <1>1, <1>2, WholeTyped
<1>4. unseeded(env) \in Int /\ lpRushAmount(env) \in Nat
  BY <1>1, <1>2, WholeTyped
<1>5. StacksTyped' /\ StacksKept /\ Len(stacks) + 1 \in DOMAIN stacks'
      /\ stacks'[Len(stacks) + 1] = s
  BY <1>3, Appended DEF WholeLaunch
<1>6. /\ file'.stack = Len(stacks) + 1 /\ file'.unseeded = unseeded(env)
      /\ file'.manager = env.manager /\ file'.unlockTime = now + LOCK_SECONDS
  BY DEF WholeLaunch
<1>7. allocationOf("liquidity") - (lpRushAmount(env) - left) - unseeded(env) = left
  BY <1>2, <1>4, Allocations DEF unseeded
<1>8. now + LOCK_SECONDS \in Nat
  BY <1>2, LaunchAssumption
<1>9. QED
  BY <1>1, <1>2, <1>3, <1>4, <1>5, <1>6, <1>7, <1>8

(* What a whole stack is does not depend on when it was deployed.               *)
LEMMA WholeTimeless ==
  ASSUME NEW env, NEW pool \in Pools, NEW left \in Lefts, now \in Nat, now' \in Nat, network' = network,
         env.seed \in SeedTexts, env.lpEth \in LpEths, env.manager \in Nat
  PROVE  [WholeStack(env, pool, left) EXCEPT !.unlockTime = 0]'
           = [WholeStack(env, pool, left) EXCEPT !.unlockTime = 0]
<1>1. PICK fresh \in Stack : fresh = FreshStack(env)
  BY FreshTyped
<1>2. FreshStack(env)' = fresh
  BY <1>1 DEF FreshStack, resolveMasterSeed, isLocal
<1>3. PICK held :
        held = [deployer |-> left, treasury |-> allocationOf("treasury"),
                pool |-> lpRushAmount(env) - left, vesting |-> allocationOf("team"),
                safe |-> allocationOf("community") + allocationOf("staking") + unseeded(env)]
  OBVIOUS
<1> DEFINE Whole(until) ==
      [fresh EXCEPT
         !.built = Contracts, !.wired = TRUE, !.sent = Len(BUCKETS), !.manager = env.manager,
         !.held = held, !.pool = pool, !.position = "lock", !.unlockTime = until,
         !.guardian = "safe", !.governance = "timelock"]
<1>4. WholeStack(env, pool, left) = Whole(now + LOCK_SECONDS)
  BY <1>1, <1>3 DEF WholeStack
<1>5. WholeStack(env, pool, left)' = Whole(now' + LOCK_SECONDS)
  BY <1>2, <1>3 DEF WholeStack
<1>6. \A until : [Whole(until) EXCEPT !.unlockTime = 0] = Whole(0)
  BY DEF Stack
<1> HIDE DEF Whole
<1>7. QED
  BY <1>4, <1>5, <1>6

(* A payment moves amounts between holders, and nothing else.                   *)
LEMMA PaidTyped ==
  ASSUME NEW held \in [Holders -> Int], NEW to \in Holders, NEW amount \in Int
  PROVE  /\ Paid(held, to, amount) \in [Holders -> Int]
         /\ \A h \in Holders :
              Paid(held, to, amount)[h]
                = held[h] + (IF h = to THEN amount ELSE 0)
                          - (IF h = "deployer" THEN amount ELSE 0)
<1>1. PICK taken : taken = [held EXCEPT !["deployer"] = @ - amount]
  OBVIOUS
<1>2. taken \in [Holders -> Int]
  <2>1. held["deployer"] - amount \in Int
    BY DEF Holders
  <2>2. QED
    BY <1>1, <2>1
<1>3. \A h \in Holders : taken[h] = held[h] - (IF h = "deployer" THEN amount ELSE 0)
  BY <1>1
<1>4. Paid(held, to, amount) = [taken EXCEPT ![to] = @ + amount]
  BY <1>1 DEF Paid
<1>5. QED
  BY <1>2, <1>3, <1>4

(* deploy-skeleton.ts: a stack of the other kind, on a local node.              *)
LEMMA SkeletonStep ==
  ASSUME StacksTyped, NEW handOver \in BOOLEAN, DeploySkeleton(handOver)
  PROVE  /\ StacksTyped' /\ StacksKept /\ Len(stacks) + 1 \in DOMAIN stacks'
         /\ file'.stack = Len(stacks) + 1 /\ isLocal
         /\ stacks'[Len(stacks) + 1].kind = "skeleton"
<1> DEFINE env == [seed |-> Unset]
<1>1. PICK fresh \in Stack : fresh = FreshStack(env)
  BY FreshTyped DEF SeedTexts
<1>2. PICK built \in SUBSET Contracts :
        built = {"rush", "treasury", "game"} \cup (IF handOver THEN {"timelock"} ELSE {})
  BY DEF Contracts
<1>3. PICK held \in [Holders -> Int] : held = Paid(fresh.held, "treasury", SkeletonFunding)
  <2>1. PICK h \in [Holders -> Int] : h = fresh.held
    BY DEF Stack
  <2>2. Paid(h, "treasury", 1) \in [Holders -> Int]
    <3>1. "treasury" \in Holders /\ 1 \in Int
      BY DEF Holders
    <3>2. QED
      BY <3>1, PaidTyped
  <2>3. QED
    BY <2>1, <2>2 DEF SkeletonFunding
<1>4. PICK guardian \in {"deployer", "safe"} :
        guardian = IF handOver THEN "safe" ELSE fresh.guardian
  BY DEF Stack
<1>5. PICK governance \in {"deployer", "timelock"} :
        governance = IF handOver THEN "timelock" ELSE fresh.governance
  BY DEF Stack
<1>6. PICK s \in Stack :
        /\ s = [fresh EXCEPT !.kind = "skeleton", !.wired = TRUE, !.built = built, !.held = held,
                             !.guardian = guardian, !.governance = governance]
        /\ s.kind = "skeleton"
  <2>1. PICK a \in Stack : a = [fresh EXCEPT !.kind = "skeleton", !.wired = TRUE]
    BY DEF Stack
  <2>2. PICK b \in Stack : b = [a EXCEPT !.built = built, !.held = held]
    BY DEF Stack
  <2>3. PICK c \in Stack : c = [b EXCEPT !.guardian = guardian, !.governance = governance]
    BY DEF Stack
  <2>4. c = [fresh EXCEPT !.kind = "skeleton", !.wired = TRUE, !.built = built, !.held = held,
                          !.guardian = guardian, !.governance = governance]
    BY <2>1, <2>2, <2>3
  <2>5. c.kind = "skeleton"
    BY <2>4 DEF Stack
  <2>6. QED
    BY <2>4, <2>5
<1>7. stacks' = Append(stacks, s) /\ now' = now /\ Len(stacks) < MaxStacks
      /\ file'.stack = Len(stacks) + 1 /\ isLocal
  BY <1>1, <1>2, <1>3, <1>4, <1>5, <1>6 DEF DeploySkeleton
<1>8. QED
  BY <1>6, <1>7, Appended

------------------------------------------------------------------------------
(* What is on record stays true of the chain                                  *)

(* What is said of the liquidity until a date stays true.                       *)
LEMMA LiquidityKept ==
  ASSUME StacksTyped, StacksTyped', StacksKept,
         NEW n, NEW until, NEW rest, Liquidity(n, until, rest)
  PROVE  Liquidity(n, until, rest)'
<1>1. n \in DOMAIN stacks' /\ stacks'[n].held = stacks[n].held /\ stacks'[n].pool = stacks[n].pool
  BY DEF Liquidity, StacksKept
<1>2. stacks[n].unlockTime \in Nat /\ stacks'[n].unlockTime \in Nat
  <2>1. stacks[n] \in Stack
    BY TypedStacks DEF Liquidity
  <2>2. /\ Len(stacks') \in Nat /\ DOMAIN stacks' = 1..Len(stacks')
        /\ stacks' \in [1..Len(stacks') -> Stack]
    BY LenProperties DEF StacksTyped
  <2>3. stacks'[n] \in Stack
    BY <1>1, <2>2
  <2>4. QED
    BY <2>1, <2>3 DEF Stack
<1>3. until <= stacks'[n].unlockTime
  BY <1>2 DEF Liquidity, StacksKept
<1>4. now' < until => stacks'[n].position = "lock"
  BY <1>2 DEF Liquidity, StacksKept, StacksTyped
<1>5. QED
  BY <1>1, <1>3, <1>4 DEF Liquidity

(* So does what a deployment file says of its stack.                            *)
LEMMA DescribedKept ==
  ASSUME StacksTyped, StacksTyped', StacksKept, network' = network, NEW d, Describes(d)
  PROVE  Describes(d)'
<1>1. Liquidity(d.stack, d.unlockTime, d.unseeded)'
  BY LiquidityKept DEF Describes
<1>2. stacks'[d.stack].manager = stacks[d.stack].manager
  BY DEF Describes, Liquidity, StacksKept
<1>3. QED
  BY <1>1, <1>2 DEF Describes, HasCanonicalUniswap

(* The property, by the stack.                                                *)
LEMMA CompleteStated ==
  RecordedStackIsComplete <=> \A n \in Recorded : Complete(n)
BY DEF RecordedStackIsComplete, Complete, Locked, CompleteAs, EnvOf, Essence

(* The stack that a whole launch leaves, and the record of it, are complete.     *)
LEMMA WholeIsComplete ==
  ASSUME now \in Nat, network' = network, now' = now, NEW env \in Envs, env.manager \in Nat,
         NEW pool \in Pools, NEW left \in Leavings(pool),
         NEW n, file'.stack = n, file'.unseeded = unseeded(env),
         file'.unlockTime = now + LOCK_SECONDS, stacks'[n] = WholeStack(env, pool, left)
  PROVE  RecordedStackIsComplete'
<1>0. (RecordedStackIsComplete <=> \A m \in Recorded : Complete(m))'
  BY DEF RecordedStackIsComplete, Complete, Locked, CompleteAs, EnvOf, Essence
<1>1. env.seed \in SeedTexts /\ env.lpEth \in LpEths /\ left \in Lefts
  BY DEF Envs, SeedTexts, Leavings, Lefts
<1>2. PICK s \in Stack :
        /\ s = WholeStack(env, pool, left) /\ s.seed = resolveMasterSeed(env.seed)
        /\ s.manager = env.manager /\ s.position = "lock" /\ s.pool = pool
        /\ s.unlockTime = now + LOCK_SECONDS
  BY <1>1, WholeTyped
<1>3. PICK e : e = EnvOf(s, env.lpEth)
  OBVIOUS
<1>4. e.seed = s.seed /\ e.lpEth = env.lpEth /\ e.manager = env.manager
  BY <1>2, <1>3 DEF EnvOf
<1>5. resolveMasterSeed(e.seed) = resolveMasterSeed(env.seed)
  BY <1>2, <1>4 DEF resolveMasterSeed
<1>6. lpRushAmount(e) = lpRushAmount(env) /\ unseeded(e) = unseeded(env)
  BY <1>4 DEF unseeded, lpRushAmount
<1>7. WholeStack(e, pool, left) = s
  BY <1>2, <1>4, <1>5, <1>6 DEF WholeStack, FreshStack
<1>8. Essence(s) = [s EXCEPT !.unlockTime = 0]
  BY <1>2 DEF Essence, Stack
<1>9. CompleteAs(s, file', env.lpEth, left)
  BY <1>2, <1>3, <1>6, <1>7, <1>8 DEF CompleteAs
<1>10. CompleteAs(stacks[n], file, env.lpEth, left)'
  BY <1>2, <1>9
     DEF CompleteAs, EnvOf, Essence, WholeStack, FreshStack, resolveMasterSeed, isLocal
<1>11. Locked(stacks[n], file)'
  <2>1. now + LOCK_SECONDS \in Nat
    BY LaunchAssumption
  <2>2. QED
    BY <1>2, <2>1 DEF Locked
<1>12. Complete(n)'
  BY <1>1, <1>2, <1>10, <1>11 DEF Complete, Leavings
<1>13. QED
  BY <1>0, <1>12 DEF Recorded

(* A stack on record is as complete as when it was recorded.                    *)
LEMMA CompleteKept ==
  ASSUME StacksTyped, StacksTyped', StacksKept, network' = network, file' = file,
         file # None => file.stack \in DOMAIN stacks /\ file.unlockTime \in Nat,
         RecordedStackIsComplete
  PROVE  RecordedStackIsComplete'
<1>0. (RecordedStackIsComplete <=> \A n \in Recorded : Complete(n))'
  BY DEF RecordedStackIsComplete, Complete, Locked, CompleteAs, EnvOf, Essence
<1> SUFFICES ASSUME NEW n \in Recorded' PROVE Complete(n)'
  BY <1>0
<1>1. n \in Recorded /\ n \in DOMAIN stacks
  BY DEF Recorded
<1>2. /\ stacks'[n].seed = stacks[n].seed /\ stacks'[n].manager = stacks[n].manager
      /\ stacks'[n].kind = stacks[n].kind /\ stacks'[n].pool = stacks[n].pool
      /\ Essence(stacks'[n]) = Essence(stacks[n])
  BY <1>1 DEF StacksKept
<1>3. Complete(n)
  BY <1>1, CompleteStated
<1>4. stacks[n].kind = "launch" => Locked(stacks[n], file)'
  <2>1. PICK s \in Stack, s2 \in Stack : s = stacks[n] /\ s2 = stacks'[n]
    <3>1. n \in DOMAIN stacks'
      BY <1>1 DEF StacksKept
    <3>2. \A i \in DOMAIN stacks' : stacks'[i] \in Stack
      BY LenProperties DEF StacksTyped
    <3>3. QED
      BY <1>1, <3>1, <3>2, TypedStacks
  <2>2. s.unlockTime \in Nat /\ s2.unlockTime \in Nat /\ file.unlockTime \in Nat
    BY <1>1 DEF Stack, Recorded
  <2>3. /\ s.unlockTime <= s2.unlockTime
        /\ s2.position = s.position \/ s2.position # "none"
    BY <1>1, <2>1 DEF StacksKept
  <2>4. s.kind = "launch" => s.position # "none" /\ file.unlockTime <= s.unlockTime
    BY <1>3, <2>1 DEF Complete, Locked
  <2>5. s.kind = "launch" => s2.position # "none" /\ file.unlockTime <= s2.unlockTime
    BY <2>2, <2>3, <2>4
  <2>6. QED
    BY <2>1, <2>5 DEF Locked
<1> SUFFICES ASSUME stacks[n].kind = "launch",
                    NEW lpEth \in LpEths, NEW left \in Leavings(stacks[n].pool),
                    CompleteAs(stacks[n], file, lpEth, left)
             PROVE  CompleteAs(stacks[n], file, lpEth, left)'
  BY <1>2, <1>3, <1>4 DEF Complete, Leavings
<1>5. PICK env, pool : env = EnvOf(stacks[n], lpEth) /\ pool = stacks[n].pool
  OBVIOUS
<1>6. EnvOf(stacks[n], lpEth)' = env
  BY <1>2, <1>5 DEF EnvOf
<1>7. /\ env.seed \in SeedTexts /\ env.lpEth \in LpEths /\ env.manager \in Nat
      /\ pool \in Pools /\ left \in Lefts
  BY <1>1, <1>5, TypedStacks DEF EnvOf, Stack, Leavings, Lefts
<1>8. [WholeStack(env, pool, left) EXCEPT !.unlockTime = 0]'
        = [WholeStack(env, pool, left) EXCEPT !.unlockTime = 0]
  BY <1>7, WholeTimeless DEF StacksTyped
<1>9. /\ file.unseeded = unseeded(env)
      /\ Essence(stacks[n]) = [WholeStack(env, pool, left) EXCEPT !.unlockTime = 0]
  BY <1>5 DEF CompleteAs
<1>10. /\ file'.unseeded = unseeded(env)
      /\ Essence(stacks'[n]) = [WholeStack(env, pool, left) EXCEPT !.unlockTime = 0]'
  BY <1>2, <1>8, <1>9
<1>11. QED
  BY <1>2, <1>5, <1>6, <1>10 DEF CompleteAs

(* A step that leaves everything of the deployment alone.                       *)
LEMMA Unmoved ==
  ASSUME IInv, UNCHANGED deployVars
  PROVE  StacksTyped' /\ StacksKept /\ OneScript'
<1>1. UNCHANGED <<network, now, uniswapRun, uniswapFile, stacks, launch, file>>
  BY DEF deployVars
<1>2. \A n \in DOMAIN stacks : stacks[n].unlockTime \in Nat
  BY TypedStacks DEF IInv, Stack
<1>3. StacksTyped' /\ OneScript'
  BY <1>1 DEF IInv, StacksTyped, OneScript
<1>4. StacksKept
  BY <1>1, <1>2 DEF IInv, StacksTyped, StacksKept
<1>5. QED
  BY <1>3, <1>4

(* Whatever a step does to stacks, what it leaves alone of the records stays true. *)
LEMMA RecordsKept ==
  ASSUME IInv, StacksTyped', StacksKept, network' = network,
         confirmed \subseteq confirmed', earned \subseteq earned'
  PROVE  /\ UNCHANGED file => FileIsTrue' /\ RecordedStackIsComplete'
         /\ UNCHANGED pub => PubIsTrue'
         /\ UNCHANGED record => RecordIsEarned'
         /\ UNCHANGED page => PageIsTrue' /\ PageIsEarned'
         /\ UNCHANGED service => ServiceIsLive' /\ BootedRelayerServes'
<1>0. \A n \in DOMAIN stacks : n \in DOMAIN stacks'
  BY DEF StacksKept
<1>1. ASSUME UNCHANGED file PROVE FileIsTrue' /\ RecordedStackIsComplete'
  <2>1. RecordedStackIsComplete'
    BY <1>1, CompleteKept DEF IInv, FileIsTrue, File
  <2>2. FileIsTrue'
    <3> SUFFICES ASSUME file # None
                 PROVE  /\ file \in File /\ file.stack \in DOMAIN stacks'
                        /\ ~isLocal => Describes(file)'
      BY <1>1 DEF FileIsTrue, isLocal
    <3>1. PICK d : d = file
      OBVIOUS
    <3>2. d \in File /\ d.stack \in DOMAIN stacks /\ (~isLocal => Describes(d))
      BY <3>1 DEF IInv, FileIsTrue
    <3>3. ~isLocal => Describes(d)'
      BY <3>2, DescribedKept DEF IInv
    <3>4. QED
      BY <1>0, <1>1, <3>1, <3>2, <3>3
  <2>3. QED
    BY <2>1, <2>2
<1>2. ASSUME UNCHANGED pub PROVE PubIsTrue'
  <2> SUFFICES ASSUME pub # None
               PROVE  /\ pub \in Publication /\ ~isLocal /\ Describes(pub.deployed)'
                      /\ \A c \in pub.verified : <<pub.deployed.stack, c>> \in confirmed'
    BY <1>2 DEF PubIsTrue, isLocal
  <2>1. PICK d : d = pub.deployed
    OBVIOUS
  <2>2. /\ pub \in Publication /\ ~isLocal /\ Describes(d)
        /\ \A c \in pub.verified : <<pub.deployed.stack, c>> \in confirmed
    BY <2>1 DEF IInv, PubIsTrue
  <2>3. Describes(d)'
    BY <2>2, DescribedKept DEF IInv
  <2>4. QED
    BY <1>2, <2>1, <2>2, <2>3
<1>3. UNCHANGED record => RecordIsEarned'
  BY DEF IInv, RecordIsEarned
<1>4. ASSUME UNCHANGED page PROVE PageIsTrue' /\ PageIsEarned'
  <2>1. PageIsEarned'
    BY <1>4 DEF IInv, PageIsEarned
  <2>2. PageIsTrue'
    <3> SUFFICES ASSUME page # None
                 PROVE  /\ Liquidity(page.stack, page.unlockTime, page.unseeded)'
                        /\ page.selfDeployed
                             = (stacks'[page.stack].manager # CanonicalManager)
      BY <1>4 DEF PageIsTrue
    <3>1. PICK n, until, rest :
            n = page.stack /\ until = page.unlockTime /\ rest = page.unseeded
      OBVIOUS
    <3>2. /\ Liquidity(n, until, rest)
          /\ page.selfDeployed = (stacks[n].manager # CanonicalManager)
      BY <3>1 DEF IInv, PageIsTrue
    <3>3. Liquidity(n, until, rest)'
      BY <3>2, LiquidityKept DEF IInv
    <3>4. stacks'[n].manager = stacks[n].manager
      BY <3>2 DEF Liquidity, StacksKept
    <3>5. QED
      BY <1>4, <3>1, <3>2, <3>3, <3>4
  <2>3. QED
    BY <2>1, <2>2
<1>5. ASSUME UNCHANGED service PROVE ServiceIsLive' /\ BootedRelayerServes'
  BY <1>5 DEF IInv, ServiceIsLive, BootedRelayerServes, StacksKept
<1>6. QED
  BY <1>1, <1>2, <1>3, <1>4, <1>5

------------------------------------------------------------------------------
(* The steps                                                                 *)

(* A deployment: the record it leaves is true of the stack it leaves.           *)
LEMMA DeployKeeps ==
  ASSUME IInv,
         \/ \E env \in Envs, left \in {Dust} \cup Leftovers, pool \in {None, OtherPrice} :
              WholeLaunch(env, pool, left)
         \/ \E handOver \in BOOLEAN : DeploySkeleton(handOver),
         UNCHANGED <<games, checkVars, publishVars, service>>
  PROVE  IInv'
<1>1. UNCHANGED <<network, uniswapRun, uniswapFile, launch, record, earned, pub, confirmed,
                  page, service>>
  BY DEF WholeLaunch, DeploySkeleton, checkVars, publishVars
<1>2. OneScript'
  BY <1>1 DEF IInv, OneScript
<1>3. SUFFICES StacksTyped' /\ StacksKept /\ FileIsTrue' /\ RecordedStackIsComplete'
  BY <1>1, <1>2, RecordsKept DEF IInv
<1>4. ASSUME NEW env \in Envs, NEW left, NEW pool \in {None, OtherPrice},
             WholeLaunch(env, pool, left)
      PROVE  StacksTyped' /\ StacksKept /\ FileIsTrue' /\ RecordedStackIsComplete'
  <2>1. PICK n : n = Len(stacks) + 1
    OBVIOUS
  <2>2. PICK s : s = stacks'[n]
    OBVIOUS
  <2>3. PICK d : d = file'
    OBVIOUS
  <2>4. /\ StacksTyped' /\ StacksKept /\ n \in DOMAIN stacks'
        /\ d.stack = n /\ d.unseeded = unseeded(env)
        /\ d.unseeded \in Int /\ d.manager \in Nat /\ d.unlockTime \in Nat
        /\ s = WholeStack(env, pool, left) /\ s.pool = pool /\ s.position = "lock" 
        /\ s.unlockTime = d.unlockTime /\ s.manager = d.manager
        /\ allocationOf("liquidity") - s.held["pool"] - d.unseeded = s.held["deployer"]
        /\ s.held["deployer"] = left /\ left \in Leavings(pool)
    BY <1>4, <2>1, <2>2, <2>3, WholeLaunchStep DEF IInv, OneScript
  <2>5. d = [stack |-> n, unseeded |-> d.unseeded, manager |-> d.manager,
             unlockTime |-> d.unlockTime]
    BY <1>4, <2>1, <2>3 DEF WholeLaunch
  <2>6. d \in File
    BY <2>1, <2>4, <2>5, TypedStacks DEF File, IInv
  <2>7. d.manager = CanonicalManager => HasCanonicalUniswap
    <3>1. d.manager = env.manager /\ Len(stacks) < MaxStacks
      BY <1>4, <2>3 DEF WholeLaunch
    <3>2. env.manager \in {0, uniswapFile} \/ HasCanonicalUniswap
      BY DEF Envs, Managers
    <3>3. QED
      BY <3>1, <3>2, TypedStacks, LaunchAssumption DEF IInv, OneScript, CanonicalManager
  <2>8. Liquidity(d.stack, d.unlockTime, d.unseeded)'
    BY <2>2, <2>3, <2>4, LaunchAssumption DEF Liquidity, Leavings
  <2>9. FileIsTrue'
    BY <1>1, <2>2, <2>3, <2>4, <2>6, <2>7, <2>8
       DEF FileIsTrue, Describes, HasCanonicalUniswap
  <2>10. RecordedStackIsComplete'
    <3>1. env.manager = d.manager /\ now' = now /\ file'.unlockTime = now + LOCK_SECONDS
      BY <1>4, <2>3 DEF WholeLaunch
    <3>2. now \in Nat /\ env.manager \in Nat
      BY <2>4, <3>1 DEF IInv, StacksTyped
    <3>3. /\ file'.stack = n /\ file'.unseeded = unseeded(env)
          /\ stacks'[n] = WholeStack(env, pool, left)
          /\ pool \in Pools /\ left \in Leavings(pool)
      BY <2>2, <2>3, <2>4 DEF Pools
    <3>4. QED
      BY <1>1, <3>1, <3>2, <3>3, WholeIsComplete
  <2>11. QED
    BY <2>4, <2>9, <2>10
<1>5. ASSUME NEW handOver \in BOOLEAN, DeploySkeleton(handOver)
      PROVE  StacksTyped' /\ StacksKept /\ FileIsTrue' /\ RecordedStackIsComplete'
  <2>1. /\ StacksTyped' /\ StacksKept /\ Len(stacks) + 1 \in DOMAIN stacks'
        /\ file'.stack = Len(stacks) + 1 /\ isLocal
        /\ stacks'[Len(stacks) + 1].kind = "skeleton"
    BY <1>5, SkeletonStep DEF IInv
  <2>2. file' = [stack |-> Len(stacks) + 1, unseeded |-> 0, manager |-> 0, unlockTime |-> 0]
    BY <1>5 DEF DeploySkeleton
  <2>3. FileIsTrue'
    BY <1>1, <2>1, <2>2, TypedStacks DEF IInv, FileIsTrue, File, isLocal
  <2>4. RecordedStackIsComplete'
    BY <2>1 DEF RecordedStackIsComplete, Recorded
  <2>5. QED
    BY <2>1, <2>3, <2>4
<1>6. QED
  BY <1>4, <1>5

(* Time, the lock's owner and the depositor: all that moves a stack later.      *)
LEMMA LockKeeps ==
  ASSUME IInv, NEW n \in Live,
         \/ \E new \in 0..(MaxTime + LOCK_SECONDS) : ExtendLock(n, new)
         \/ Withdraw(n)
  PROVE  IInv'
<1>1. UNCHANGED <<network, now, uniswapRun, uniswapFile, launch, file, record, earned, pub,
                  confirmed, page, service>>
  BY DEF ExtendLock, Withdraw, checkVars, publishVars
<1>2. PICK s \in Stack : s = stacks[n]
  BY TypedStacks DEF IInv, Live
<1>3. StacksTyped' /\ StacksKept
  <2>1. ASSUME NEW new \in 0..(MaxTime + LOCK_SECONDS), ExtendLock(n, new)
        PROVE  StacksTyped' /\ StacksKept
    <3>1. [s EXCEPT !.unlockTime = new] = [s EXCEPT !.unlockTime = new, !.position = s.position]
      BY DEF Stack
    <3>2. stacks' = [stacks EXCEPT ![n] = [stacks[n] EXCEPT !.unlockTime = new,
                                                            !.position = stacks[n].position]]
      BY <1>2, <2>1, <3>1 DEF ExtendLock
    <3>3. new \in Nat /\ s.unlockTime \in Nat /\ s.position \in {"none", "lock", "withdrawn"}
      BY RecordsAssumption, LaunchAssumption DEF Stack
    <3>4. stacks[n].unlockTime <= new
      BY <1>2, <2>1, <3>3 DEF ExtendLock, LockExtends
    <3>5. QED
      BY <1>1, <1>2, <3>2, <3>3, <3>4, LockStep DEF IInv, Live
  <2>2. ASSUME Withdraw(n) PROVE StacksTyped' /\ StacksKept
    <3>1. [s EXCEPT !.position = "withdrawn"]
            = [s EXCEPT !.unlockTime = s.unlockTime, !.position = "withdrawn"]
      BY DEF Stack
    <3>2. stacks' = [stacks EXCEPT ![n] = [stacks[n] EXCEPT !.unlockTime = stacks[n].unlockTime,
                                                            !.position = "withdrawn"]]
      BY <1>2, <2>2, <3>1 DEF Withdraw
    <3>3. s.unlockTime \in Nat
      BY DEF Stack
    <3>4. now >= stacks[n].unlockTime
      BY <2>2 DEF Withdraw
    <3>5. PICK until \in Nat : until = stacks[n].unlockTime
      BY <1>2, <3>3
    <3>6. stacks' = [stacks EXCEPT ![n] = [stacks[n] EXCEPT !.unlockTime = until,
                                                            !.position = "withdrawn"]]
      BY <3>2, <3>5
    <3>7. stacks[n].unlockTime <= until /\ now >= stacks[n].unlockTime /\ now' = now
      BY <1>1, <3>4, <3>5
    <3>8. QED
      BY <3>6, <3>7, LockStep DEF IInv, Live
  <2>3. QED
    BY <2>1, <2>2
<1>4. OneScript'
  BY <1>1 DEF IInv, OneScript
<1>5. QED
  BY <1>1, <1>3, <1>4, RecordsKept DEF IInv

(* Time passes.                                                              *)
LEMMA TickKeeps ==
  ASSUME IInv, Tick
  PROVE  IInv'
<1>1. UNCHANGED <<network, uniswapRun, uniswapFile, stacks, launch, file, record, earned, pub,
                  confirmed, page, service>> /\ now' = now + 1
  BY DEF Tick, checkVars, publishVars
<1>2. \A n \in DOMAIN stacks : stacks[n].unlockTime \in Nat
  BY TypedStacks DEF IInv, Stack
<1>3. StacksTyped' /\ StacksKept /\ OneScript'
  BY <1>1, <1>2 DEF IInv, StacksTyped, StacksKept, OneScript
<1>4. QED
  BY <1>1, <1>3, RecordsKept DEF IInv

(* The checklist: only its last step, of a run without a failure, earns.        *)
Checklist ==
  \/ \E hasSafe \in BOOLEAN : StartChecklist(hasSafe)
  \/ \E short \in BOOLEAN : Audit(short)
  \/ settleAnyBetLeftInFlight \/ PlaceBet \/ SettleTier \/ CheckTier \/ CheckLimits
  \/ CheckPause \/ CheckUnpause \/ CheckRefund \/ CheckRefunded \/ ChecklistStops

(* The checklist earns its record one step at a time.                          *)
LEMMA ChecklistKeeps ==
  ASSUME IInv, Checklist \/ WriteChecklist
  PROVE  IInv'
<1>1. ASSUME Checklist
      PROVE  UNCHANGED <<deployVars, record, earned, publishVars, service>>
  BY <1>1 DEF Checklist, StartChecklist, Audit, settleAnyBetLeftInFlight, PlaceBet, SettleTier,
       CheckTier, CheckLimits, CheckPause, CheckUnpause, CheckRefund, CheckRefunded,
       ChecklistStops, Checked
<1>2. UNCHANGED <<deployVars, publishVars, service>>
  BY <1>1 DEF WriteChecklist
<1>3. StacksTyped' /\ StacksKept /\ OneScript'
  BY <1>2, Unmoved
<1>4. UNCHANGED <<network, file, pub, confirmed, page, service>>
  BY <1>2 DEF deployVars, publishVars
<1>5. earned \subseteq earned'
  BY <1>1 DEF WriteChecklist
<1>6. RecordIsEarned'
  <2>1. CASE Checklist
    BY <1>1, <2>1 DEF IInv, RecordIsEarned
  <2>2. CASE WriteChecklist
    BY <2>2 DEF WriteChecklist, RecordIsEarned
  <2>3. QED
    BY <2>1, <2>2
<1>7. QED
  BY <1>3, <1>4, <1>5, <1>6, RecordsKept DEF IInv

(* Players, the relayer and the guardian touch the games only.                   *)
LEMMA OthersKeep ==
  ASSUME IInv, NEW n \in Live, OtherPlaces(n) \/ GuardianToggles(n) \/ RelayerSettles(n)
  PROVE  IInv'
<1>1. UNCHANGED <<deployVars, checkVars, publishVars, service>>
  BY DEF OtherPlaces, GuardianToggles, RelayerSettles, Other
<1>2. StacksTyped' /\ StacksKept /\ OneScript'
  BY <1>1, Unmoved
<1>3. UNCHANGED <<network, file, record, earned, pub, confirmed, page, service>>
  BY <1>1 DEF deployVars, checkVars, publishVars
<1>4. QED
  BY <1>2, <1>3, RecordsKept DEF IInv

(* A service starts on the chain of the published page, or where its variables   *)
(* say, and never on a game of the development seed.                           *)
LEMMA BootKeeps ==
  ASSUME IInv, NEW env \in ServiceEnvs, BootService(env)
  PROVE  IInv'
<1>1. UNCHANGED <<deployVars, checkVars, publishVars>>
  BY DEF BootService
<1>2. StacksTyped' /\ StacksKept /\ OneScript'
  BY <1>1, Unmoved
<1>3. UNCHANGED <<network, file, record, earned, pub, confirmed, page, stacks>>
  BY <1>1 DEF deployVars, checkVars, publishVars
<1>4. PICK seed : seed = withCredentialSeed(env)
  OBVIOUS
<1>5. PICK n : n = gameAddress(env, book)
  OBVIOUS
<1>6. /\ problems(env, book) = {} /\ n \in Live /\ stacks[n].seed = trimmed(seed)
      /\ service'.gameAddress = n /\ service'.network = env.network
      /\ service'.rpcUrl = rpcUrl(env, book)
      /\ assertExpectedChain(config(env, book), ChainAt(rpcUrl(env, book)))
  BY <1>4, <1>5 DEF BootService, config
<1>7. env.network # Blank => ChainAt(service'.rpcUrl) = 1
  <2>1. SUFFICES ASSUME env.network # Blank PROVE ChainAt(rpcUrl(env, book)) = 1
    BY <1>6
  <2>2. InBook(env, book)
    BY <1>6, <2>1 DEF problems
  <2>3. book.chainId = 1
    BY <2>2 DEF InBook, book
  <2>4. config(env, book).expectedChainId = 1
    BY <2>1, <2>3 DEF config
  <2>5. QED
    BY <1>6, <2>4, RecordsAssumption DEF assertExpectedChain
<1>8. stacks[n].seed.text # DevSeed
  <2>1. seed # Blank => seed \in [text : STRING, padded : BOOLEAN]
    BY <1>4, RecordsAssumption DEF withCredentialSeed
  <2>2. trimmed(seed) # Blank /\ trimmed(seed) # [text |-> DevSeed, padded |-> FALSE]
    BY <1>4, <1>6 DEF problems
  <2>3. seed # Blank
    BY <2>2 DEF trimmed
  <2>4. trimmed(seed) = [text |-> seed.text, padded |-> FALSE]
    BY <2>1, <2>3 DEF trimmed
  <2>5. stacks[n].seed.text = seed.text
    BY <1>6, <2>4
  <2>6. seed.text # DevSeed
    BY <2>2, <2>4
  <2>7. QED
    BY <2>5, <2>6
<1>9. ServiceIsLive' /\ BootedRelayerServes'
  BY <1>3, <1>6, <1>7, <1>8 DEF ServiceIsLive, BootedRelayerServes, Live, ChainAt
<1>10. QED
  BY <1>2, <1>3, <1>9, RecordsKept DEF IInv

(* The explorer is asked about the sources: one counts as verified only when it   *)
(* said so.                                                                  *)
LEMMA AskingKeeps ==
  ASSUME IInv, Submit \/ Poll
  PROVE  IInv'
<1>1. UNCHANGED <<deployVars, checkVars, confirmed, page, service>>
  BY DEF Submit, Poll
<1>2. StacksTyped' /\ StacksKept /\ OneScript'
  BY <1>1, Unmoved
<1>3. UNCHANGED <<network, file, record, earned, confirmed, page, service>>
  BY <1>1 DEF deployVars, checkVars
<1>4. PICK p \in Publication : p = pub
  BY DEF Submit, Poll, Verifying, IInv, PubIsTrue
<1>5. Targets[p.next] \in STRING
  <2>1. p.next \in 1..Len(Targets)
    <3>1. pub.next <= Len(Targets)
      BY DEF Submit, Poll, Verifying
    <3>2. Len(Targets) \in Nat /\ p.next \in Nat \ {0}
      BY RecordsAssumption, LenProperties DEF Publication
    <3>3. QED
      BY <1>4, <3>1, <3>2
  <2>2. QED
    BY <2>1, RecordsAssumption, ElementOfSeq
<1>6. pub' \in {[p EXCEPT !.polling = TRUE], [p EXCEPT !.polling = FALSE, !.attempt = @ + 1],
               Done(FALSE)}
        \/ (pub' = Done(TRUE) /\ target \in confirmed)
  BY <1>4 DEF Submit, Poll, interpretPoll
<1>7. /\ pub' \in Publication /\ pub'.deployed = p.deployed
      /\ \/ pub'.verified = p.verified
         \/ pub'.verified = p.verified \cup {Targets[p.next]} /\ target \in confirmed
  <2>0. p.next + 1 \in Nat \ {0} /\ p.attempt + 1 \in Nat /\ 1 \in Nat
    BY DEF Publication
  <2>1. ASSUME NEW q, \/ q = [p EXCEPT !.polling = TRUE]
                     \/ q = [p EXCEPT !.polling = FALSE, !.attempt = @ + 1]
                     \/ q = [p EXCEPT !.next = @ + 1, !.attempt = 1, !.polling = FALSE]
        PROVE  q \in Publication /\ q.deployed = p.deployed /\ q.verified = p.verified
    <3>1. q \in Publication
      <4>1. CASE q = [p EXCEPT !.polling = TRUE]
        BY <4>1 DEF Publication
      <4>2. CASE q = [p EXCEPT !.polling = FALSE, !.attempt = @ + 1]
        BY <2>0, <4>2 DEF Publication
      <4>3. CASE q = [p EXCEPT !.next = @ + 1, !.attempt = 1, !.polling = FALSE]
        BY <2>0, <4>3 DEF Publication
      <4>4. QED
        BY <2>1, <4>1, <4>2, <4>3
    <3>2. q.deployed = p.deployed /\ q.verified = p.verified
      BY <2>1 DEF Publication
    <3>3. QED
      BY <3>1, <3>2
  <2>2. Done(FALSE) = [p EXCEPT !.next = @ + 1, !.attempt = 1, !.polling = FALSE]
    BY <1>4 DEF Done, Publication
  <2>3. PICK known \in SUBSET STRING : known = p.verified \cup {Targets[p.next]}
    BY <1>5 DEF Publication
  <2>4. Done(TRUE) = [p EXCEPT !.next = @ + 1, !.attempt = 1, !.polling = FALSE,
                               !.verified = known]
    BY <1>4, <2>3 DEF Done
  <2>5. Done(TRUE) \in Publication
    BY <2>0, <2>4 DEF Publication
  <2>6. Done(TRUE).deployed = p.deployed /\ Done(TRUE).verified = known
    BY <2>4 DEF Publication
  <2>7. QED
    BY <1>6, <2>1, <2>2, <2>3, <2>5, <2>6
<1>8. PICK d : d = p.deployed
  OBVIOUS
<1>9. Describes(d)'
  BY <1>2, <1>3, <1>4, <1>8, DescribedKept DEF IInv, PubIsTrue, Submit, Poll, Verifying
<1>10. \A c \in pub'.verified : <<pub'.deployed.stack, c>> \in confirmed
  BY <1>4, <1>7 DEF IInv, PubIsTrue, Submit, Poll, Verifying, target
<1>11. ~isLocal'
  BY <1>3 DEF IInv, PubIsTrue, Submit, Poll, Verifying, isLocal
<1>12. PubIsTrue'
  BY <1>3, <1>7, <1>8, <1>9, <1>10, <1>11 DEF PubIsTrue
<1>13. QED
  BY <1>2, <1>3, <1>12, RecordsKept DEF IInv

(* The page is written from what was read at the start and from the checklist's    *)
(* record of this moment.                                                     *)
LEMMA PublishPageKeeps ==
  ASSUME IInv, PublishPage
  PROVE  IInv'
<1>1. UNCHANGED <<deployVars, checkVars, confirmed, service>> /\ pub' = None
  BY DEF PublishPage
<1>2. StacksTyped' /\ StacksKept /\ OneScript'
  BY <1>1, Unmoved
<1>3. UNCHANGED <<network, file, stacks, now, record, earned, confirmed, service>>
  BY <1>1 DEF deployVars, checkVars
<1>4. PubIsTrue'
  BY <1>1 DEF PubIsTrue
<1>5. PICK d : d = pub.deployed
  OBVIOUS
<1>6. /\ Describes(d)
      /\ \A c \in pub.verified : <<d.stack, c>> \in confirmed
  BY <1>5 DEF PublishPage, IInv, PubIsTrue
<1>7. /\ page'.stack = d.stack /\ page'.verified = pub.verified
      /\ page'.checklist = checklistLine(d.stack) /\ page'.unseeded = d.unseeded
      /\ page'.unlockTime = d.unlockTime
      /\ page'.selfDeployed = ~(HasCanonicalUniswap /\ d.manager = CanonicalManager)
  BY <1>5 DEF PublishPage
<1>8. checklistLine(d.stack) = "passed" => d.stack \in earned
  BY DEF checklistLine, sameStack, IInv, RecordIsEarned
<1>9. PageIsEarned'
  BY <1>3, <1>6, <1>7, <1>8 DEF PageIsEarned
<1>10. PageIsTrue'
  BY <1>3, <1>6, <1>7 DEF PageIsTrue, Describes, Liquidity
<1>11. QED
  BY <1>2, <1>3, <1>4, <1>9, <1>10, RecordsKept DEF IInv

(* A publication begins with the deployment file as it is, can stop, and the       *)
(* explorer makes up its mind whenever it likes.                               *)
LEMMA PublicationKeeps ==
  ASSUME IInv,
         \/ StartPublish \/ PublishStops
         \/ \E s \in queue, accepted \in BOOLEAN : ExplorerDecides(s, accepted)
  PROVE  IInv'
<1>1. UNCHANGED <<deployVars, checkVars, page, service>>
  BY DEF StartPublish, PublishStops, ExplorerDecides
<1>2. StacksTyped' /\ StacksKept /\ OneScript'
  BY <1>1, Unmoved
<1>3. UNCHANGED <<network, file, stacks, now, record, earned, page, service>>
  BY <1>1 DEF deployVars, checkVars
<1>4. confirmed \subseteq confirmed'
  BY DEF StartPublish, PublishStops, ExplorerDecides
<1>5. PubIsTrue'
  <2>1. ASSUME StartPublish PROVE PubIsTrue'
    <3>1. PICK d \in File : d = file /\ Describes(d) /\ ~isLocal
      BY <2>1 DEF StartPublish, IInv, FileIsTrue
    <3>2. pub' = [deployed |-> d, next |-> 1, attempt |-> 1, polling |-> FALSE, verified |-> {}]
      BY <2>1, <3>1 DEF StartPublish
    <3>3. pub' \in Publication /\ pub'.deployed = d /\ pub'.verified = {}
      BY <3>2 DEF Publication
    <3>4. Describes(d)'
      BY <1>2, <1>3, <3>1, DescribedKept DEF IInv
    <3>5. QED
      BY <1>3, <3>1, <3>3, <3>4 DEF PubIsTrue, isLocal
  <2>2. ASSUME PublishStops PROVE PubIsTrue'
    BY <2>2 DEF PublishStops, PubIsTrue
  <2>3. ASSUME NEW s \in queue, NEW accepted \in BOOLEAN, ExplorerDecides(s, accepted)
        PROVE  PubIsTrue'
    BY <1>2, <1>3, <1>4, <2>3, RecordsKept DEF ExplorerDecides
  <2>4. QED
    BY <2>1, <2>2, <2>3
<1>6. QED
  BY <1>2, <1>3, <1>4, <1>5, RecordsKept DEF IInv

------------------------------------------------------------------------------
(* The theorems                                                              *)

(* Every step of the records and of those who use them.                        *)
LEMMA NextKeepsIInv ==
  ASSUME IInv, [Next]_vars
  PROVE  IInv'
<1>1. ASSUME UNCHANGED vars PROVE IInv'
  <2>1. UNCHANGED deployVars
    BY <1>1 DEF vars
  <2>2. UNCHANGED <<network, file, record, earned, pub, confirmed, page, service>>
    BY <1>1 DEF vars, deployVars, checkVars, publishVars
  <2>3. StacksTyped' /\ StacksKept /\ OneScript'
    BY <2>1, Unmoved
  <2>4. QED
    BY <2>2, <2>3, RecordsKept DEF IInv
<1>2. ASSUME NEW n \in Live,
             \/ OtherPlaces(n) \/ GuardianToggles(n) \/ Withdraw(n) \/ RelayerSettles(n)
             \/ \E new \in 0..(MaxTime + LOCK_SECONDS) : ExtendLock(n, new)
      PROVE  IInv'
  BY <1>2, LockKeeps, OthersKeep
<1>3. ASSUME Checklist \/ WriteChecklist PROVE IInv'
  BY <1>3, ChecklistKeeps
<1>4. ASSUME NEW env \in ServiceEnvs, BootService(env) PROVE IInv'
  BY <1>4, BootKeeps
<1>5. QED
  BY <1>1, <1>2, <1>3, <1>4, DeployKeeps, AskingKeeps, PublishPageKeeps, PublicationKeeps,
     TickKeeps DEF Next, Checklist

(* Every record a script leaves is true of the chain when it is left, and nothing   *)
(* that may happen afterwards makes it false.                                   *)
THEOREM Inductive == Spec => []IInv
<1>1. Init => IInv
  <2> SUFFICES ASSUME Init PROVE IInv
    OBVIOUS
  <2>1. StacksTyped
    BY EmptySeq, LaunchAssumption DEF Init, DeployInit, StacksTyped
  <2>2. OneScript
    BY DEF Init, DeployInit, OneScript
  <2>3. FileIsTrue /\ PubIsTrue /\ RecordIsEarned /\ PageIsTrue /\ PageIsEarned
        /\ ServiceIsLive /\ BootedRelayerServes
    BY DEF Init, DeployInit, FileIsTrue, PubIsTrue, RecordIsEarned, PageIsTrue, PageIsEarned,
           ServiceIsLive, BootedRelayerServes
  <2>4. RecordedStackIsComplete
    BY DEF Init, DeployInit, RecordedStackIsComplete, Recorded
  <2>5. QED
    BY <2>1, <2>2, <2>3, <2>4 DEF IInv
<1>2. IInv /\ [Next]_vars => IInv'
  BY NextKeepsIInv
<1>3. QED
  BY <1>1, <1>2, PTL DEF Spec

(* A page claims only what its own stack earned (verify-and-publish.ts).            *)
THEOREM PagesAreEarned == Spec => []PageIsEarned
<1>1. IInv => PageIsEarned
  BY DEF IInv
<1>2. QED
  BY <1>1, Inductive, PTL

(* What a page says of the liquidity stays true (RushoodLPLock,                     *)
(* verify-and-publish.ts).                                                    *)
THEOREM LiquidityStaysAsPublished == Spec => []LiquidityAsPublished
<1>1. IInv => LiquidityAsPublished
  BY DEF IInv, PageIsTrue, Liquidity, LiquidityAsPublished
<1>2. QED
  BY <1>1, Inductive, PTL

(* A relayer that has started is on its network's chain and not on the development  *)
(* seed's game (service/config.ts, deploy-launch.ts).                           *)
THEOREM RelayersServe == Spec => []BootedRelayerServes
<1>1. IInv => BootedRelayerServes
  BY DEF IInv
<1>2. QED
  BY <1>1, Inductive, PTL

(* A recorded stack stays complete after its launch (what follows it moves only     *)
(* the date and the position).                                                *)
THEOREM RecordedStacksStayComplete == Spec => []RecordedStackIsComplete
<1>1. IInv => RecordedStackIsComplete
  BY DEF IInv
<1>2. QED
  BY <1>1, Inductive, PTL

------------------------------------------------------------------------------
(* deploy-launch.ts transaction by transaction                                *)

AnyEnvs == [seed : Seeds \cup {Unset}, lpEth : LpEths, allowPartial : BOOLEAN, manager : Nat]
Launches == [stack : Nat, step : 1..19, env : AnyEnvs]

(* The step after which each contract stands.                                  *)
BuiltAt == [rush |-> 1, timelock |-> 2, treasury |-> 3, game |-> 4, vesting |-> 6, lpLock |-> 8]

(* Who holds what when `sent` buckets have been paid, `pooled` is in the pool and    *)
(* `rest` of the liquidity has gone to the Safe.                                *)
Share(bucket, sent, nth) == IF sent >= nth THEN allocationOf(bucket) ELSE 0
Balances(held, sent, pooled, rest) ==
  /\ held["treasury"] = Share("treasury", sent, 1)
  /\ held["vesting"] = Share("team", sent, 4)
  /\ held["pool"] = pooled
  /\ held["safe"] = Share("community", sent, 3) + Share("staking", sent, 5) + rest
  /\ held["deployer"] = Supply - Share("treasury", sent, 1) - Share("team", sent, 4)
                          - Share("community", sent, 3) - Share("staking", sent, 5)
                          - pooled - rest

(* The stack of a launch that is about to take its k-th step.                   *)
Amounts(s, k, e) ==
  \E left \in Lefts :
    /\ k > 13 => left \in Leavings(s.pool)
    /\ Balances(s.held, s.sent, IF k > 13 THEN lpRushAmount(e) - left ELSE 0,
                               IF k > 15 THEN unseeded(e) ELSE 0)
Building(s, k, e) ==
  /\ s \in Stack /\ s.kind = "launch" /\ s.seed = resolveMasterSeed(e.seed)
  /\ \A c \in Contracts : BuiltAt[c] < k => c \in s.built
  /\ k > 5 => s.wired
  /\ k > 7 => s.manager = e.manager
  /\ k > 9 => allocationTotal = Supply
  /\ s.sent \in IF k < 10 THEN {0} ELSE IF k = 10 THEN 0..4 ELSE {5}
  /\ k > 13 => s.position = "lock"
  /\ k > 16 => s.guardian = "safe"
  /\ k > 17 => s.governance = "timelock"
  /\ Amounts(s, k, e)

(* The inductive invariant of the deployment: the stack being launched is the last   *)
(* one and as far as its script; no file names it before the last step.          *)
LaunchIsUnderWay ==
  launch # None =>
    /\ launch \in Launches
    /\ launch.stack = Len(stacks) /\ launch.stack \in DOMAIN stacks
    /\ Building(stacks[launch.stack], launch.step, launch.env)
    /\ file # None /\ file.stack = launch.stack => launch.step = 19

DInv ==
  /\ StacksTyped
  /\ {managers, uniswapRun, uniswapFile} \subseteq Nat
  /\ file # None => file.stack \in DOMAIN stacks /\ file.unlockTime \in Nat
  /\ LaunchIsUnderWay
  /\ RecordedStackIsComplete

(* The order of the script.                                                   *)
LEMMA StepNumbers ==
  ASSUME NEW k \in 1..19, k <= Len(Steps)
  PROVE  /\ k \in 1..18
         /\ \A c \in Contracts : Steps[k] = c => k = BuiltAt[c]
         /\ Steps[k] = "setGame" => k = 5
         /\ Steps[k] = "uniswap" => k = 7
         /\ Steps[k] = "genesis" => k = 9
         /\ Steps[k] = "split" => k = 10
         /\ Steps[k] = "verify" => k = 11
         /\ Steps[k] = "pool" => k = 12
         /\ Steps[k] = "mint" => k = 13
         /\ Steps[k] = "seeded" => k = 14
         /\ Steps[k] = "unseeded" => k = 15
         /\ Steps[k] = "guardian" => k = 16
         /\ Steps[k] = "governance" => k = 17
         /\ Steps[k] = "record" => k = 18
<1>1. Len(Steps) = 18
  BY DEF Steps
<1>2. /\ Steps[1] = "rush" /\ Steps[2] = "timelock" /\ Steps[3] = "treasury"
      /\ Steps[4] = "game" /\ Steps[5] = "setGame" /\ Steps[6] = "vesting"
      /\ Steps[7] = "uniswap" /\ Steps[8] = "lpLock" /\ Steps[9] = "genesis"
      /\ Steps[10] = "split" /\ Steps[11] = "verify" /\ Steps[12] = "pool"
      /\ Steps[13] = "mint" /\ Steps[14] = "seeded" /\ Steps[15] = "unseeded"
      /\ Steps[16] = "guardian" /\ Steps[17] = "governance" /\ Steps[18] = "record"
  BY DEF Steps
<1>3. k \in {1, 2, 3, 4, 5, 6, 7, 8, 9, 10, 11, 12, 13, 14, 15, 16, 17, 18}
  BY <1>1
<1>4. k \in 1..18
  BY <1>1
<1>5. \A c \in Contracts : Steps[k] = c => k = BuiltAt[c]
  <2>1. /\ BuiltAt["rush"] = 1 /\ BuiltAt["timelock"] = 2 /\ BuiltAt["treasury"] = 3
        /\ BuiltAt["game"] = 4 /\ BuiltAt["vesting"] = 6 /\ BuiltAt["lpLock"] = 8
    BY DEF BuiltAt
  <2>2. /\ Steps[k] = "rush" => k = 1
        /\ Steps[k] = "timelock" => k = 2
        /\ Steps[k] = "treasury" => k = 3
        /\ Steps[k] = "game" => k = 4
        /\ Steps[k] = "vesting" => k = 6
        /\ Steps[k] = "lpLock" => k = 8
    BY <1>2, <1>3
  <2>3. QED
    BY <2>1, <2>2 DEF Contracts
<1>6. QED
  BY <1>2, <1>3, <1>4, <1>5

(* The launch at its next step.                                               *)
LEMMA LaunchAt ==
  ASSUME DInv, NEW step, At(step)
  PROVE  /\ launch # None /\ launch \in Launches
         /\ launch.step \in 1..18 /\ launch.step + 1 \in 1..19
         /\ launch.step <= Len(Steps) /\ Steps[launch.step] = step
         /\ launch.env \in AnyEnvs
         /\ launch.stack = Len(stacks) /\ launch.stack \in DOMAIN stacks
         /\ this \in Stack
         /\ Building(this, launch.step, launch.env)
<1>1. launch # None /\ launch.step <= Len(Steps) /\ Steps[launch.step] = step
  BY DEF At
<1>2. /\ launch \in Launches /\ launch.stack = Len(stacks) /\ launch.stack \in DOMAIN stacks
      /\ Building(this, launch.step, launch.env)
  BY <1>1 DEF DInv, LaunchIsUnderWay, this
<1>3. launch.step \in 1..19 /\ launch.env \in AnyEnvs
  BY <1>2 DEF Launches
<1>4. launch.step \in 1..18
  BY <1>1, <1>3, StepNumbers
<1>5. this \in Stack
  BY <1>2 DEF Building
<1>6. launch.step + 1 \in 1..19
  BY <1>4
<1>7. QED
  BY <1>1, <1>2, <1>3, <1>4, <1>5, <1>6

(* A record of a stack that a step leaves as it is stays one of a complete stack. *)
LEMMA RecordKept ==
  ASSUME StacksTyped, now' = now, network' = network, file' = file,
         file # None => file.stack \in DOMAIN stacks,
         file # None => file.stack \in DOMAIN stacks' /\ stacks'[file.stack] = stacks[file.stack],
         RecordedStackIsComplete
  PROVE  RecordedStackIsComplete'
<1>0. (RecordedStackIsComplete <=> \A n \in Recorded : Complete(n))'
  BY DEF RecordedStackIsComplete, Complete, Locked, CompleteAs, EnvOf, Essence
<1> SUFFICES ASSUME NEW n \in Recorded' PROVE Complete(n)'
  BY <1>0
<1>1. n \in Recorded /\ stacks'[n] = stacks[n]
  BY DEF Recorded
<1>2. PICK s, d : s = stacks[n] /\ d = file
  OBVIOUS
<1>3. s.kind = "launch" =>
        /\ Locked(s, d)
        /\ \E lpEth \in LpEths, left \in Leavings(s.pool) : CompleteAs(s, d, lpEth, left)
  BY <1>1, <1>2, CompleteStated DEF Complete
<1>4. \A lpEth, left : CompleteAs(s, d, lpEth, left) => CompleteAs(s, d, lpEth, left)'
  BY DEF CompleteAs, EnvOf, Essence, WholeStack, FreshStack, resolveMasterSeed, isLocal
<1>5. Locked(s, d) => Locked(s, d)'
  BY DEF Locked
<1>6. QED
  BY <1>1, <1>2, <1>3, <1>4, <1>5 DEF Complete

(* A step of the script: what it does to its own stack touches no recorded one.   *)
LEMMA StepKeeps ==
  ASSUME DInv, launch # None, launch.step \in 1..18,
         NEW s \in Stack, NEW k \in 1..19, k \in {launch.step, launch.step + 1},
         Building(s, k, launch.env),
         stacks' = [stacks EXCEPT ![launch.stack] = s],
         launch' = [launch EXCEPT !.step = k],
         UNCHANGED <<network, now, managers, uniswapRun, uniswapFile, file>>
  PROVE  DInv'
<1>1. /\ launch \in Launches /\ launch.stack = Len(stacks) /\ launch.stack \in DOMAIN stacks
      /\ file # None => file.stack # launch.stack
  <2>1. launch.step # 19
    OBVIOUS
  <2>2. QED
    BY <2>1 DEF DInv, LaunchIsUnderWay
<1>2. Len(stacks) \in Nat /\ DOMAIN stacks = 1..Len(stacks) /\ stacks \in [1..Len(stacks) -> Stack]
  BY TypedStacks DEF DInv
<1>3. /\ stacks' \in Seq(Stack) /\ Len(stacks') = Len(stacks)
      /\ \A j \in 1..Len(stacks) : stacks'[j] = IF j = launch.stack THEN s ELSE stacks[j]
  BY <1>1, <1>2, ExceptSeq DEF DInv, StacksTyped
<1>4. DOMAIN stacks' = DOMAIN stacks
  BY <1>2, <1>3, LenProperties
<1>5. StacksTyped'
  BY <1>3 DEF DInv, StacksTyped
<1>6. {managers', uniswapRun', uniswapFile'} \subseteq Nat
      /\ (file' # None => file'.stack \in DOMAIN stacks' /\ file'.unlockTime \in Nat)
  BY <1>4 DEF DInv
<1>7. LaunchIsUnderWay'
  <2>1. PICK e : e = launch.env
    OBVIOUS
  <2>2. /\ launch' \in Launches /\ launch'.stack = launch.stack /\ launch'.step = k
        /\ launch'.env = e
    BY <1>1, <2>1 DEF Launches
  <2>3. launch'.stack = Len(stacks') /\ launch'.stack \in DOMAIN stacks'
        /\ stacks'[launch'.stack] = s
    BY <1>1, <1>2, <1>3, <1>4, <2>2
  <2>4. Building(s, k, e)'
    BY <2>1 DEF Building, resolveMasterSeed, isLocal
  <2>5. file' # None /\ file'.stack = launch'.stack => launch'.step = 19
    BY <1>1, <2>2
  <2>6. QED
    BY <2>2, <2>3, <2>4, <2>5 DEF LaunchIsUnderWay
<1>8. RecordedStackIsComplete'
  BY <1>1, <1>2, <1>3, <1>4, RecordKept DEF DInv
<1>9. QED
  BY <1>5, <1>6, <1>7, <1>8 DEF DInv

(* The same, in the form the actions take.                                     *)
LEMMA StepTaken ==
  ASSUME DInv, NEW step, At(step), NEW s \in Stack,
         Building(s, launch.step + 1, launch.env), Step(s)
  PROVE  DInv'
<1>1. /\ launch # None /\ launch.step \in 1..18 /\ launch.step + 1 \in 1..19
  BY LaunchAt
<1>2. PICK k \in 1..19 : k = launch.step + 1
  BY <1>1
<1>3. launch' = [launch EXCEPT !.step = k]
  BY <1>2 DEF Step
<1>4. QED
  BY <1>1, <1>2, <1>3, StepKeeps DEF Step

(* What each step has to add to the stack for the next one.                     *)
LEMMA Onward ==
  ASSUME NEW s \in Stack, NEW s2 \in Stack, NEW k \in 1..18, NEW e, Building(s, k, e),
         s2.kind = s.kind, s2.seed = s.seed,
         s.built \subseteq s2.built, \A c \in Contracts : BuiltAt[c] = k => c \in s2.built,
         s.wired \/ k = 5 => s2.wired,
         s2.manager = IF k = 7 THEN e.manager ELSE s.manager,
         k = 9 => allocationTotal = Supply,
         s2.sent = IF k = 10 THEN 5 ELSE s.sent,
         s2.position = IF k = 13 THEN "lock" ELSE s.position,
         s2.guardian = IF k = 16 THEN "safe" ELSE s.guardian,
         s2.governance = IF k = 17 THEN "timelock" ELSE s.governance,
         Amounts(s2, k + 1, e)
  PROVE  Building(s2, k + 1, e)
<1>1. /\ s2 \in Stack /\ s2.kind = "launch" /\ s2.seed = resolveMasterSeed(e.seed)
  BY DEF Building
<1>2. \A c \in Contracts : BuiltAt[c] < k + 1 => c \in s2.built
  <2>1. \A c \in Contracts : BuiltAt[c] \in Nat
    BY DEF Contracts, BuiltAt
  <2>2. \A c \in Contracts : BuiltAt[c] < k => c \in s2.built
    BY DEF Building
  <2>3. QED
    BY <2>1, <2>2
<1>3. k + 1 > 5 => s2.wired
  BY DEF Building
<1>4. k + 1 > 7 => s2.manager = e.manager
  BY DEF Building
<1>5. k + 1 > 9 => allocationTotal = Supply
  BY DEF Building
<1>6. s2.sent \in IF k + 1 < 10 THEN {0} ELSE IF k + 1 = 10 THEN 0..4 ELSE {5}
  <2>1. s.sent \in IF k < 10 THEN {0} ELSE IF k = 10 THEN 0..4 ELSE {5}
    BY DEF Building
  <2>2. CASE k < 9
    BY <2>1, <2>2
  <2>3. CASE k = 9
    BY <2>1, <2>3
  <2>4. CASE k = 10
    BY <2>4
  <2>5. CASE k > 10
    BY <2>1, <2>5
  <2>6. QED
    BY <2>2, <2>3, <2>4, <2>5
<1>7. (k + 1 > 13 => s2.position = "lock") /\ (k + 1 > 16 => s2.guardian = "safe")
  BY DEF Building
<1>8. k + 1 > 17 => s2.governance = "timelock"
  BY DEF Building
<1>9. QED
  BY <1>1, <1>2, <1>3, <1>4, <1>5, <1>6, <1>7, <1>8 DEF Building

(* Only the mint and what follows it move more than the split.                  *)
LEMMA AmountsStay ==
  ASSUME NEW s, NEW s2, s2.held = s.held, s2.sent = s.sent, NEW k \in 1..18, k > 13 => s2.pool = s.pool,
         k \notin {13, 15},
         NEW e, Amounts(s, k, e)
  PROVE  Amounts(s2, k + 1, e)
<1>1. (k + 1 > 13 <=> k > 13) /\ (k + 1 > 15 <=> k > 15)
  OBVIOUS
<1>2. QED
  BY <1>1 DEF Amounts

(* One contract more.                                                         *)
LEMMA BuildKeeps ==
  ASSUME DInv, NEW contract \in Contracts, Build(contract)
  PROVE  DInv'
<1>1. At(contract)
  BY DEF Build
<1>2. PICK s \in Stack, k \in 1..18, e \in AnyEnvs :
        s = this /\ k = launch.step /\ e = launch.env
        /\ Steps[k] = contract /\ k <= Len(Steps) /\ Building(s, k, e)
  BY <1>1, LaunchAt
<1>3. k = BuiltAt[contract]
  <2>1. k \in 1..19
    OBVIOUS
  <2>2. QED
    BY <1>2, <2>1, StepNumbers
<1>4. PICK until \in Nat :
        until = IF contract = "lpLock" THEN now + LOCK_SECONDS ELSE s.unlockTime
  <2>1. now + LOCK_SECONDS \in Nat
    BY LaunchAssumption DEF DInv, StacksTyped
  <2>2. s.unlockTime \in Nat
    BY DEF Stack
  <2>3. QED
    BY <2>1, <2>2
<1>5. PICK built \in SUBSET Contracts : built = s.built \cup {contract}
  BY DEF Stack
<1>6. PICK s2 \in Stack : s2 = [s EXCEPT !.built = built, !.unlockTime = until]
  BY DEF Stack
<1>7. /\ s2.kind = s.kind /\ s2.seed = s.seed /\ s2.built = built /\ s2.wired = s.wired
      /\ s2.manager = s.manager /\ s2.sent = s.sent /\ s2.guardian = s.guardian
      /\ s2.governance = s.governance /\ s2.held = s.held /\ s2.position = s.position
      /\ s2.pool = s.pool
  BY <1>6 DEF Stack
<1>8. k \in {1, 2, 3, 4, 6, 8}
  BY <1>3 DEF Contracts, BuiltAt
<1>9. \A c \in Contracts : BuiltAt[c] = k => c = contract
  BY <1>3 DEF Contracts, BuiltAt
<1>10. Amounts(s2, k + 1, e)
  BY <1>2, <1>7, <1>8, AmountsStay DEF Building
<1>11. Building(s2, k + 1, e)
  BY <1>2, <1>5, <1>7, <1>8, <1>9, <1>10, Onward
<1>12. Step(s2)
  BY <1>2, <1>4, <1>5, <1>6 DEF Build
<1>13. QED
  BY <1>1, <1>2, <1>11, <1>12, StepTaken

(* The other steps that move no RUSH.  None of them builds a contract.           *)
LEMMA QuietStep ==
  ASSUME DInv, NEW step, At(step), NEW k \in {5, 7, 9, 11, 12, 14, 16, 17}, k = launch.step,
         NEW s2 \in Stack, Step(s2),
         s2.kind = this.kind, s2.seed = this.seed, s2.built = this.built,
         this.wired \/ k = 5 => s2.wired,
         s2.manager = IF k = 7 THEN launch.env.manager ELSE this.manager,
         k = 9 => allocationTotal = Supply,
         s2.sent = this.sent, s2.held = this.held, s2.position = this.position,
         k # 12 => s2.pool = this.pool,
         s2.guardian = IF k = 16 THEN "safe" ELSE this.guardian,
         s2.governance = IF k = 17 THEN "timelock" ELSE this.governance
  PROVE  DInv'
<1>1. PICK s \in Stack, e \in AnyEnvs : s = this /\ e = launch.env /\ Building(s, k, e)
  BY LaunchAt
<1>2. k \in 1..18 /\ k \notin {13, 15} /\ k # 10 /\ (k > 13 => s2.pool = this.pool)
  OBVIOUS
<1>3. \A c \in Contracts : BuiltAt[c] # k
  BY DEF Contracts, BuiltAt
<1>4. Amounts(s2, k + 1, e)
  BY <1>1, <1>2, AmountsStay DEF Building
<1>5. Building(s2, k + 1, e)
  BY <1>1, <1>2, <1>3, <1>4, Onward
<1>6. QED
  BY <1>1, <1>5, StepTaken

(* The order of the script, for the step being taken.                           *)
LEMMA StepAt ==
  ASSUME DInv, NEW step, At(step)
  PROVE  /\ step = "setGame" => launch.step = 5
         /\ step = "uniswap" => launch.step = 7
         /\ step = "genesis" => launch.step = 9
         /\ step = "split" => launch.step = 10
         /\ step = "verify" => launch.step = 11
         /\ step = "pool" => launch.step = 12
         /\ step = "mint" => launch.step = 13
         /\ step = "seeded" => launch.step = 14
         /\ step = "unseeded" => launch.step = 15
         /\ step = "guardian" => launch.step = 16
         /\ step = "governance" => launch.step = 17
         /\ step = "record" => launch.step = 18
<1>1. launch.step \in 1..19 /\ launch.step <= Len(Steps) /\ Steps[launch.step] = step
  <2>1. launch.step \in 1..18 /\ launch.step <= Len(Steps) /\ Steps[launch.step] = step
    BY LaunchAt
  <2>2. QED
    BY <2>1
<1>2. QED
  BY <1>1, StepNumbers

(* The game is wired, Uniswap found, the split checked before and after, the pool   *)
(* opened, the partial seed accepted, and the roles handed over.                 *)
LEMMA QuietStepsKeep ==
  ASSUME DInv,
         \/ SetGame \/ ResolveUniswap \/ CheckGenesis \/ VerifyGenesis \/ CheckSeeded
         \/ SetGuardian \/ SetGovernance \/ \E rushIs0 \in BOOLEAN : OpenPool(rushIs0)
  PROVE  DInv'
<1>1. ASSUME SetGame PROVE DInv'
  <2>1. At("setGame") /\ launch.step = 5
    BY <1>1, StepAt DEF SetGame
  <2>2. PICK s \in Stack : s = this
    BY <2>1, LaunchAt
  <2>3. PICK s2 \in Stack : s2 = [s EXCEPT !.wired = TRUE]
    BY DEF Stack
  <2>4. /\ s2.kind = s.kind /\ s2.seed = s.seed /\ s2.built = s.built /\ s2.wired
        /\ s2.manager = s.manager /\ s2.sent = s.sent /\ s2.held = s.held
        /\ s2.guardian = s.guardian /\ s2.governance = s.governance
        /\ s2.position = s.position /\ s2.pool = s.pool
    BY <2>3 DEF Stack
  <2>5. Step(s2)
    BY <1>1, <2>2, <2>3 DEF SetGame
  <2>6. QED
    BY <2>1, <2>2, <2>4, <2>5, QuietStep
<1>2. ASSUME ResolveUniswap PROVE DInv'
  <2>1. At("uniswap") /\ launch.step = 7
    BY <1>2, StepAt DEF ResolveUniswap
  <2>2. PICK s \in Stack, manager \in Nat : s = this /\ manager = launch.env.manager
    BY <2>1, LaunchAt DEF AnyEnvs
  <2>3. PICK s2 \in Stack : s2 = [s EXCEPT !.manager = manager]
    BY DEF Stack
  <2>4. /\ s2.kind = s.kind /\ s2.seed = s.seed /\ s2.built = s.built /\ s2.wired = s.wired
        /\ s2.manager = manager /\ s2.sent = s.sent /\ s2.held = s.held
        /\ s2.guardian = s.guardian /\ s2.governance = s.governance
        /\ s2.position = s.position /\ s2.pool = s.pool
    BY <2>3 DEF Stack
  <2>5. Step(s2)
    BY <1>2, <2>2, <2>3 DEF ResolveUniswap
  <2>6. QED
    BY <2>1, <2>2, <2>4, <2>5, QuietStep
<1>3. ASSUME CheckGenesis \/ VerifyGenesis \/ CheckSeeded PROVE DInv'
  <2>1. PICK step :
          /\ At(step) /\ Step(this) /\ launch.step \in {9, 11, 14}
          /\ launch.step = 9 => allocationTotal = Supply
    BY <1>3, StepAt DEF CheckGenesis, VerifyGenesis, CheckSeeded
  <2>2. PICK s \in Stack, k \in {9, 11, 14} : s = this /\ k = launch.step
    BY <2>1, LaunchAt
  <2>3. QED
    BY <2>1, <2>2, QuietStep
<1>4. ASSUME SetGuardian PROVE DInv'
  <2>1. At("guardian") /\ launch.step = 16
    BY <1>4, StepAt DEF SetGuardian
  <2>2. PICK s \in Stack : s = this
    BY <2>1, LaunchAt
  <2>3. PICK s2 \in Stack : s2 = [s EXCEPT !.guardian = "safe"]
    BY DEF Stack
  <2>4. /\ s2.kind = s.kind /\ s2.seed = s.seed /\ s2.built = s.built /\ s2.wired = s.wired
        /\ s2.manager = s.manager /\ s2.sent = s.sent /\ s2.held = s.held
        /\ s2.guardian = "safe" /\ s2.governance = s.governance
        /\ s2.position = s.position /\ s2.pool = s.pool
    BY <2>3 DEF Stack
  <2>5. Step(s2)
    BY <1>4, <2>2, <2>3 DEF SetGuardian
  <2>6. QED
    BY <2>1, <2>2, <2>4, <2>5, QuietStep
<1>5. ASSUME SetGovernance PROVE DInv'
  <2>1. At("governance") /\ launch.step = 17
    BY <1>5, StepAt DEF SetGovernance
  <2>2. PICK s \in Stack : s = this
    BY <2>1, LaunchAt
  <2>3. PICK s2 \in Stack : s2 = [s EXCEPT !.governance = "timelock"]
    BY DEF Stack
  <2>4. /\ s2.kind = s.kind /\ s2.seed = s.seed /\ s2.built = s.built /\ s2.wired = s.wired
        /\ s2.manager = s.manager /\ s2.sent = s.sent /\ s2.held = s.held
        /\ s2.guardian = s.guardian /\ s2.governance = "timelock"
        /\ s2.position = s.position /\ s2.pool = s.pool
    BY <2>3 DEF Stack
  <2>5. Step(s2)
    BY <1>5, <2>2, <2>3 DEF SetGovernance
  <2>6. QED
    BY <2>1, <2>2, <2>4, <2>5, QuietStep
<1>6. ASSUME NEW rushIs0 \in BOOLEAN, OpenPool(rushIs0) PROVE DInv'
  <2>1. At("pool") /\ launch.step = 12
    BY <1>6, StepAt DEF OpenPool
  <2>2. PICK s \in Stack, e \in AnyEnvs : s = this /\ e = launch.env
    BY <2>1, LaunchAt
  <2>3. PICK pool \in Pools :
          pool = IF s.pool # None THEN s.pool
                 ELSE buildSeedParams(rushIs0, lpRushAmount(e), e.lpEth)
    BY DEF Pools, lpRushAmount, AnyEnvs, Stack
  <2>4. PICK s2 \in Stack : s2 = [s EXCEPT !.pool = pool]
    BY DEF Stack
  <2>5. /\ s2.kind = s.kind /\ s2.seed = s.seed /\ s2.built = s.built /\ s2.wired = s.wired
        /\ s2.manager = s.manager /\ s2.sent = s.sent /\ s2.held = s.held
        /\ s2.guardian = s.guardian /\ s2.governance = s.governance
        /\ s2.position = s.position
    BY <2>4 DEF Stack
  <2>6. Step(s2)
    BY <1>6, <2>2, <2>3, <2>4 DEF OpenPool
  <2>7. QED
    BY <2>1, <2>2, <2>5, <2>6, QuietStep
<1>7. QED
  BY <1>1, <1>2, <1>3, <1>4, <1>5, <1>6

(* One bucket more: what Balances says after it.                                *)
LEMMA BucketPaid ==
  ASSUME NEW held \in [Holders -> Int], NEW sent \in 0..4, Balances(held, sent, 0, 0),
         NEW paid, paid = Paid(held, Destination[BUCKETS[sent + 1]],
                                     allocationOf(BUCKETS[sent + 1]))
  PROVE  paid \in [Holders -> Int] /\ Balances(paid, sent + 1, 0, 0)
<1>1. PICK t, q, c, m, g \in Int :
        /\ t = allocationOf("treasury") /\ q = allocationOf("liquidity")
        /\ c = allocationOf("community") /\ m = allocationOf("team")
        /\ g = allocationOf("staking")
  BY Allocations
<1>2. /\ BUCKETS[1] = "treasury" /\ BUCKETS[2] = "liquidity" /\ BUCKETS[3] = "community"
      /\ BUCKETS[4] = "team" /\ BUCKETS[5] = "staking"
  BY DEF BUCKETS
<1>3. /\ Destination["treasury"] = "treasury" /\ Destination["liquidity"] = "deployer"
      /\ Destination["community"] = "safe" /\ Destination["team"] = "vesting"
      /\ Destination["staking"] = "safe"
  BY DEF Destination
<1>4. PICK to \in Holders, amount \in Int :
        /\ paid = Paid(held, to, amount)
        /\ sent = 0 => to = "treasury" /\ amount = t
        /\ sent = 1 => to = "deployer" /\ amount = q
        /\ sent = 2 => to = "safe" /\ amount = c
        /\ sent = 3 => to = "vesting" /\ amount = m
        /\ sent = 4 => to = "safe" /\ amount = g
  <2>1. CASE sent = 0
    BY <1>1, <1>2, <1>3, <2>1 DEF Holders
  <2>2. CASE sent = 1
    BY <1>1, <1>2, <1>3, <2>2 DEF Holders
  <2>3. CASE sent = 2
    BY <1>1, <1>2, <1>3, <2>3 DEF Holders
  <2>4. CASE sent = 3
    BY <1>1, <1>2, <1>3, <2>4 DEF Holders
  <2>5. CASE sent = 4
    BY <1>1, <1>2, <1>3, <2>5 DEF Holders
  <2>6. QED
    BY <2>1, <2>2, <2>3, <2>4, <2>5
<1>5. /\ paid \in [Holders -> Int]
      /\ \A h \in Holders : paid[h] = held[h] + (IF h = to THEN amount ELSE 0)
                                            - (IF h = "deployer" THEN amount ELSE 0)
  BY <1>4, PaidTyped
<1>6. \A h \in Holders : held[h] \in Int
  OBVIOUS
<1>7. Supply \in Int
  BY LaunchAssumption
<1>8. /\ paid["treasury"] = held["treasury"] + (IF to = "treasury" THEN amount ELSE 0)
      /\ paid["vesting"] = held["vesting"] + (IF to = "vesting" THEN amount ELSE 0)
      /\ paid["pool"] = held["pool"] + (IF to = "pool" THEN amount ELSE 0)
      /\ paid["safe"] = held["safe"] + (IF to = "safe" THEN amount ELSE 0)
      /\ paid["deployer"] = held["deployer"] - (IF to = "deployer" THEN 0 ELSE amount)
  BY <1>5, <1>6 DEF Holders
<1>9. /\ held["treasury"] = IF sent >= 1 THEN t ELSE 0
      /\ held["vesting"] = IF sent >= 4 THEN m ELSE 0
      /\ held["pool"] = 0
      /\ held["safe"] = (IF sent >= 3 THEN c ELSE 0) + (IF sent >= 5 THEN g ELSE 0)
      /\ held["deployer"] = Supply - (IF sent >= 1 THEN t ELSE 0) - (IF sent >= 4 THEN m ELSE 0)
                               - (IF sent >= 3 THEN c ELSE 0) - (IF sent >= 5 THEN g ELSE 0)
  BY <1>1, <1>7 DEF Balances, Share
<1>10. Balances(paid, sent + 1, 0, 0)
  <2>1. PICK n \in 1..5 : n = sent + 1
    OBVIOUS
  <2>2. /\ paid["treasury"] = IF n >= 1 THEN t ELSE 0
        /\ paid["vesting"] = IF n >= 4 THEN m ELSE 0
        /\ paid["pool"] = 0
        /\ paid["safe"] = (IF n >= 3 THEN c ELSE 0) + (IF n >= 5 THEN g ELSE 0)
        /\ paid["deployer"] = Supply - (IF n >= 1 THEN t ELSE 0) - (IF n >= 4 THEN m ELSE 0)
                               - (IF n >= 3 THEN c ELSE 0) - (IF n >= 5 THEN g ELSE 0)
    <3>1. CASE sent = 0
      BY <1>4, <1>7, <1>8, <1>9, <2>1, <3>1
    <3>2. CASE sent = 1
      BY <1>4, <1>7, <1>8, <1>9, <2>1, <3>2
    <3>3. CASE sent = 2
      BY <1>4, <1>7, <1>8, <1>9, <2>1, <3>3
    <3>4. CASE sent = 3
      BY <1>4, <1>7, <1>8, <1>9, <2>1, <3>4
    <3>5. CASE sent = 4
      BY <1>4, <1>7, <1>8, <1>9, <2>1, <3>5
    <3>6. QED
      BY <3>1, <3>2, <3>3, <3>4, <3>5
  <2>3. QED
    BY <1>1, <1>7, <2>1, <2>2 DEF Balances, Share
<1>11. QED
  BY <1>5, <1>10

(* The split, one bucket at a time; the fifth ends the step.                     *)
LEMMA SendBucketKeeps ==
  ASSUME DInv, SendBucket
  PROVE  DInv'
<1>1. At("split") /\ launch.step = 10
  BY StepAt DEF SendBucket
<1>2. PICK s \in Stack, e \in AnyEnvs : s = this /\ e = launch.env /\ Building(s, 10, e)
  BY <1>1, LaunchAt
<1>3. s.sent \in 0..4 /\ Balances(s.held, s.sent, 0, 0)
  BY <1>2 DEF Building, Amounts
<1>4. PICK sent \in 0..4, held \in [Holders -> Int] : sent = s.sent /\ held = s.held
  BY <1>3 DEF Stack
<1>5. PICK paid : paid = Paid(held, Destination[BUCKETS[sent + 1]], allocationOf(BUCKETS[sent + 1]))
  OBVIOUS
<1>6. paid \in [Holders -> Int] /\ Balances(paid, sent + 1, 0, 0)
  BY <1>3, <1>4, <1>5, BucketPaid
<1>7. PICK n \in 1..5 : n = sent + 1
  OBVIOUS
<1>8. PICK s2 \in Stack : s2 = [s EXCEPT !.held = paid, !.sent = n]
  <2>1. n \in Nat
    OBVIOUS
  <2>2. QED
    BY <1>6, <2>1 DEF Stack
<1>9. /\ s2.kind = s.kind /\ s2.seed = s.seed /\ s2.built = s.built /\ s2.wired = s.wired
      /\ s2.manager = s.manager /\ s2.sent = n /\ s2.held = paid
      /\ s2.guardian = s.guardian /\ s2.governance = s.governance
      /\ s2.position = s.position
  BY <1>8 DEF Stack
<1>10. Len(BUCKETS) = 5
  BY DEF BUCKETS
<1>11. s2 = [s EXCEPT !.held = Paid(@, Destination[BUCKETS[s.sent + 1]],
                                      allocationOf(BUCKETS[s.sent + 1])),
                      !.sent = @ + 1]
  BY <1>4, <1>5, <1>7, <1>8
<1>12. CASE n = 5
  <2>1. Step(s2)
    BY <1>2, <1>9, <1>10, <1>11, <1>12 DEF SendBucket
  <2>2. Amounts(s2, 10 + 1, e)
    BY <1>6, <1>7, <1>9 DEF Amounts, Lefts
  <2>3. \A c \in Contracts : BuiltAt[c] # 10
    BY DEF Contracts, BuiltAt
  <2>4. Building(s2, 10 + 1, e)
    <3>1. 10 \in 1..18
      OBVIOUS
    <3>2. QED
      BY <1>2, <1>9, <1>12, <2>2, <2>3, <3>1, Onward
  <2>5. QED
    BY <1>1, <1>2, <2>1, <2>4, StepTaken
<1>13. CASE n # 5
  <2>1. stacks' = [stacks EXCEPT ![launch.stack] = s2]
        /\ UNCHANGED <<network, now, managers, uniswapRun, uniswapFile, launch, file>>
    BY <1>2, <1>9, <1>10, <1>11, <1>13 DEF SendBucket
  <2>2. n \in 0..4
    BY <1>13
  <2>3. Amounts(s2, 10, e)
    BY <1>6, <1>7, <1>9 DEF Amounts, Lefts
  <2>4. Building(s2, 10, e)
    BY <1>2, <1>9, <2>2, <2>3 DEF Building
  <2>5. launch' = [launch EXCEPT !.step = 10]
    BY <1>1, <2>1, LaunchAt DEF Launches
  <2>6. launch # None /\ launch.step \in 1..18 /\ 10 \in 1..19
    BY <1>1, LaunchAt
  <2>7. QED
    BY <1>1, <1>2, <2>1, <2>4, <2>5, <2>6, StepKeeps
<1>14. QED
  BY <1>12, <1>13

(* What leaves the deployer for the pool or the Safe.                          *)
LEMMA PaidOut ==
  ASSUME NEW held \in [Holders -> Int], NEW to \in {"pool", "safe"}, NEW amount \in Int
  PROVE  \E paid \in [Holders -> Int] :
           /\ paid = Paid(held, to, amount)
           /\ paid["deployer"] = held["deployer"] - amount
           /\ paid["treasury"] = held["treasury"] /\ paid["vesting"] = held["vesting"]
           /\ paid["pool"] = IF to = "pool" THEN held["pool"] + amount ELSE held["pool"]
           /\ paid["safe"] = IF to = "safe" THEN held["safe"] + amount ELSE held["safe"]
<1>1. \A h \in Holders : held[h] \in Int
  OBVIOUS
<1>2. to \in Holders /\ to # "deployer" /\ to # "treasury" /\ to # "vesting"
  BY DEF Holders
<1>3. PICK paid : paid = Paid(held, to, amount)
  OBVIOUS
<1>4. /\ paid \in [Holders -> Int]
      /\ \A h \in Holders : paid[h] = held[h] + (IF h = to THEN amount ELSE 0)
                                            - (IF h = "deployer" THEN amount ELSE 0)
  BY <1>2, <1>3, PaidTyped
<1>5. {"deployer", "treasury", "vesting", "pool", "safe"} \subseteq Holders
  BY DEF Holders
<1>6. paid["deployer"] = held["deployer"] - amount
  BY <1>1, <1>2, <1>4, <1>5
<1>7. paid["treasury"] = held["treasury"] /\ paid["vesting"] = held["vesting"]
  BY <1>1, <1>2, <1>4, <1>5
<1>8. paid["pool"] = IF to = "pool" THEN held["pool"] + amount ELSE held["pool"]
  BY <1>1, <1>4, <1>5
<1>9. paid["safe"] = IF to = "safe" THEN held["safe"] + amount ELSE held["safe"]
  BY <1>1, <1>4, <1>5
<1>10. QED
  BY <1>3, <1>4, <1>6, <1>7, <1>8, <1>9

(* The two steps that pay after the split: the pool is filled, and the rest of    *)
(* the liquidity goes to the Safe.                                            *)
LEMMA LiquidityStep ==
  ASSUME DInv, NEW k \in {13, 15}, k = launch.step, NEW step, At(step),
         NEW s \in Stack, s = this, NEW s2 \in Stack, Step(s2),
         s2.kind = s.kind, s2.seed = s.seed, s2.built = s.built, s2.wired = s.wired,
         s2.manager = s.manager, s2.sent = s.sent, s2.guardian = s.guardian,
         s2.governance = s.governance,
         s2.position = IF k = 13 THEN "lock" ELSE s.position, Amounts(s2, k + 1, launch.env)
  PROVE  DInv'
<1>1. PICK e \in AnyEnvs : e = launch.env /\ Building(s, k, e)
  BY LaunchAt
<1>2. k \in 1..18 /\ k \notin {5, 7, 9, 10, 16, 17}
  OBVIOUS
<1>3. \A c \in Contracts : BuiltAt[c] # k
  BY DEF Contracts, BuiltAt
<1>4. Building(s2, k + 1, e)
  BY <1>1, <1>2, <1>3, Onward
<1>5. QED
  BY <1>1, <1>4, StepTaken

(* Others set the price of a pool that has no position yet: nothing has been paid    *)
(* into it, and no record names its stack.                                     *)
LEMMA OthersSetPriceKeeps ==
  ASSUME DInv, OthersSetPrice
  PROVE  DInv'
<1>1. PICK k \in {12, 13}, step \in {"pool", "mint"} : k = launch.step /\ At(step)
  BY StepAt DEF OthersSetPrice
<1>2. PICK s \in Stack, e \in AnyEnvs : s = this /\ e = launch.env /\ Building(s, k, e)
  BY <1>1, LaunchAt
<1>3. PICK s2 \in Stack : s2 = [s EXCEPT !.pool = OtherPrice]
  <2>1. OtherPrice \in Pools
    BY DEF Pools
  <2>2. QED
    BY <2>1 DEF Stack
<1>4. /\ s2.kind = s.kind /\ s2.seed = s.seed /\ s2.built = s.built /\ s2.wired = s.wired
      /\ s2.manager = s.manager /\ s2.sent = s.sent /\ s2.held = s.held
      /\ s2.guardian = s.guardian /\ s2.governance = s.governance
      /\ s2.position = s.position
  BY <1>3 DEF Stack
<1>5. Amounts(s2, k, e)
  BY <1>2, <1>4 DEF Building, Amounts
<1>6. Building(s2, k, e)
  BY <1>2, <1>4, <1>5 DEF Building
<1>7. stacks' = [stacks EXCEPT ![launch.stack] = s2]
  BY <1>2, <1>3 DEF OthersSetPrice, this
<1>8. /\ launch' = [launch EXCEPT !.step = k] /\ launch # None /\ launch.step \in 1..18
      /\ UNCHANGED <<network, now, managers, uniswapRun, uniswapFile, file>>
  BY <1>1, LaunchAt DEF OthersSetPrice, Launches
<1>9. k \in 1..19 /\ k \in {launch.step, launch.step + 1} /\ Building(s2, k, launch.env)
  BY <1>1, <1>2, <1>6
<1>10. QED
  BY <1>7, <1>8, <1>9, StepKeeps

(* The position takes what the price of the pool asks for.                       *)
LEMMA MintPositionKeeps ==
  ASSUME DInv, NEW left \in Lefts, MintPosition(left)
  PROVE  DInv'
<1>1. At("mint") /\ launch.step = 13
  BY StepAt DEF MintPosition
<1>2. PICK s \in Stack, e \in AnyEnvs : s = this /\ e = launch.env /\ Building(s, 13, e)
  BY <1>1, LaunchAt
<1>3. PICK held \in [Holders -> Int] : held = s.held
  BY DEF Stack
<1>4. s.sent = 5 /\ Balances(held, 5, 0, 0)
  BY <1>2, <1>3 DEF Building, Amounts
<1>5. PICK amount \in Int : amount = lpRushAmount(e) - left
  <2>1. e.lpEth \in Nat /\ RUSH_PER_ETH \in Nat
    BY LaunchAssumption DEF AnyEnvs
  <2>2. lpRushAmount(e) \in Nat
    BY <2>1 DEF lpRushAmount
  <2>3. left \in Nat
    BY LaunchAssumption DEF Lefts
  <2>4. lpRushAmount(e) - left \in Int
    BY <2>2, <2>3
  <2>5. QED
    BY <2>4
<1>6. PICK paid \in [Holders -> Int] :
        /\ paid = Paid(held, "pool", amount)
        /\ paid["deployer"] = held["deployer"] - amount
        /\ paid["treasury"] = held["treasury"] /\ paid["vesting"] = held["vesting"]
        /\ paid["pool"] = held["pool"] + amount /\ paid["safe"] = held["safe"]
  BY PaidOut
<1>7. PICK s2 \in Stack : s2 = [s EXCEPT !.held = paid, !.position = "lock"]
  BY DEF Stack
<1>8. /\ s2.kind = s.kind /\ s2.seed = s.seed /\ s2.built = s.built /\ s2.wired = s.wired
      /\ s2.manager = s.manager /\ s2.sent = s.sent /\ s2.held = paid
      /\ s2.guardian = s.guardian /\ s2.governance = s.governance
      /\ s2.position = "lock" /\ s2.pool = s.pool /\ left \in Leavings(s2.pool)
  BY <1>2, <1>7 DEF Stack, MintPosition
<1>9. Balances(paid, 5, amount, 0)
  <2>1. PICK t, c, m, g \in Int :
          /\ t = Share("treasury", 5, 1) /\ m = Share("team", 5, 4)
          /\ c = Share("community", 5, 3) /\ g = Share("staking", 5, 5)
    BY Allocations DEF Share
  <2>2. Supply \in Int
    BY LaunchAssumption
  <2>3. QED
    BY <1>4, <1>6, <2>1, <2>2 DEF Balances
<1>10. Amounts(s2, 13 + 1, e)
  BY <1>4, <1>5, <1>8, <1>9 DEF Amounts
<1>11. Step(s2)
  BY <1>2, <1>3, <1>5, <1>6, <1>7 DEF MintPosition
<1>12. QED
  BY <1>1, <1>2, <1>8, <1>10, <1>11, LiquidityStep

(* The rest of the liquidity goes to the Safe.                                  *)
LEMMA SendUnseededKeeps ==
  ASSUME DInv, SendUnseeded
  PROVE  DInv'
<1>1. At("unseeded") /\ launch.step = 15
  BY StepAt DEF SendUnseeded
<1>2. PICK s \in Stack, e \in AnyEnvs : s = this /\ e = launch.env /\ Building(s, 15, e)
  BY <1>1, LaunchAt
<1>3. PICK held \in [Holders -> Int] : held = s.held
  BY DEF Stack
<1>4. PICK left \in Lefts : /\ s.sent = 5 /\ left \in Leavings(s.pool)
                           /\ Balances(held, 5, lpRushAmount(e) - left, 0)
  BY <1>2, <1>3 DEF Building, Amounts
<1>5. PICK pooled \in Int : pooled = lpRushAmount(e) - left
  <2>1. e.lpEth \in Nat /\ RUSH_PER_ETH \in Nat
    BY LaunchAssumption DEF AnyEnvs
  <2>2. lpRushAmount(e) \in Nat
    BY <2>1 DEF lpRushAmount
  <2>3. left \in Nat
    BY LaunchAssumption DEF Lefts
  <2>4. lpRushAmount(e) - left \in Int
    BY <2>2, <2>3
  <2>5. QED
    BY <2>4
<1>6. PICK amount \in Int : amount = unseeded(e)
  <2>1. lpRushAmount(e) \in Nat
    <3>1. e.lpEth \in Nat /\ RUSH_PER_ETH \in Nat
      BY LaunchAssumption DEF AnyEnvs
    <3>2. QED
      BY <3>1 DEF lpRushAmount
  <2>2. allocationOf("liquidity") \in Nat
    BY Allocations
  <2>3. allocationOf("liquidity") - lpRushAmount(e) \in Int
    BY <2>1, <2>2
  <2>4. QED
    BY <2>3 DEF unseeded
<1>7. PICK paid \in [Holders -> Int] :
        /\ paid = Paid(held, "safe", amount)
        /\ paid["deployer"] = held["deployer"] - amount
        /\ paid["treasury"] = held["treasury"] /\ paid["vesting"] = held["vesting"]
        /\ paid["safe"] = held["safe"] + amount /\ paid["pool"] = held["pool"]
  BY PaidOut
<1>8. PICK s2 \in Stack : s2 = [s EXCEPT !.held = paid]
  BY DEF Stack
<1>9. /\ s2.kind = s.kind /\ s2.seed = s.seed /\ s2.built = s.built /\ s2.wired = s.wired
      /\ s2.manager = s.manager /\ s2.sent = s.sent /\ s2.held = paid
      /\ s2.guardian = s.guardian /\ s2.governance = s.governance
      /\ s2.position = s.position /\ s2.pool = s.pool
  BY <1>8 DEF Stack
<1>10. Balances(paid, 5, pooled, amount)
  <2>1. PICK t, c, m, g \in Int :
          /\ t = Share("treasury", 5, 1) /\ m = Share("team", 5, 4)
          /\ c = Share("community", 5, 3) /\ g = Share("staking", 5, 5)
    BY Allocations DEF Share
  <2>2. Supply \in Int
    BY LaunchAssumption
  <2>3. QED
    BY <1>4, <1>5, <1>7, <2>1, <2>2 DEF Balances
<1>11. Amounts(s2, 15 + 1, e)
  BY <1>4, <1>5, <1>6, <1>9, <1>10 DEF Amounts
<1>12. Step(s2)
  BY <1>2, <1>3, <1>6, <1>7, <1>8 DEF SendUnseeded
<1>13. QED
  BY <1>1, <1>2, <1>9, <1>11, <1>12, LiquidityStep

(* Two stacks that agree in everything are the same.                           *)
LEMMA SameStack ==
  ASSUME NEW s \in Stack, NEW s2 \in Stack,
         s.built = s2.built, s.seed = s2.seed, s.wired = s2.wired, s.kind = s2.kind,
         s.held = s2.held, s.sent = s2.sent, s.manager = s2.manager, s.pool = s2.pool,
         s.position = s2.position, s.unlockTime = s2.unlockTime,
         s.guardian = s2.guardian, s.governance = s2.governance
  PROVE  s = s2
BY DEF Stack

(* A launch that has handed over its roles has put the whole supply where the     *)
(* genesis split and the opening of the pool say.                              *)
LEMMA AmountsAreWhole ==
  ASSUME NEW held \in [Holders -> Int], NEW left \in Lefts, NEW e \in AnyEnvs,
         allocationTotal = Supply,
         Balances(held, 5, lpRushAmount(e) - left, unseeded(e))
  PROVE  held = [deployer |-> left, treasury |-> allocationOf("treasury"),
                 pool |-> lpRushAmount(e) - left, vesting |-> allocationOf("team"),
                 safe |-> allocationOf("community") + allocationOf("staking") + unseeded(e)]
<1>1. PICK t, q, c, m, g \in Int :
        /\ t = allocationOf("treasury") /\ q = allocationOf("liquidity")
        /\ c = allocationOf("community") /\ m = allocationOf("team")
        /\ g = allocationOf("staking")
  BY Allocations
<1>2. PICK a \in Int : a = lpRushAmount(e)
  <2>1. e.lpEth \in Nat /\ RUSH_PER_ETH \in Nat
    BY LaunchAssumption DEF AnyEnvs
  <2>2. lpRushAmount(e) \in Int
    BY <2>1 DEF lpRushAmount
  <2>3. QED
    BY <2>2
<1>3. PICK few \in Int : few = left
  BY LaunchAssumption DEF Lefts
<1>4. PICK rest \in Int : rest = unseeded(e) /\ rest = q - a
  <2>1. q - a \in Int
    OBVIOUS
  <2>2. unseeded(e) = q - a
    BY <1>1, <1>2 DEF unseeded
  <2>3. QED
    BY <2>1, <2>2
<1>5. t + q + c + m + g = Supply
  BY <1>1 DEF allocationTotal
<1>6. /\ Share("treasury", 5, 1) = t /\ Share("team", 5, 4) = m
      /\ Share("community", 5, 3) = c /\ Share("staking", 5, 5) = g
  BY <1>1 DEF Share
<1>7. /\ held["treasury"] = t /\ held["vesting"] = m /\ held["pool"] = a - few
      /\ held["safe"] = c + g + rest
      /\ held["deployer"] = Supply - t - m - c - g - (a - few) - rest
  BY <1>2, <1>3, <1>4, <1>6 DEF Balances
<1>8. held["deployer"] = few
  BY <1>4, <1>5, <1>7
<1>9. PICK inPool, toSafe \in Int : inPool = a - few /\ toSafe = c + g + rest
  OBVIOUS
<1> DEFINE whole == [deployer |-> few, treasury |-> t, pool |-> inPool, vesting |-> m,
                     safe |-> toSafe]
<1>10. whole \in [Holders -> Int]
  BY DEF Holders
<1>11. \A h \in Holders : held[h] = whole[h]
  BY <1>7, <1>8, <1>9 DEF Holders
<1>12. held = whole
  <2> HIDE DEF whole
  <2>1. QED
    BY <1>10, <1>11
<1>13. QED
  BY <1>1, <1>2, <1>3, <1>4, <1>9, <1>12

(* So the record that it then writes is of a complete stack.                    *)
LEMMA BuiltIsWhole ==
  ASSUME now \in Nat, NEW s \in Stack, NEW e \in AnyEnvs, Building(s, 18, e)
  PROVE  \E left \in Leavings(s.pool) :
           /\ unseeded(EnvOf(s, e.lpEth)) = unseeded(e)
           /\ Essence(s) = [WholeStack(EnvOf(s, e.lpEth), s.pool, left) EXCEPT !.unlockTime = 0]
<1>1. PICK left \in Lefts :
        /\ left \in Leavings(s.pool)
        /\ Balances(s.held, s.sent, lpRushAmount(e) - left, unseeded(e))
  BY DEF Building, Amounts
<1>2. /\ s.kind = "launch" /\ s.seed = resolveMasterSeed(e.seed) /\ s.wired
      /\ s.manager = e.manager /\ allocationTotal = Supply /\ s.sent = 5
      /\ s.guardian = "safe" /\ s.governance = "timelock"
      /\ \A c \in Contracts : BuiltAt[c] < 18 => c \in s.built
  BY DEF Building
<1>3. s.built = Contracts
  <2>1. \A c \in Contracts : BuiltAt[c] < 18
    BY DEF Contracts, BuiltAt
  <2>2. s.built \subseteq Contracts
    BY DEF Stack
  <2>3. QED
    BY <1>2, <2>1, <2>2
<1>4. PICK env : env = EnvOf(s, e.lpEth)
  OBVIOUS
<1>5. /\ env.seed = s.seed /\ env.lpEth = e.lpEth /\ env.manager = s.manager
      /\ env.seed \in SeedTexts /\ env.lpEth \in LpEths /\ env.manager \in Nat
  BY <1>4 DEF EnvOf, Stack, AnyEnvs
<1>6. lpRushAmount(env) = lpRushAmount(e) /\ unseeded(env) = unseeded(e)
  BY <1>5 DEF lpRushAmount, unseeded
<1>7. resolveMasterSeed(env.seed) = s.seed
  BY <1>2, <1>5 DEF resolveMasterSeed
<1>8. PICK held \in [Holders -> Int] :
        /\ held = s.held
        /\ held = [deployer |-> left, treasury |-> allocationOf("treasury"),
                   pool |-> lpRushAmount(env) - left, vesting |-> allocationOf("team"),
                   safe |-> allocationOf("community") + allocationOf("staking") + unseeded(env)]
  <2>1. PICK held \in [Holders -> Int] : held = s.held
    BY DEF Stack
  <2>2. Balances(held, 5, lpRushAmount(e) - left, unseeded(e))
    BY <1>1, <1>2, <2>1
  <2>3. QED
    BY <1>2, <1>6, <2>1, <2>2, AmountsAreWhole
<1>9. PICK fresh \in Stack : /\ fresh = FreshStack(env) /\ fresh.seed = s.seed
                            /\ fresh.kind = "launch" /\ fresh.pool = None
  BY <1>5, <1>7, FreshTyped
<1>10. PICK manager \in Nat, until \in Nat, pool \in Pools :
         manager = s.manager /\ until = now + LOCK_SECONDS /\ pool = s.pool
  BY <1>5, LaunchAssumption DEF Stack
<1>11. Len(BUCKETS) = 5
  BY DEF BUCKETS
<1>12. PICK w \in Stack : w = WholeStack(env, pool, left)
  BY <1>5, <1>10, WholeTyped
<1>13. w = [fresh EXCEPT
             !.built = Contracts, !.wired = TRUE, !.sent = 5, !.manager = manager,
             !.held = held, !.pool = pool, !.position = "lock", !.unlockTime = until,
             !.guardian = "safe", !.governance = "timelock"]
  BY <1>5, <1>8, <1>9, <1>10, <1>11, <1>12 DEF WholeStack
<1>14. /\ w.built = Contracts /\ w.wired = TRUE /\ w.sent = 5 /\ w.manager = manager
       /\ w.held = held /\ w.position = "lock"
       /\ w.guardian = "safe" /\ w.governance = "timelock"
       /\ w.seed = s.seed /\ w.kind = "launch" /\ w.pool = s.pool
  <2>1. w.built = Contracts /\ w.wired = TRUE /\ w.sent = 5 /\ w.manager = manager
    BY <1>13 DEF Stack
  <2>2. w.held = held /\ w.position = "lock"
    BY <1>13 DEF Stack
  <2>3. w.guardian = "safe" /\ w.governance = "timelock"
    BY <1>13 DEF Stack
  <2>4. w.seed = fresh.seed /\ w.kind = fresh.kind /\ w.pool = pool
    BY <1>13 DEF Stack
  <2>5. QED
    BY <1>9, <1>10, <2>1, <2>2, <2>3, <2>4
<1>15. PICK w0 \in Stack : w0 = [w EXCEPT !.unlockTime = 0]
  BY DEF Stack
<1>16. PICK s0 \in Stack : s0 = Essence(s)
  <2>1. PICK a \in Stack : a = [s EXCEPT !.unlockTime = 0, !.position = "lock"]
    BY DEF Stack
  <2>2. QED
    BY <2>1 DEF Essence
<1>17. /\ w0.built = w.built /\ w0.wired = w.wired /\ w0.sent = w.sent
       /\ w0.manager = w.manager /\ w0.held = w.held /\ w0.position = w.position
       /\ w0.guardian = w.guardian /\ w0.governance = w.governance /\ w0.seed = w.seed
       /\ w0.kind = w.kind /\ w0.pool = w.pool /\ w0.unlockTime = 0
  BY <1>15 DEF Stack
<1>18. /\ s0.built = s.built /\ s0.wired = s.wired /\ s0.sent = s.sent
       /\ s0.manager = s.manager /\ s0.held = s.held /\ s0.position = "lock"
       /\ s0.guardian = s.guardian /\ s0.governance = s.governance /\ s0.seed = s.seed
       /\ s0.kind = s.kind /\ s0.pool = s.pool /\ s0.unlockTime = 0
  BY <1>16 DEF Essence, Stack
<1>19. s.wired = TRUE
  BY <1>2 DEF Stack
<1>20. s0 = w0
  <2>1. /\ s0.built = w0.built /\ s0.wired = w0.wired /\ s0.sent = w0.sent
        /\ s0.manager = w0.manager
    <3>1. s0.built = w0.built
      BY <1>3, <1>14, <1>17, <1>18, Zenon
    <3>2. s0.wired = w0.wired
      BY <1>14, <1>17, <1>18, <1>19, Zenon
    <3>3. s0.sent = w0.sent /\ s0.manager = w0.manager
      BY <1>2, <1>10, <1>14, <1>17, <1>18, Zenon
    <3>4. QED
      BY <3>1, <3>2, <3>3
  <2>2. /\ s0.held = w0.held /\ s0.position = w0.position /\ s0.guardian = w0.guardian
        /\ s0.governance = w0.governance
    <3>1. s0.held = w0.held
      BY <1>8, <1>14, <1>17, <1>18, Zenon
    <3>2. s0.position = w0.position
      BY <1>14, <1>17, <1>18, Zenon
    <3>3. s0.guardian = w0.guardian /\ s0.governance = w0.governance
      BY <1>2, <1>14, <1>17, <1>18, Zenon
    <3>4. QED
      BY <3>1, <3>2, <3>3
  <2>3. /\ s0.seed = w0.seed /\ s0.kind = w0.kind /\ s0.pool = w0.pool
        /\ s0.unlockTime = w0.unlockTime
    BY <1>2, <1>14, <1>17, <1>18
  <2>4. QED
    BY <2>1, <2>2, <2>3, SameStack
<1>21. QED
  BY <1>1, <1>4, <1>6, <1>10, <1>12, <1>15, <1>16, <1>20

(* The file is written of a stack that has taken every other step.                *)
LEMMA WriteRecordKeeps ==
  ASSUME DInv, WriteRecord
  PROVE  DInv'
<1>1. At("record") /\ launch.step = 18
  BY StepAt DEF WriteRecord
<1>2. PICK s \in Stack, e \in AnyEnvs :
        /\ s = stacks[launch.stack] /\ e = launch.env /\ Building(s, 18, e)
  BY <1>1, LaunchAt DEF this
<1>3. /\ launch # None /\ launch \in Launches
      /\ launch.stack = Len(stacks) /\ launch.stack \in DOMAIN stacks
  BY <1>1, LaunchAt
<1>4. /\ file'.stack = launch.stack /\ file'.unseeded = unseeded(e)
      /\ file'.unlockTime = s.unlockTime
      /\ launch' = [launch EXCEPT !.step = 19]
      /\ UNCHANGED <<network, now, managers, uniswapRun, uniswapFile, stacks>>
  BY <1>1, <1>2 DEF WriteRecord, this
<1>5. launch' \in Launches /\ launch'.stack = launch.stack /\ launch'.step = 19 /\ launch'.env = e
  <2>1. 19 \in 1..19
    OBVIOUS
  <2>2. QED
    BY <1>2, <1>3, <1>4, <2>1 DEF Launches
<1>6. Building(s, 19, e)
  <2>1. s.sent = 5 /\ Amounts(s, 19, e)
    BY <1>2 DEF Building, Amounts
  <2>2. \A c \in Contracts : BuiltAt[c] < 18
    BY DEF Contracts, BuiltAt
  <2>3. QED
    BY <1>2, <2>1, <2>2 DEF Building
<1>7. Building(s, 19, e)'
  BY <1>4, <1>6 DEF Building, resolveMasterSeed, isLocal
<1>8. LaunchIsUnderWay'
  BY <1>2, <1>3, <1>4, <1>5, <1>7 DEF LaunchIsUnderWay
<1>9. StacksTyped' /\ {managers', uniswapRun', uniswapFile'} \subseteq Nat
      /\ file'.stack \in DOMAIN stacks' /\ file'.unlockTime \in Nat
  BY <1>3, <1>4 DEF DInv, StacksTyped, Stack
<1>10. RecordedStackIsComplete'
  <2>1. (RecordedStackIsComplete <=> \A n \in Recorded : Complete(n))'
    BY DEF RecordedStackIsComplete, Complete, Locked, CompleteAs, EnvOf, Essence
  <2>2. PICK left \in Leavings(s.pool) :
          /\ unseeded(EnvOf(s, e.lpEth)) = unseeded(e)
          /\ Essence(s) = [WholeStack(EnvOf(s, e.lpEth), s.pool, left) EXCEPT !.unlockTime = 0]
    BY <1>2, BuiltIsWhole DEF DInv, StacksTyped
  <2>3. CompleteAs(s, file', e.lpEth, left)
    BY <1>4, <2>2 DEF CompleteAs
  <2>4. CompleteAs(s, file, e.lpEth, left)'
    BY <1>4, <2>3
       DEF CompleteAs, EnvOf, Essence, WholeStack, FreshStack, resolveMasterSeed, isLocal
  <2>5. \A n \in Recorded' : stacks'[n] = s
    BY <1>2, <1>4 DEF Recorded
  <2>6. e.lpEth \in LpEths
    BY DEF AnyEnvs
  <2>7. Locked(s, file)'
    <3>1. s.position = "lock"
      BY <1>2 DEF Building
    <3>2. s.unlockTime \in Nat
      BY DEF Stack
    <3>3. QED
      BY <1>4, <3>1, <3>2 DEF Locked
  <2>8. QED
    BY <1>2, <2>1, <2>2, <2>4, <2>5, <2>6, <2>7 DEF Complete, Leavings
<1>11. QED
  BY <1>8, <1>9, <1>10 DEF DInv

(* A launch begins with a stack of its own.                                     *)
LEMMA StartKeeps ==
  ASSUME DInv, NEW env \in Envs, Start(env)
  PROVE  DInv'
<1>1. /\ Len(stacks) < MaxStacks /\ stacks' = Append(stacks, FreshStack(env))
      /\ launch' = [stack |-> Len(stacks) + 1, step |-> 1, env |-> env]
      /\ UNCHANGED <<network, now, managers, uniswapRun, uniswapFile, file>>
  BY DEF Start
<1>2. env \in AnyEnvs
  <2>1. Managers \subseteq Nat
    BY LaunchAssumption DEF DInv, Managers, CanonicalManager
  <2>2. QED
    BY <2>1 DEF Envs, AnyEnvs
<1>3. env.seed \in SeedTexts
  BY <1>2 DEF AnyEnvs, SeedTexts
<1>4. PICK s \in Stack : s = FreshStack(env)
  BY <1>3, FreshTyped
<1>5. /\ StacksTyped' /\ StacksKept
      /\ Len(stacks) + 1 \in DOMAIN stacks' /\ stacks'[Len(stacks) + 1] = s
  BY <1>1, <1>4, Appended DEF DInv
<1>6. Len(stacks) \in Nat /\ DOMAIN stacks = 1..Len(stacks)
  BY TypedStacks DEF DInv
<1>7. PICK held \in [Holders -> Int] :
        /\ held = s.held
        /\ held["deployer"] = Supply /\ held["treasury"] = 0 /\ held["vesting"] = 0
        /\ held["pool"] = 0 /\ held["safe"] = 0
  <2>1. PICK held \in [Holders -> Int] : held = s.held
    BY DEF Stack
  <2>2. held = [h \in Holders |-> IF h = "deployer" THEN Supply ELSE 0]
    BY <1>4, <2>1 DEF FreshStack
  <2>3. QED
    BY <2>1, <2>2 DEF Holders
<1>8. s.sent = 0
  BY <1>4 DEF FreshStack
<1>9. Balances(held, 0, 0, 0)
  <2>1. Supply \in Int
    BY LaunchAssumption
  <2>2. \A bucket : /\ Share(bucket, 0, 1) = 0 /\ Share(bucket, 0, 3) = 0
                    /\ Share(bucket, 0, 4) = 0 /\ Share(bucket, 0, 5) = 0
    BY DEF Share
  <2>3. QED
    BY <1>7, <2>1, <2>2 DEF Balances
<1>10. Amounts(s, 1, env)
  BY <1>7, <1>8, <1>9 DEF Amounts, Lefts
<1>11. Building(s, 1, env)
  <2>1. s.kind = "launch" /\ s.seed = resolveMasterSeed(env.seed)
    BY <1>3, <1>4, FreshTyped
  <2>2. \A c \in Contracts : ~(BuiltAt[c] < 1)
    BY DEF Contracts, BuiltAt
  <2>3. QED
    BY <1>8, <1>10, <2>1, <2>2 DEF Building
<1>12. Building(s, 1, env)'
  BY <1>1, <1>11 DEF Building, resolveMasterSeed, isLocal
<1>13. LaunchIsUnderWay'
  <2>1. launch' \in Launches
    <3>1. Len(stacks) + 1 \in Nat /\ 1 \in 1..19
      BY <1>6
    <3>2. QED
      BY <1>1, <1>2, <3>1 DEF Launches
  <2>2. launch'.stack = Len(stacks) + 1 /\ launch'.step = 1 /\ launch'.env = env
    BY <1>1
  <2>3. Len(stacks') = Len(stacks) + 1
    BY <1>1, <1>4, AppendProperties DEF DInv, StacksTyped
  <2>4. file' # None => file'.stack # launch'.stack
    BY <1>1, <1>6, <2>2 DEF DInv
  <2>5. QED
    BY <1>5, <1>12, <2>1, <2>2, <2>3, <2>4 DEF LaunchIsUnderWay
<1>14. RecordedStackIsComplete'
  BY <1>1, <1>5, CompleteKept DEF DInv
<1>15. file' # None => file'.stack \in DOMAIN stacks' /\ file'.unlockTime \in Nat
  BY <1>1, <1>5 DEF DInv, StacksKept
<1>16. {managers', uniswapRun', uniswapFile'} \subseteq Nat
  BY <1>1 DEF DInv
<1>17. QED
  BY <1>5, <1>13, <1>14, <1>15, <1>16 DEF DInv

(* A launch ends; its stack is dropped unless the file names it.                  *)
LEMMA ExitKeeps ==
  ASSUME DInv, Exit
  PROVE  DInv'
<1>1. /\ launch # None /\ launch' = None
      /\ UNCHANGED <<network, now, managers, uniswapRun, uniswapFile, file>>
      /\ stacks' = IF file # None /\ file.stack = launch.stack THEN stacks
                   ELSE SubSeq(stacks, 1, launch.stack - 1)
  BY DEF Exit
<1>2. launch.stack = Len(stacks) /\ launch.stack \in DOMAIN stacks
  BY <1>1 DEF DInv, LaunchIsUnderWay
<1>3. Len(stacks) \in Nat /\ DOMAIN stacks = 1..Len(stacks) /\ stacks \in [1..Len(stacks) -> Stack]
  BY TypedStacks DEF DInv
<1>4. /\ StacksTyped'
      /\ file # None => file.stack \in DOMAIN stacks' /\ stacks'[file.stack] = stacks[file.stack]
  <2>1. CASE file # None /\ file.stack = launch.stack
    BY <1>1, <2>1 DEF DInv, StacksTyped
  <2>2. CASE ~(file # None /\ file.stack = launch.stack)
    <3>1. PICK n \in Nat : n = launch.stack - 1 /\ n < Len(stacks)
      <4>1. launch.stack \in Nat /\ 1 <= launch.stack
        BY <1>2, <1>3
      <4>2. launch.stack - 1 \in Nat /\ launch.stack - 1 < Len(stacks)
        BY <1>2, <4>1
      <4>3. QED
        BY <4>2
    <3>2. \A i \in 1..n : stacks[i] \in Stack
      BY <1>3, <3>1
    <3>3. /\ stacks' \in Seq(Stack) /\ Len(stacks') = n
          /\ \A i \in 1..n : stacks'[i] = stacks[i]
      <4>1. stacks' = SubSeq(stacks, 1, n)
        BY <1>1, <2>2, <3>1
      <4>2. 1 \in Int /\ n \in Int /\ n - 1 + 1 = n /\ (1 <= n \/ n = 0)
        OBVIOUS
      <4>3. /\ SubSeq(stacks, 1, n) \in Seq(Stack)
            /\ Len(SubSeq(stacks, 1, n)) = IF 1 <= n THEN n - 1 + 1 ELSE 0
            /\ \A i \in 1..(n - 1 + 1) : SubSeq(stacks, 1, n)[i] = stacks[1 + i - 1]
        BY <3>2, <4>2, SubSeqProperties
      <4>4. \A i \in 1..n : 1 + i - 1 = i
        OBVIOUS
      <4>5. QED
        BY <4>1, <4>2, <4>3, <4>4
    <3>4. DOMAIN stacks' = 1..n
      BY <3>3, LenProperties
    <3>5. StacksTyped'
      BY <1>1, <3>1, <3>3, LaunchAssumption DEF DInv, StacksTyped
    <3>6. file # None => file.stack \in 1..n
      <4>1. file # None => file.stack \in 1..Len(stacks) /\ file.stack # Len(stacks)
        BY <1>2, <1>3, <2>2 DEF DInv
      <4>2. QED
        BY <1>2, <1>3, <3>1, <4>1
    <3>7. QED
      BY <3>3, <3>4, <3>5, <3>6
  <2>3. QED
    BY <2>1, <2>2
<1>5. RecordedStackIsComplete'
  BY <1>1, <1>4, RecordKept DEF DInv
<1>6. LaunchIsUnderWay'
  BY <1>1 DEF LaunchIsUnderWay
<1>7. QED
  BY <1>1, <1>4, <1>5, <1>6 DEF DInv

(* A launch that a step leaves alone is as far as it was.                       *)
LEMMA LaunchUntouched ==
  ASSUME LaunchIsUnderWay, UNCHANGED <<network, stacks, launch, file>>
  PROVE  LaunchIsUnderWay'
<1> SUFFICES ASSUME launch # None
             PROVE  /\ launch \in Launches
                    /\ launch.stack = Len(stacks) /\ launch.stack \in DOMAIN stacks
                    /\ Building(stacks[launch.stack], launch.step, launch.env)'
                    /\ file # None /\ file.stack = launch.stack => launch.step = 19
  BY DEF LaunchIsUnderWay
<1>1. PICK s, k, e : s = stacks[launch.stack] /\ k = launch.step /\ e = launch.env
  OBVIOUS
<1>2. /\ launch \in Launches
      /\ launch.stack = Len(stacks) /\ launch.stack \in DOMAIN stacks
      /\ Building(s, k, e)
      /\ file # None /\ file.stack = launch.stack => launch.step = 19
  BY <1>1 DEF LaunchIsUnderWay
<1>3. Building(s, k, e)'
  BY <1>2 DEF Building, resolveMasterSeed, isLocal
<1>4. QED
  BY <1>1, <1>2, <1>3

(* The other two scripts, between launches.                                    *)
LEMMA OtherScriptsKeep ==
  ASSUME DInv,
         \/ DeployUniswap \/ RecordUniswap \/ AbortUniswap
         \/ \E handOver \in BOOLEAN : DeploySkeleton(handOver)
  PROVE  DInv'
<1>1. ASSUME DeployUniswap \/ RecordUniswap \/ AbortUniswap PROVE DInv'
  <2>1. UNCHANGED <<network, now, stacks, launch, file>>
    BY <1>1 DEF DeployUniswap, RecordUniswap, AbortUniswap
  <2>2. managers' \in Nat /\ uniswapRun' \in Nat /\ uniswapFile' \in Nat
    BY <1>1 DEF DInv, DeployUniswap, RecordUniswap, AbortUniswap
  <2>3. RecordedStackIsComplete'
    BY <2>1, RecordKept DEF DInv
  <2>4. LaunchIsUnderWay'
    BY <2>1, LaunchUntouched DEF DInv
  <2>5. QED
    BY <2>1, <2>2, <2>3, <2>4 DEF DInv, StacksTyped
<1>2. ASSUME NEW handOver \in BOOLEAN, DeploySkeleton(handOver) PROVE DInv'
  <2>1. /\ StacksTyped' /\ StacksKept /\ Len(stacks) + 1 \in DOMAIN stacks'
        /\ file'.stack = Len(stacks) + 1 /\ file'.unlockTime = 0
        /\ stacks'[Len(stacks) + 1].kind = "skeleton"
    BY <1>2, SkeletonStep DEF DInv, DeploySkeleton
  <2>2. launch' = None /\ UNCHANGED <<managers, uniswapRun, uniswapFile>>
    BY <1>2 DEF DeploySkeleton
  <2>3. RecordedStackIsComplete'
    <3>1. (RecordedStackIsComplete <=> \A n \in Recorded : Complete(n))'
      BY DEF RecordedStackIsComplete, Complete, Locked, CompleteAs, EnvOf, Essence
    <3>2. QED
      BY <2>1, <3>1 DEF Recorded, Complete
  <2>4. LaunchIsUnderWay'
    BY <2>2 DEF LaunchIsUnderWay
  <2>5. QED
    BY <2>1, <2>2, <2>3, <2>4 DEF DInv
<1>3. QED
  BY <1>1, <1>2

(* Every transaction of every script.                                         *)
LEMMA NextKeepsDInv ==
  ASSUME DInv, [DeployNext]_deployVars
  PROVE  DInv'
<1>1. ASSUME NEW env \in Envs, Start(env) PROVE DInv'
  BY <1>1, StartKeeps
<1>2. ASSUME NEW contract \in Contracts, Build(contract) PROVE DInv'
  BY <1>2, BuildKeeps
<1>3. ASSUME NEW left \in {0, Dust} \cup Leftovers, MintPosition(left) PROVE DInv'
  BY <1>3, MintPositionKeeps DEF Lefts
<1>4. ASSUME UNCHANGED deployVars PROVE DInv'
  <2>1. UNCHANGED <<network, now, managers, uniswapRun, uniswapFile, stacks, launch, file>>
    BY <1>4 DEF deployVars
  <2>2. RecordedStackIsComplete'
    BY <2>1, RecordKept DEF DInv
  <2>3. LaunchIsUnderWay'
    BY <2>1, LaunchUntouched DEF DInv
  <2>4. QED
    BY <2>1, <2>2, <2>3 DEF DInv, StacksTyped
<1>5. QED
  BY <1>1, <1>2, <1>3, <1>4, OtherScriptsKeep, QuietStepsKeep, SendBucketKeeps,
     OthersSetPriceKeeps, SendUnseededKeeps, WriteRecordKeeps, ExitKeeps DEF DeployNext

LEMMA DeployInductive == DeploySpec => []DInv
<1>1. DeployInit => DInv
  <2> SUFFICES ASSUME DeployInit PROVE DInv
    OBVIOUS
  <2>1. StacksTyped
    BY EmptySeq, LaunchAssumption DEF DeployInit, StacksTyped
  <2>2. {managers, uniswapRun, uniswapFile} \subseteq Nat
    BY DEF DeployInit
  <2>3. file = None /\ launch = None
    BY DEF DeployInit
  <2>4. RecordedStackIsComplete
    BY <2>3 DEF RecordedStackIsComplete, Recorded
  <2>5. QED
    BY <2>1, <2>2, <2>3, <2>4 DEF DInv, LaunchIsUnderWay
<1>2. DInv /\ [DeployNext]_deployVars => DInv'
  BY NextKeepsDInv
<1>3. QED
  BY <1>1, <1>2, PTL DEF DeploySpec

(* A launch stack that the deployment file names is whole, wherever the attempts    *)
(* before it stopped and whatever environment each was given: the file is         *)
(* written after the last transaction, and each transaction does its part once     *)
(* (deploy-launch.ts).                                                        *)
THEOREM RecordedStacksAreComplete == DeploySpec => []RecordedStackIsComplete
<1>1. DInv => RecordedStackIsComplete
  BY DEF DInv
<1>2. QED
  BY <1>1, DeployInductive, PTL

------------------------------------------------------------------------------
(* The opening price                                                         *)

(* Every set of natural numbers that is not empty has a least element (of the     *)
(* intervals 1..k up to its members, one includes no other): the form of         *)
(* induction used here, as in RushoodGameProofs.                                *)
LEMMA LeastNatural ==
  ASSUME NEW S \in SUBSET Nat, S # {}
  PROVE  \E m \in S : \A k \in S : m <= k
<1> DEFINE T == {1..k : k \in S}
           R == StrictSubsetOrdering(Nat)
<1>1. T \subseteq FiniteSubsetsOf(Nat) /\ T # {}
  <2>1. \A k \in S : 1..k \in SUBSET Nat /\ IsFiniteSet(1..k)
    BY FS_Interval
  <2>2. QED
    BY <2>1 DEF FiniteSubsetsOf
<1>2. IsWellFoundedOn(R, FiniteSubsetsOf(Nat))
  BY FS_StrictSubsetOrderingWellFounded
<1>3. PICK t \in T : \A u \in T : ~(<<u, t>> \in R)
  <2> HIDE DEF T, R
  <2>1. QED
    BY <1>1, <1>2, WFMin
<1>4. PICK m \in S : t = 1..m
  BY <1>3
<1>5. ASSUME NEW k \in S, k < m PROVE FALSE
  <2>1. m \in 1..m /\ m \notin 1..k /\ 1..k \subseteq 1..m
    BY <1>5
  <2>2. 1..k \in T /\ <<1..k, 1..m>> \in R
    BY <2>1 DEF StrictSubsetOrdering
  <2>3. QED
    BY <1>3, <1>4, <2>2
<1>6. QED
  BY <1>5

LEMMA RootExists ==
  ASSUME NEW value \in Nat
  PROVE  \E s \in Nat : IsRoot(s, value, 1)
<1> DEFINE Above(k) == value < (k + 1) * (k + 1)
<1>1. Above(value)
  OBVIOUS
<1>2. PICK s \in Nat : Above(s) /\ \A k \in Nat : Above(k) => s <= k
  <2> HIDE DEF Above
  <2> DEFINE S == {k \in Nat : Above(k)}
  <2>1. S \in SUBSET Nat /\ S # {}
    BY <1>1
  <2> HIDE DEF S
  <2>2. PICK m \in S : \A k \in S : m <= k
    BY <2>1, LeastNatural
  <2>3. QED
    BY <2>2 DEF S
<1>3. s # 0 => ~Above(s - 1)
  <2> HIDE DEF Above
  <2>1. QED
    BY <1>2
<1>4. s * s <= value
  BY <1>3
<1>5. QED
  BY <1>2, <1>4 DEF IsRoot

LEMMA MulByNat ==
  ASSUME NEW a \in Nat, NEW b \in Nat, NEW x \in Nat, a <= b
  PROVE  a * x <= b * x
<1>1. PICK d \in Nat : b = a + d
  BY b - a \in Nat
<1>2. b * x = a * x + d * x /\ a * x \in Nat /\ d * x \in Nat
  BY <1>1
<1>3. QED
  BY <1>2

LEMMA SquareMono ==
  ASSUME NEW a \in Nat, NEW b \in Nat, a <= b
  PROVE  a * a <= b * b
<1>1. PICK d \in Nat : b = a + d
  BY b - a \in Nat
<1>2. b * b = a * a + 2 * (a * d) + d * d
  BY <1>1
<1>3. a * d \in Nat /\ d * d \in Nat /\ a * a \in Nat
  OBVIOUS
<1>4. QED
  BY <1>2, <1>3

LEMMA FactorCancels ==
  ASSUME NEW k \in Nat \ {0}, NEW a \in Nat, NEW b \in Nat
  PROVE  (k * a <= k * b => a <= b) /\ (k * a < k * b => a < b)
<1>1. b + 1 <= a => k * a >= k * b + k
  <2>1. SUFFICES ASSUME b + 1 <= a PROVE k * a >= k * b + k
    OBVIOUS
  <2>2. (b + 1) * k <= a * k
    BY <2>1, MulByNat
  <2>3. (b + 1) * k = k * b + k /\ a * k = k * a
    OBVIOUS
  <2>4. QED
    BY <2>2, <2>3
<1>2. b <= a => k * b <= k * a
  BY MulByNat
<1>3. k * a \in Nat /\ k * b \in Nat
  OBVIOUS
<1>4. QED
  BY <1>1, <1>2, <1>3

LEMMA DivBounds ==
  ASSUME NEW a \in Nat, NEW b \in Nat \ {0}
  PROVE  a \div b \in Nat /\ (a \div b) * b <= a /\ a < (a \div b + 1) * b
OBVIOUS

(* The product of two numbers is at most the square of their mean.              *)
LEMMA MeanBounds ==
  ASSUME NEW a \in Nat, NEW b \in Nat, NEW s \in Nat, a + b <= 2 * s
  PROVE  a * b <= s * s
<1>1. (a + b) * (a + b) <= (2 * s) * (2 * s)
  BY SquareMono
<1>2. (a + b) * (a + b) = 4 * (a * b) + (a - b) * (a - b)
  OBVIOUS
<1>3. (a - b) * (a - b) >= 0 /\ (2 * s) * (2 * s) = 4 * (s * s)
  OBVIOUS
<1>4. a * b \in Nat /\ s * s \in Nat /\ (a - b) * (a - b) \in Int
  OBVIOUS
<1>5. QED
  BY <1>1, <1>2, <1>3, <1>4

(* One iteration stays at the root or below it, and from above it goes down, but  *)
(* not past it.                                                               *)
LEMMA NewtonStep ==
  ASSUME NEW value \in Nat, value >= 2, NEW s \in Nat, IsRoot(s, value, 1),
         NEW x \in 1..value
  PROVE  /\ x <= s => ~((x + value \div x) \div 2 < x)
         /\ x > s => /\ (x + value \div x) \div 2 < x
                     /\ (x + value \div x) \div 2 >= s
                     /\ (x + value \div x) \div 2 \in 1..value
<1>1. PICK q \in Nat : q = value \div x /\ q * x <= value /\ value < (q + 1) * x
  <2>1. /\ value \div x \in Nat /\ (value \div x) * x <= value
        /\ value < ((value \div x) + 1) * x
    OBVIOUS
  <2>2. QED
    BY <2>1
<1>2. PICK y \in Nat : y = (x + q) \div 2 /\ 2 * y <= x + q /\ x + q <= 2 * y + 1
  <2>1. (x + q) \div 2 \in Nat /\ 2 * ((x + q) \div 2) <= x + q /\ x + q <= 2 * ((x + q) \div 2) + 1
    OBVIOUS
  <2>2. QED
    BY <2>1
<1>3. s * s <= value /\ value < (s + 1) * (s + 1)
  BY DEF IsRoot
<1>4. ASSUME x <= s PROVE ~(y < x)
  <2>1. x * x <= value
    <3>1. x * x <= s * s /\ x * x \in Nat /\ s * s \in Nat
      BY <1>4, SquareMono
    <3>2. QED
      BY <1>3, <3>1
  <2>2. ~(q + 1 <= x)
    <3>1. q + 1 <= x => (q + 1) * x <= x * x
      BY MulByNat
    <3>2. (q + 1) * x \in Nat /\ x * x \in Nat
      OBVIOUS
    <3>3. QED
      BY <1>1, <2>1, <3>1, <3>2
  <2>3. QED
    BY <1>2, <2>2
<1>5. ASSUME x > s PROVE y < x /\ y >= s /\ y \in 1..value
  <2>1. (s + 1) * (s + 1) <= x * x /\ value < x * x
    <3>1. (s + 1) * (s + 1) <= x * x
      BY <1>5, SquareMono
    <3>2. (s + 1) * (s + 1) \in Nat /\ x * x \in Nat
      OBVIOUS
    <3>3. QED
      BY <1>3, <3>1, <3>2
  <2>2. q < x
    <3>1. x <= q => x * x <= q * x
      BY MulByNat
    <3>2. q * x \in Nat /\ x * x \in Nat
      OBVIOUS
    <3>3. QED
      BY <1>1, <2>1, <3>1, <3>2
  <2>3. y < x
    BY <1>2, <2>2
  <2>4. y + 1 > s
    <3>1. SUFFICES ASSUME y + 1 <= s PROVE FALSE
      OBVIOUS
    <3>2. x + (q + 1) <= 2 * s
      BY <1>2, <3>1
    <3>3. (q + 1) * x <= s * s
      BY <3>2, MeanBounds, (q + 1) + x <= 2 * s
    <3>4. (q + 1) * x \in Nat /\ s * s \in Nat
      OBVIOUS
    <3>5. QED
      BY <1>1, <1>3, <3>3, <3>4
  <2>5. s >= 1
    BY <1>3
  <2>6. QED
    BY <2>3, <2>4, <2>5
<1>6. QED
  BY <1>1, <1>2, <1>4, <1>5

(* The function the iteration defines is known: from above the root, the root;    *)
(* from anywhere else, where it is.                                            *)
LEMMA SqrtIsRoot ==
  ASSUME NEW value \in Nat
  PROVE  sqrtBigInt(value) \in Nat /\ IsRoot(sqrtBigInt(value), value, 1)
<1>1. CASE value < 2
  BY <1>1 DEF sqrtBigInt, IsRoot
<1>2. CASE value >= 2
  <2>1. PICK s \in Nat : IsRoot(s, value, 1)
    BY RootExists
  <2>2. s \in 1..value
    BY <1>2, <2>1, SMTT(30) DEF IsRoot
  <2> DEFINE Iterated(x) == (x + value \div x) \div 2
             IsStep(f) == f = [x \in 1..value |->
                                LET y == (x + value \div x) \div 2
                                IN IF y < x THEN f[y] ELSE x]
             known == [x \in 1..value |-> IF x <= s THEN x ELSE s]
             step == CHOOSE f : IsStep(f)
  <2>3. IsStep(known)
    <3>1. ASSUME NEW x \in 1..value
          PROVE  known[x] = IF Iterated(x) < x THEN known[Iterated(x)] ELSE x
      <4>1. CASE x <= s
        BY <1>2, <2>1, <4>1, NewtonStep
      <4>2. CASE x > s
        <5>1. Iterated(x) < x /\ Iterated(x) >= s /\ Iterated(x) \in 1..value
          BY <1>2, <2>1, <4>2, NewtonStep
        <5> HIDE DEF Iterated
        <5>2. QED
          BY <2>2, <4>2, <5>1
      <4>3. QED
        BY <4>1, <4>2
    <3>2. QED
      BY <3>1
  <2>4. IsStep(step)
    BY <2>3
  <2>5. sqrtBigInt(value) = step[value]
    BY <1>2 DEF sqrtBigInt
  <2>6. \A x \in 1..value : step[x] = IF Iterated(x) < x THEN step[Iterated(x)] ELSE x
    BY <2>4
  <2> HIDE DEF step
  <2>7. \A x \in 1..value : step[x] = known[x]
    <3> DEFINE Bad == {x \in 1..value : step[x] # known[x]}
    <3>1. ASSUME NEW m \in Bad, \A k \in Bad : m <= k
          PROVE  FALSE
      <4>1. CASE Iterated(m) < m
        <5>1. m > s /\ Iterated(m) \in 1..value /\ Iterated(m) >= s
          BY <1>2, <2>1, <4>1, NewtonStep
        <5> HIDE DEF Iterated
        <5>2. Iterated(m) \notin Bad
          BY <3>1, <4>1, <5>1
        <5> USE DEF known
        <5>3. step[m] = known[Iterated(m)] /\ known[Iterated(m)] = s /\ known[m] = s
          BY <2>2, <2>6, <4>1, <5>1, <5>2
        <5>4. QED
          BY <5>3
      <4>2. CASE ~(Iterated(m) < m)
        <5>1. ~(m > s)
          BY <1>2, <2>1, <4>2, NewtonStep
        <5> HIDE DEF Iterated
        <5>2. QED
          BY <2>2, <2>6, <4>2, <5>1
      <4>3. QED
        BY <4>1, <4>2
    <3>2. Bad \in SUBSET Nat
      OBVIOUS
    <3> HIDE DEF Bad
    <3>3. Bad = {}
      BY <3>1, <3>2, LeastNatural
    <3>4. QED
      BY <3>3 DEF Bad
  <2>8. step[value] = s
    <3>1. value \in 1..value /\ (value <= s => value = s)
      BY <1>2, <2>2
    <3>2. QED
      BY <2>7, <3>1
  <2>9. QED
    BY <2>1, <2>5, <2>8
<1>3. QED
  BY <1>1, <1>2

LEMMA RatioOfMultiples ==
  ASSUME NEW k \in Nat \ {0}, NEW a \in Nat, NEW b \in Nat \ {0}
  PROVE  /\ (k * a) \div (k * b) \in Nat
         /\ ((k * a) \div (k * b)) * b <= a
         /\ a < ((k * a) \div (k * b) + 1) * b
<1>1. k * a \in Nat /\ k * b \in Nat \ {0}
  OBVIOUS
<1>2. PICK r \in Nat : /\ r = (k * a) \div (k * b)
                      /\ r * (k * b) <= k * a /\ k * a < (r + 1) * (k * b)
  BY <1>1, DivBounds
<1>3. r * (k * b) = k * (r * b) /\ (r + 1) * (k * b) = k * ((r + 1) * b)
  OBVIOUS
<1>4. r * b \in Nat /\ (r + 1) * b \in Nat
  OBVIOUS
<1>5. r * b <= a /\ a < (r + 1) * b
  BY <1>2, <1>3, <1>4, FactorCancels
<1>6. QED
  BY <1>2, <1>5

(* The price that OpenPool asks for.                                           *)
LEMMA OpeningPrice ==
  ASSUME NEW rushIs0 \in BOOLEAN, NEW eth \in LpEths
  PROVE  LET p == buildSeedParams(rushIs0, eth * RUSH_PER_ETH, eth)
         IN  IF p.rushIs0 THEN IsRoot(p.sqrtPriceX96, Q * Q, RUSH_PER_ETH)
             ELSE IsRoot(p.sqrtPriceX96, Q * Q * RUSH_PER_ETH, 1)
<1>1. eth \in Nat \ {0} /\ RUSH_PER_ETH \in Nat \ {0} /\ Q \in Nat \ {0}
  BY LaunchAssumption
<1>2. PICK square \in Nat : square = Q * Q
  BY <1>1
<1>3. CASE rushIs0
  <2>1. PICK ratio \in Nat : /\ ratio = (eth * square) \div (eth * RUSH_PER_ETH)
                            /\ ratio * RUSH_PER_ETH <= square
                            /\ square < (ratio + 1) * RUSH_PER_ETH
    BY <1>1, RatioOfMultiples
  <2>2. buildSeedParams(rushIs0, eth * RUSH_PER_ETH, eth)
          = [rushIs0 |-> TRUE, sqrtPriceX96 |-> sqrtBigInt(ratio)]
    <3>1. eth * Q * Q = eth * square
      BY <1>1, <1>2
    <3>2. QED
      BY <1>3, <2>1, <3>1 DEF buildSeedParams, encodeSqrtPriceX96
  <2>3. PICK root \in Nat : /\ root = sqrtBigInt(ratio) /\ root * root <= ratio
                           /\ ratio < (root + 1) * (root + 1)
    BY SqrtIsRoot DEF IsRoot
  <2>4. root * root * RUSH_PER_ETH <= square
    <3>1. PICK least \in Nat : least = root * root
      OBVIOUS
    <3>2. least * RUSH_PER_ETH <= ratio * RUSH_PER_ETH
      BY <1>1, <2>3, <3>1, MulByNat
    <3>3. least * RUSH_PER_ETH \in Nat /\ ratio * RUSH_PER_ETH \in Nat
      BY <1>1
    <3>4. QED
      BY <2>1, <3>1, <3>2, <3>3
  <2>5. square < (root + 1) * (root + 1) * RUSH_PER_ETH
    <3>1. PICK next \in Nat : next = (root + 1) * (root + 1)
      OBVIOUS
    <3>2. (ratio + 1) * RUSH_PER_ETH <= next * RUSH_PER_ETH
      BY <1>1, <2>3, <3>1, MulByNat
    <3>3. (ratio + 1) * RUSH_PER_ETH \in Nat /\ next * RUSH_PER_ETH \in Nat
      BY <1>1
    <3>4. QED
      BY <2>1, <3>1, <3>2, <3>3
  <2>6. IsRoot(root, Q * Q, RUSH_PER_ETH)
    BY <1>2, <2>4, <2>5 DEF IsRoot
  <2>7. QED
    BY <2>2, <2>3, <2>6
<1>4. CASE ~rushIs0
  <2>1. PICK ratio \in Nat : ratio = Q * Q * RUSH_PER_ETH
    BY <1>1
  <2>2. (eth * RUSH_PER_ETH * Q * Q) \div eth = ratio
    <3>1. eth * RUSH_PER_ETH * Q * Q = eth * ratio
      BY <1>1, <2>1
    <3>2. (eth * ratio) \div eth = ratio
      BY <1>1
    <3>3. QED
      BY <3>1, <3>2
  <2>3. buildSeedParams(rushIs0, eth * RUSH_PER_ETH, eth)
          = [rushIs0 |-> FALSE, sqrtPriceX96 |-> sqrtBigInt(ratio)]
    BY <1>4, <2>2 DEF buildSeedParams, encodeSqrtPriceX96
  <2>4. IsRoot(sqrtBigInt(ratio), Q * Q * RUSH_PER_ETH, 1)
    BY <2>1, SqrtIsRoot
  <2>5. QED
    BY <2>3, <2>4
<1>5. QED
  BY <1>3, <1>4

(* Whatever the steps of however many launches, and whatever others do to their    *)
(* pools, a price that the script set is the pinned one, for every rate, every     *)
(* precision and every amount seeded, whichever token's address is lower           *)
(* (uniswap-price.ts buildSeedParams, seed-pool.ts:135).                        *)
THEOREM ScriptPricesArePinned == DeploySpec => []ScriptPriceIsPinned
<1>1. DInv => ScriptPriceIsPinned
  <2> SUFFICES ASSUME DInv, NEW n \in DOMAIN stacks, stacks[n].pool \notin {None, OtherPrice}
               PROVE  LET p == stacks[n].pool
                      IN  IF p.rushIs0 THEN IsRoot(p.sqrtPriceX96, Q * Q, RUSH_PER_ETH)
                          ELSE IsRoot(p.sqrtPriceX96, Q * Q * RUSH_PER_ETH, 1)
    BY DEF ScriptPriceIsPinned
  <2>1. stacks[n] \in Stack
    BY TypedStacks DEF DInv
  <2>2. stacks[n].pool \in Pools
    BY <2>1 DEF Stack
  <2>3. PICK rushIs0 \in BOOLEAN, eth \in LpEths :
          stacks[n].pool = buildSeedParams(rushIs0, eth * RUSH_PER_ETH, eth)
    BY <2>2 DEF Pools
  <2>4. QED
    BY <2>3, OpeningPrice
<1>2. QED
  BY <1>1, DeployInductive, PTL
==============================================================================
