---------------------------- MODULE LaunchRecords ----------------------------
(***************************************************************************)
(* What happens around a launch: the launch checklist is run against the      *)
(* recorded stack (contracts/scripts/launch-checklist.ts, lib/checklist-record,*)
(* lib/revert-matching), its sources are verified on the explorer and the     *)
(* page with its addresses is published (verify-and-publish.ts,               *)
(* lib/blockscout-verify.ts), relayer services are started for it             *)
(* (RelayerConfig), and the position stays in RushoodLPLock, while stacks are *)
(* redeployed, players bet, the guardian pauses, and every script can stop.   *)
(*                                                                         *)
(* The scripts meet only through the files in deployments/, the network book  *)
(* and the chain.  Of the game this keeps its slot and its pause.            *)
(***************************************************************************)
EXTENDS LaunchDeployment, RelayerConfig

CONSTANTS
  TIER_COUNT,
  Targets,        \* the contracts whose source is published, in order
  DEFAULT_ATTEMPTS,
  ServiceEnvs,    \* environments of relayer services
  MaxTime,        \* bound on the clock
  MaxEvents       \* bound on scripts begun and on what anybody does besides

ASSUME RecordsAssumption ==
  /\ {TIER_COUNT, DEFAULT_ATTEMPTS} \subseteq Nat \ {0}
  /\ {MaxTime, MaxEvents} \subseteq Nat
  /\ Targets \in Seq(STRING)
  /\ Blank \notin Nat
  /\ \A env \in ServiceEnvs :
       /\ env.seed \in {Blank} \cup [text : STRING, padded : BOOLEAN]
       /\ env.credential \in {Blank, Malformed} \cup [text : STRING, padded : BOOLEAN]

VARIABLES
  games,      \* what play does to each stack
  run,        \* the checklist being run
  record,     \* deployments/checklist-<network>.json
  earned,     \* stacks a checklist has passed in full (history)
  pub,        \* verify-and-publish.ts being run
  queue,      \* submissions the explorer has not decided
  confirmed,  \* sources the explorer has confirmed
  page,       \* docs/deployments/<network>.md
  service,    \* a running relayer service: the network it was given, where it connected
  events

checkVars   == <<run, record, earned>>
publishVars == <<pub, queue, confirmed, page>>
recordsVars == <<games, checkVars, publishVars, service, events>>
vars == <<deployVars, games, checkVars, publishVars, service, events>>

Idle == [active |-> "none", late |-> FALSE, paused |-> FALSE]

Counted == events < MaxEvents /\ events' = events + 1

(* A stack that was replaced is still on the chain.                            *)
Live == DOMAIN stacks

------------------------------------------------------------------------------
(* launch-checklist.ts                                                        *)

CheckSteps == <<"audit", "clear", "place", "settle", "settled", "limits", "pause", "unpause",
                "placeLast", "refund", "refunded", "write">>

Checking(step) == run # None /\ run.step = step

game == games[run.stack]

StepAfter(step) == CheckSteps[1 + CHOOSE i \in 1..(Len(CheckSteps) - 1) : CheckSteps[i] = step]

(* One step of the checklist: a check that does not hold is recorded.          *)
Checked(holds, to, after) ==
  /\ run' = [run EXCEPT !.failed = @ \/ ~holds, !.step = to]
  /\ games' = [games EXCEPT ![run.stack] = after]
  /\ UNCHANGED <<deployVars, record, earned, publishVars, service, events>>

SettleBet(g) == [g EXCEPT !.active = "none", !.late = FALSE]

(* The seed in the environment must be the stack's: another one stops the run at  *)
(* its first settlement (ChecklistStops).                                      *)
StartChecklist(hasSafe) ==
  /\ run = None /\ file # None
  /\ stacks[file.stack].built = Contracts
  /\ run' = [stack |-> file.stack, step |-> "audit", tier |-> 0, failed |-> FALSE,
             hasSafe |-> hasSafe]
  /\ Counted
  /\ UNCHANGED <<deployVars, games, record, earned, publishVars, service>>

(* Supply, treasury, vesting and lock; then the player's stakes come from the    *)
(* Safe, from an earlier run, or the run stops.  The treasury may be short of    *)
(* its allocation, when players have won.                                     *)
Audit(short) ==
  /\ Checking("audit")
  /\ Checked(~short /\ now < stacks[run.stack].unlockTime, "clear", game)

settleAnyBetLeftInFlight ==
  /\ Checking("clear")
  /\ Checked(TRUE, "place", SettleBet(game))

PlaceBet ==
  /\ Checking("place") \/ Checking("placeLast")
  /\ game.active = "none" /\ ~game.paused
  /\ Checked(TRUE, StepAfter(run.step), [game EXCEPT !.active = "checklist", !.late = FALSE])

(* The reveal is read off the head of this moment, so it settles whatever is    *)
(* active; with nothing active the call reverts.                              *)
SettleTier ==
  /\ Checking("settle")
  /\ game.active # "none"
  /\ Checked(TRUE, "settled", SettleBet(game))

CheckTier ==
  /\ Checking("settled")
  /\ IF run.tier + 1 < TIER_COUNT
     THEN /\ run' = [run EXCEPT !.failed = @ \/ game.active # "none", !.step = "place",
                                !.tier = @ + 1]
          /\ UNCHANGED <<deployVars, games, record, earned, publishVars, service, events>>
     ELSE Checked(game.active = "none", "limits", game)

(* Verifier, minimum and cap: refused for their own reason, which a pause or an *)
(* active bet comes before.                                                  *)
CheckLimits ==
  /\ Checking("limits")
  /\ Checked(game.active = "none" /\ ~game.paused, "pause", game)

(* With the Safe's key the game is paused, which reverts when it is already;    *)
(* without it the check fails and the game is left alone.                     *)
CheckPause ==
  /\ Checking("pause")
  /\ IF run.hasSafe
     THEN ~game.paused /\ Checked(TRUE, "unpause", [game EXCEPT !.paused = TRUE])
     ELSE Checked(FALSE, "placeLast", game)

CheckUnpause ==
  /\ Checking("unpause")
  /\ game.paused
  /\ Checked(TRUE, "placeLast", [game EXCEPT !.paused = FALSE])

CheckRefund ==
  /\ Checking("refund")
  /\ game.active = "checklist" /\ game.late
  /\ Checked(TRUE, "refunded", [game EXCEPT !.active = "none", !.late = FALSE])

CheckRefunded == Checking("refunded") /\ Checked(game.active = "none", "write", game)

(* buildChecklistRecord: stamped with the stack that was read at the start.     *)
WriteChecklist ==
  /\ Checking("write")
  /\ record' = [stack |-> run.stack, passed |-> ~run.failed]
  /\ earned' = IF run.failed THEN earned ELSE earned \cup {run.stack}
  /\ run' = None
  /\ UNCHANGED <<deployVars, games, publishVars, service, events>>

(* A revert, a lost connection, Ctrl-C: nothing is written.                    *)
ChecklistStops ==
  /\ run # None
  /\ run' = None
  /\ UNCHANGED <<deployVars, games, record, earned, publishVars, service, events>>

------------------------------------------------------------------------------
(* verify-and-publish.ts                                                      *)

StartPublish ==
  /\ pub = None /\ ~isLocal /\ file # None
  /\ pub' = [deployed |-> file, next |-> 1, attempt |-> 1, polling |-> FALSE, verified |-> {}]
  /\ Counted
  /\ UNCHANGED <<deployVars, games, checkVars, queue, confirmed, page, service>>

Verifying == pub # None /\ pub.next <= Len(Targets)
target == <<pub.deployed.stack, Targets[pub.next]>>

Done(ok) == [pub EXCEPT !.next = @ + 1, !.attempt = 1, !.polling = FALSE,
                        !.verified = IF ok THEN @ \cup {Targets[pub.next]} ELSE @]

(* interpretSubmit: already verified, queued, or refused for good.             *)
Submit ==
  /\ Verifying /\ ~pub.polling
  /\ \/ /\ target \in confirmed /\ pub' = Done(TRUE) /\ UNCHANGED queue
     \/ /\ target \notin confirmed
        /\ pub' = [pub EXCEPT !.polling = TRUE] /\ queue' = queue \cup {target}
     \/ pub' = Done(FALSE) /\ UNCHANGED queue
  /\ UNCHANGED <<deployVars, games, checkVars, confirmed, page, service, events>>

interpretPoll ==
  IF target \in confirmed THEN "verified" ELSE IF target \in queue THEN "pending" ELSE "failed"

(* A failure and a timeout are tried again, up to the limit; a poll that gets    *)
(* no answer ends the contract's turn.                                        *)
Poll ==
  /\ Verifying /\ pub.polling
  /\ \/ interpretPoll = "verified" /\ pub' = Done(TRUE)
     \/ /\ interpretPoll \in {"pending", "failed"}
        /\ pub' = IF pub.attempt < DEFAULT_ATTEMPTS
                  THEN [pub EXCEPT !.polling = FALSE, !.attempt = @ + 1] ELSE Done(FALSE)
     \/ pub' = Done(FALSE)
  /\ UNCHANGED <<deployVars, games, checkVars, queue, confirmed, page, service, events>>

sameStack_ByNetwork(recorded, deployed) == TRUE
sameStack(recorded, deployed) == recorded = deployed

(* A record that names no stack, or another one, counts as not run.            *)
checklistLine(deployed) ==
  IF record = None \/ record.stack = 0 THEN "not run"
  ELSE IF ~sameStack(record.stack, deployed) THEN "not run"
  ELSE IF record.passed THEN "passed" ELSE "failed"

(* The page states what is not locked, and a pool that is not on the chain's    *)
(* own Uniswap; the checklist's record is read only now.                       *)
PublishPage ==
  /\ pub # None /\ pub.next > Len(Targets)
  /\ LET d == pub.deployed IN
     page' = [stack |-> d.stack, verified |-> pub.verified, checklist |-> checklistLine(d.stack),
              unseeded |-> d.unseeded, unlockTime |-> d.unlockTime,
              selfDeployed |-> ~(HasCanonicalUniswap /\ d.manager = CanonicalManager)]
  /\ pub' = None
  /\ UNCHANGED <<deployVars, games, checkVars, queue, confirmed, service, events>>

PublishStops ==
  /\ pub # None
  /\ pub' = None
  /\ UNCHANGED <<deployVars, games, checkVars, queue, confirmed, page, service, events>>

(* The explorer decides a submission, perhaps after nobody waits for it.        *)
ExplorerDecides(submission, accepted) ==
  /\ submission \in queue
  /\ queue' = queue \ {submission}
  /\ confirmed' = IF accepted THEN confirmed \cup {submission} ELSE confirmed
  /\ UNCHANGED <<deployVars, games, checkVars, pub, page, service, events>>

------------------------------------------------------------------------------
(* Relayer services, the lock, players and the guardian                       *)

(* The network book is kept to the published page.  The chain the scripts run   *)
(* on answers at "home" as chain 1, another one elsewhere as chain 2.          *)
book == IF page = None THEN Blank
        ELSE [chainId |-> 1, rpcUrl |-> "home", gameAddress |-> page.stack]
ChainAt(url) == IF url = "home" THEN 1 ELSE 2

(* The head of the game at that address must be on the chain that seed and      *)
(* length give (resolveEpoch).  The other chain has a twin of every stack, of   *)
(* the same addresses and the same seed.                                      *)
BootService(env) ==
  LET conf == config(env, book) IN
  /\ service = None
  /\ problems(env, book) = {}
  /\ assertExpectedChain(conf, ChainAt(conf.rpcUrl))
  /\ conf.gameAddress \in Live
  /\ stacks[conf.gameAddress].seed = conf.masterSeed /\ conf.chainLength = DEFAULT_CHAIN_LENGTH
  /\ service' = [network |-> env.network, rpcUrl |-> conf.rpcUrl, gameAddress |-> conf.gameAddress]
  /\ Counted
  /\ UNCHANGED <<deployVars, games, checkVars, publishVars>>

Other(n, after) ==
  /\ Counted
  /\ games' = [games EXCEPT ![n] = after]
  /\ UNCHANGED <<deployVars, checkVars, publishVars, service>>

OtherPlaces(n) ==
  /\ games[n].active = "none" /\ ~games[n].paused
  /\ Other(n, [games[n] EXCEPT !.active = "other", !.late = FALSE])
RelayerSettles(n) ==
  /\ games[n].active # "none"
  /\ isLocal \/ (service # None /\ service.gameAddress = n /\ service.rpcUrl = "home")
  /\ Other(n, SettleBet(games[n]))
GuardianToggles(n) == Other(n, [games[n] EXCEPT !.paused = ~@])

(* RushoodLPLock: its owner is the timelock.                                   *)
LockExtends_Any(old, new) == TRUE
LockExtends(old, new) == new > old
ExtendLock(n, new) ==
  /\ "lpLock" \in stacks[n].built
  /\ LockExtends(stacks[n].unlockTime, new)
  /\ stacks' = [stacks EXCEPT ![n].unlockTime = new]
  /\ Counted
  /\ UNCHANGED <<network, now, managers, uniswapRun, uniswapFile, launch, file, games, checkVars,
                 publishVars, service>>
Withdraw(n) ==
  /\ stacks[n].position = "lock" /\ now >= stacks[n].unlockTime
  /\ stacks' = [stacks EXCEPT ![n].position = "withdrawn"]
  /\ UNCHANGED <<network, now, managers, uniswapRun, uniswapFile, launch, file, games, checkVars,
                 publishVars, service, events>>

Tick ==
  /\ now < MaxTime
  /\ now' = now + 1
  /\ games' = [n \in DOMAIN games |-> [games[n] EXCEPT !.late = games[n].active # "none"]]
  /\ UNCHANGED <<network, managers, uniswapRun, uniswapFile, stacks, launch, file, checkVars,
                 publishVars, service, events>>

------------------------------------------------------------------------------
Init ==
  /\ DeployInit
  /\ games = [n \in 1..MaxStacks |-> Idle]
  /\ run = None /\ earned = {}
  /\ record \in {None, [stack |-> 0, passed |-> TRUE]}   \* none, or from before stamping
  /\ pub = None /\ queue = {} /\ confirmed = {} /\ page = None
  /\ service = None /\ events = 0

Next ==
  \/ /\ run = None
     /\ \/ \E env \in Envs, left \in {Dust} \cup Leftovers, pool \in {None, OtherPrice} :
             WholeLaunch(env, pool, left)
        \/ \E handOver \in BOOLEAN : DeploySkeleton(handOver)
     /\ Counted
     /\ UNCHANGED <<games, checkVars, publishVars, service>>
  \/ \E hasSafe \in BOOLEAN : StartChecklist(hasSafe)
  \/ \E short \in BOOLEAN : Audit(short)
  \/ settleAnyBetLeftInFlight \/ PlaceBet \/ SettleTier \/ CheckTier \/ CheckLimits
  \/ CheckPause \/ CheckUnpause \/ CheckRefund \/ CheckRefunded \/ WriteChecklist
  \/ ChecklistStops
  \/ StartPublish \/ Submit \/ Poll \/ PublishPage \/ PublishStops
  \/ \E s \in queue, accepted \in BOOLEAN : ExplorerDecides(s, accepted)
  \/ \E env \in ServiceEnvs : BootService(env)
  \/ \E n \in Live : \/ OtherPlaces(n) \/ GuardianToggles(n) \/ Withdraw(n)
                     \/ RelayerSettles(n)
                     \/ \E new \in 0..(MaxTime + LOCK_SECONDS) : ExtendLock(n, new)
  \/ Tick

Spec == Init /\ [][Next]_vars

------------------------------------------------------------------------------
(* A published page claims only what was earned by the stack it names: the      *)
(* checklist passed on that very stack, whichever stacks were deployed and      *)
(* checked before, meanwhile and since; and each contract called verified was   *)
(* confirmed by the explorer.                                                 *)
PageIsEarned ==
  page # None =>
    /\ page.checklist = "passed" => page.stack \in earned
    /\ \A c \in page.verified : <<page.stack, c>> \in confirmed

(* What a published page says of the liquidity stays true: the position cannot  *)
(* have left before the date on the page, whatever the lock's owner does later;  *)
(* the part of the allocation that is neither in it nor stated is what the mint   *)
(* left with the deployer, dust if the pool had the script's price; and a pool    *)
(* outside the chain's own Uniswap is called that.                             *)
LiquidityAsPublished ==
  page # None =>
    LET s == stacks[page.stack] IN
    /\ now < page.unlockTime => s.position = "lock"
    /\ allocationOf("liquidity") - s.held["pool"] - page.unseeded = s.held["deployer"]
    /\ s.pool # OtherPrice => s.held["deployer"] \in 0..Dust
    /\ page.selfDeployed = (s.manager # CanonicalManager)

(* A relayer service that is up is where it was meant to be: on the chain of the *)
(* network it was started for, though that network's addresses exist on others;  *)
(* and on no game whose reveals are the published development chain, in whatever  *)
(* padding the deployment was given that seed.                                  *)
BootedRelayerServes ==
  service # None =>
    /\ service.network # Blank => ChainAt(service.rpcUrl) = 1
    /\ stacks[service.gameAddress].seed.text # DevSeed
==============================================================================
