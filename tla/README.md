# Rushood: formal models

TLA+ models of the Rushood on-chain game (`src/packages/contracts`), its relayer service and launch scripts (`src/packages/contracts/scripts`), its web client and operator's console (`src/packages/web`) and its fairness verifier (`src/packages/verifier`), the TLC configurations that check them on small instances, and TLAPS proofs about the game, the relayer, the monitoring, the bet panel and history, the verifier, the launch and the console. Every safety property that holds of the code in a run is also a theorem.

All paths below are relative to `src/packages/`.

## 1. The system

A player stakes RUSH on one of six odds tiers. The game contract holds at most one open bet. The stake moves into the treasury, and the bet is bound to the current head of a hash chain, which is the server's commitment. The relayer settles the bet by revealing the preimage of that head. The draw is a hash of the reveal, the player's seed and the bet id. A win is paid by the treasury, a slice of every settled stake is burned, and the revealed preimage becomes the next head. If nobody settles within `SETTLE_TIMEOUT`, anyone may refund the stake. Governance tunes the economy between bets and can lock it. A guardian can pause new bets.

| Component | State | Operations | Modelled in |
|---|---|---|---|
| Game (`contracts/contracts/RushoodGame.sol`) | roles, pause, policy values, chain head, bet records, active bet | `placeBet`, `settleBet`, `refund`, `rotateChain`, `pause`/`unpause`, role and policy setters, `burnTreasuryProfit` | `RushoodGame` |
| Token (`Rushood.sol`) and treasury (`Treasury.sol`) | balances, allowance to the game, supply | `transfer`, `approve`, `burn`; `pay` and `burn` by the game | `Rushood` |
| Reveal chains (`scripts/lib/hashchain.ts`, `relayer-core.ts`) | none (pure) | build a chain, locate a head, decide on rotation, find the epoch | `HashChain` |
| Relayer service (`scripts/relayer-service.ts`, `service/loop.ts`) | epoch and chain in memory, transactions in the mempool | one pass: poll, decide, settle or rotate, wait | `RelayerService` |
| Relayer monitoring (`service/conditions.ts`, `alerts.ts`, `liveness.ts`) | alerts that are firing, the shared check, ages of the last read and the last block | judge conditions, deliver, resolve | `RelayerAlerts` |
| Bet panel (`web/app/PlayPanel.tsx`, `lib/settlement.ts`) | status, pending bet, query and subscription results | place, refund, recover after a reload, react to events | `PlayPanel` |
| Bet history (`web/lib/useBetHistory.ts`) | rows by bet, reads in flight | backfill, live logs, record reads, change of account | `BetHistory` |
| Fairness verifier (`verifier/src`, `verifier/bin/verify.ts`, `web/app/verify/VerifyTool.tsx`, `web/lib/fairness.ts`) | the page's form, verdict, messages and lookup | recompute, parse, make and open links, edit, verify, look up, run on the command line | `Verifier` |
| Launch deployment (`scripts/deploy-launch.ts`, `lib/genesis.ts`, `lib/seed-pool.ts`, `lib/uniswap-price.ts`, `deploy-uniswap-v3.ts`, `deploy-skeleton.ts`) | the deployment under way, the stacks on the chain, two deployment files | deploy, split the supply, open and lock the pool, hand over roles, record, stop anywhere | `LaunchDeployment` |
| Relayer configuration (`scripts/service/config.ts`, `networks.ts`) | none (pure) | what an environment is refused for, what the accepted one means | `RelayerConfig` |
| Checklist, publication (`scripts/launch-checklist.ts`, `verify-and-publish.ts`, `lib/`), liquidity lock (`RushoodLPLock.sol`) | the checklist under way and its record, the explorer's queue, the published page, the position | every check and stop, submit, poll, publish, extend, withdraw | `LaunchRecords` |
| Timelock (OpenZeppelin's, from its use) and admin console (`web/app/admin`, `web/lib/admin`, `web/components/admin`) | log, queued operations and roles; what the console last read of each, transactions sent | schedule, execute, cancel; type a change, press buttons, load the queue, ask for states | `AdminConsole` |
| Team vesting, web presentation | none of their own | parameters of a library contract; rendering, wallet connection, response headers | not modelled |

### Interactions

* The game calls the token and the treasury synchronously inside one transaction. Those calls are parts of the game's actions and never steps of their own.
* The relayer reads the game over RPC. The reads of one poll are answered independently, and blocks fall between a read and the transaction that rests on it. All instances sign with one key, so their transactions execute in nonce order. A reveal is public from the moment it is broadcast.
* The browser reads the game, polls, and subscribes to three events. These channels are not ordered with respect to each other or to a transaction's receipt.
* The relayer's monitoring sees the same reads as a pass, and reports to one external check per relayer.
* The verifier recomputes what the contract did. The page, the command line and the history's links share its parsing and its formula, and meet only in the text of a link.
* The launch scripts never call each other. They meet through the files in `deployments/`, the network book that the relayer reads, and the chain.
* The console reads the game, its own roles, the timelock's logs (calls and salts separately) and the states of the listed operations, each at a block of its own. What it sends lands later.

### What is hard

* The game contract itself is sequential, but its calls arrive in any order from players, governance, the guardian and the relayer. A mistake needs several of them: a rotation during a bet, a policy change between quote and payout, a refund racing a settlement, a payout and a burn that together exceed the treasury.
* Relayer: a crash or lost response at any await, with transactions of the previous life still pending; two instances; a bet refunded while its reveal is in the mempool; a chain that runs out.
* Monitoring: passes that judge only part of the conditions; de-duplication by severity; several conditions behind one check.
* Browser: a settlement overtaking the receipt that placed the bet; reads that were started for another account or another active bet; reloads; records read before the event they are merged after.
* Verifier: forms that mix fields of several bets; links made between two events; a lookup answered after the form has changed.
* Launch: scripts that stop after irreversible transactions; a pool that anybody may price before the script does; files and records read long before they are used; the same addresses on several chains; padding that is trimmed in one script and not in another.
* Console: reads of different moments side by side, several loads under way, a list that shifts between a question and its answer, and changes executed a delay after they were judged.

`PROJECT.json` lists each of these under `hazards` at its source line, with the property that covers it or the reason why none does.

## 2. Modules

### `Rushood`, `RushoodGame`, `BetLifecycle`, `ClientChain`

`Rushood` has `balance`, the game's `allowance` and `totalSupply`, with the transfers of the treasury as operators (`Moved`, `Burned`) that the game's actions use. The game can only ever spend allowances granted to itself, so only those are kept.

`RushoodGame` has the contract's storage as variables and one action per external function. Each action carries the function's modifiers and reverts as conjuncts, in the order of the code, and includes the token movements the function makes. `odds` is the contract's table, `maxBet` and `payoutFor` keep their integer divisions, and policy values are narrowed to the packed width (`Uint56`). `keccak` is a constant function from reveals to heads about which nothing else is assumed (`GameAssumption`); the instances use disjoint chains of nodes. The draw is an arbitrary constant function of reveal, seed and bet id, so that nothing rests on its distribution. `quoted` and `received` are history variables: the payout promised at placement and what the player was sent.

`BetLifecycle` is the promise to a player in the abstract: a bet is open, then drawn or refunded, once, and paid exactly what that calls for; every open bet closes. `RushoodGame` implements it (`KeepsPromise`) by mapping each record to its status.

`ClientChain` is the game as a browser sees it: the sequence of bets with player, state and time of placement, and the clock. `RushoodGame` implements it too (`KeepsClientView`), which is what justifies writing the web modules against it instead of the whole contract.

### `HashChain`, `RelayerService`

`HashChain` translates the chain construction as a recursive function over node indexes, and the pure decisions of the relayer. Where the code throws, an operator returns the empty set.

`RelayerService` EXTENDS the game and adds the processes. Each `await` of a pass ends an action: `Boot`, `Poll`, `ReadHead`, `ReadBet`, `Decide`, `SendSettle`, `SendRotate`, `WaitReturns`. `Mine` executes the oldest pending transaction by the game's own action, or reverts it. `ResponseLost` and `Crash` may strike at any of those points and leave what was broadcast in the mempool. `settleNextBet` reads the active bet and the head before its transaction; these reads are merged with `estimateGas`, which repeats both checks on the chain's state.

### `RelayerAlerts`

The facts a pass reads (node reachable, block advanced, age of the open bet, round of the head, gas balance) change between passes; a pass is one action that judges them and applies `Alerter.evaluate`. There are four kinds: a full one, one whose balance read failed, one aborted after its reads, and one whose poll failed. Ages saturate at the largest threshold plus one, beyond which nothing distinguishes them. Node and host clocks tick together.

### `PlayPanel`, `BetHistory`

Both EXTEND `ClientChain`. Every await, answer of a read, subscription and log delivery is an action. React's rules are modelled by what they do: an effect whose dependencies changed is cleaned up (its read in flight is dropped) and restarted before anything else happens, and a disabled watcher is unsubscribed. A subscription delivers the logs emitted after it, in order. `RefundBet` names the pending bet as the button does.

`BetHistory` keeps one row per bet with what the screen decides on: the outcome, whether the terms are known, and whether the reveal is. The three queries of a backfill each cover the logs up to the moment that query was answered.

### `Verifier`

Text is abstracted to what parsing tells apart: blank, malformed, or the value it denotes. `verifyRoll`, `ParseErrors`, `verifyQueryParams`, `readArgs` and `verifyInputsFor` translate the shared functions; the actions are those of the page (`OpenLink`, `Edit`, `PressVerify`, `PressLookUp`, `LookedUp`, `LookUpFails`) and the contract's `Settle`. `Run` is the page's `run`: when the recomputation throws, the messages go and the old verdict stays. The draw and the hash are constant functions. `Links` holds the links the app makes, and those with a field lost, garbled, or exchanged with another bet's.

### `LaunchDeployment`, `RelayerConfig`, `LaunchRecords`

`LaunchDeployment` takes `deploy-launch.ts` one transaction at a time: `Build` for each contract, `SetGame`, `CheckGenesis`, `SendBucket` for each allocation, the opening price, the pool, the position, the partial-seed check, the hand-over of both roles and the record, with `Exit` before any of them. A stack that no file names is forgotten when its attempt ends. Prices keep their integer square root; RUSH may sort first or second. On a network that is not local, others may have priced the pool before the script reaches it, or move its price until the mint (`OthersSetPrice`, `OtherPrice`); `OpenPool` then leaves it alone, as `createAndInitializePoolIfNecessary` does, and `MintPosition` leaves with the deployer what the price does not call for: dust at the script's price, any of `Leftovers` at another (`Leavings`).

`RelayerConfig` is pure: the problems of an environment (all together, as the code reports them), the configuration it means otherwise, and the check of the chain at boot.

`LaunchRecords` EXTENDS both. It adds the checklist step by step with what each step leaves on the chain, the explorer's queue with attempts and late decisions, the page, the boot of a relayer service, the lock, and what players, relayers and the guardian do meanwhile. Here a deployment is one step (`WholeLaunch`), because `RecordedStackIsComplete` shows that one that reached the record is whole. `earned` is a history variable.

### `AdminConsole`

The timelock's log, its queued and executed operations and the account's roles; of the game, what governance can reach. The catalogue (`fields`, `parseField`, `crossCheck`, `preflightAdminOp`) and the access rules (`mode`, `operatorAccess`) are translated from `ops.ts` and `access.ts`; `GameAccepts` from the contract. Each read of the console is a pair of actions or one that happens at a moment of its own (`ReadGame`, `ReadRoles`; `StartLoad`, `Answer` for each half, `FinishLoad`; `AskStates`, `AnswerStates`), and each button sends a transaction that lands or is refused later. `changes` counts the changes of governance, guardian and roles (history).

### Proof modules

`RushoodGameProofs`, `RelayerServiceProofs` (which EXTENDS it), `RelayerAlertsProofs`, `PlayPanelProofs`, `BetHistoryProofs`, `VerifierProofs`, `LaunchProofs`, `AdminConsoleProofs`: see section 5.

### Conventions

`MC*` modules give constants their values where these are more than plain values, which the configurations hold. `MCLaunchRecords` and `MCAdminConsole` add a variable `scope` that is chosen initially and never changes: it splits one question in two instances that are each exhaustive (section 3). A definition with an underscore in its name (`MaxBet_RoundsUp`, `place_Resets`) is a slip that a change to the code could introduce. No action uses one; each is the counterpart of a property that would catch it (`mutants` in `PROJECT.json`).

## 3. Runs

| Run | Module, configuration | Checks | Distinct states |
|---|---|---|---|
| `playing` | `MCRushoodGame_playing` | `TypeOK`, `OneOpenBet`, `Solvent`, `WinWithinCap`, `RevealOpensCommit`, `PaidAsPromised`, `BetsAreEvidence`, `EveryBetCloses`, `KeepsPromise`, `KeepsClientView` | 236,640 |
| `economy` | `MCRushoodGame_economy` | `EconomicsInRange`, `SupplyConserved`, `ReserveKept`, `EconomyFrozen` | 522,240 |
| `relayer` | `MCRelayerService_one` | `RevealsUsedOnce`, `HeadIsSecret`, `BetsAreDrawn`, `RotatesBetweenBets` | 50,708 |
| `alerts` | `RelayerAlerts_pass` | `OneDiagnosis`, `FailedPollClearsNothing`, `DeadNodePages`, `StuckBetPages` | 26,316 |
| `panel` | `PlayPanel_pass` | `RefundsOwnBet`, `OfferIsHonest`, `StuckBetIsOffered` | 209,306 |
| `history` | `BetHistory_pass` | `RowsAreTrue`, `ClosedRowsStayClosed`, `VerifyLinkStays`, `RowsCatchUp` | 124,857 |
| `verify` | `MCVerifier_pass` | `PassIsGenuine`, `LinksPass`, `LookupsPass` | 43,675 |
| `launch` | `MCLaunchRecords_pass` | `RecordedStackIsComplete`, `ScriptPriceIsPinned`, `PageIsEarned`, `LiquidityAsPublished`, `BootedRelayerServes` | 1,150,351 |
| `admin` | `MCAdminConsole_pass` | `PreflightIsExact`, `ExecuteOnlyWhenReady`, `OfferedIsPermitted` | 1,118,953 |
| `resuming_relayer`, `alerts_cleared`, `panel_waits` | see section 4 | one property each, which the code violates | |

Bounds, and why they are enough:

* `playing`: two players, two bets, two hash chains of two reveals, the lowest tier, the highest and one beyond it, stakes from the smallest to just above what a tier allows, a timeout of one tick. Two bets reach every pair of consecutive outcomes, a rotation in each gap, and the reuse of the active slot. Policy is fixed: nothing the contract tunes between bets changes what happens inside one, which `economy` checks and section 5 proves. No symmetry is used, since the run checks liveness.
* `economy`: one bet, with values at and outside each bound for every setter, governance moving between two holders, holders' transfers and burns. The stake (260) is close to the largest the deployed cap allows on its tier and the draw wins. A later bet starts from the state the first left behind, so a second adds no new relation between policy and an open bet. The packed width is 10 bits instead of 56, so that a value can exceed it.
* `relayer`: three bets on chains of three nodes (two reveals) with a margin of one, so that rotation, exhaustion and recovery in the next epoch all happen; two faults, so that the recovery from a crash can itself be hit. The restart scan is cut from 1000 epochs to two, so that a head beyond it is reached. `MaxEpoch` bounds the epochs in use, for the chains have to be given as constants; the instance has one more than bets could ever use up, so the bound is not met.
* `alerts`: thresholds of one or two ticks, one pass cut short. The violation runs also let the balance move between the three levels.
* `panel`: two bets, so that an own bet can follow or precede somebody else's, two actions of the player (clicks, reloads, disconnections), one lost read. Timeout of one tick.
* `history`: one bet, two changes of account (away and back), one lost read. Rows are independent of each other: an action on a row reads the logs and the record of that bet only, and bets interact only through the order in which a subscription delivers. The timeout is zero, so a refund is always possible.
* `verify`: two bets on different tiers, one won and one lost, so that every field of one can stand in the other's form; three links or edits, any number of verifications and lookups; one bet id beyond the 256 bits.
* `launch`: a supply of twenty units of which every share is whole, two stacks, two values of the seed (one padded and public), a relayer environment with each variable changed in turn. Scope "steps" has every deployment transaction by transaction, local and not, with Uniswap stood up before, after or never. Scope "whole" has four events (scripts begun, bets, pauses, extensions) around whole deployments with one contract to verify in at most two attempts, two tiers, and a clock that passes the unlock time. Two stacks are enough for a record, a page or a service of one to meet the other. The price is three, so that the root is rounded when RUSH sorts first. At a price set by others the mint leaves two units, one more than dust; in scope "whole" one stack at most is priced by others, so that its account can be confused with that of another.
* `admin`: scope "values" has every operation with a value on each side of its bounds, calls of others that move governance, guardian and roles, and bets, with one log entry. Scope "queue" has two log entries, two loads under way and a cap of one row, so that rows shift and late loads replace newer ones. One transaction is unconfirmed at a time, two events of others, a delay of one tick. The proofs in section 5 cover any number of each.

Deadlock is checked for the game, relayer, monitoring and verifier runs, which can always step. Where `CHECK_DEADLOCK FALSE` appears (`panel`, `history`, `launch`, `admin`), a bounded session, chain or launch really ends.

### Fairness

* Game (`FairSpec`): time passes, and somebody calls `refund` on an overdue bet. Refunding is open to anyone and the stake's owner wants it back. The relayer, the guardian and governance owe nothing.
* Relayer (`FairRelayerSpec`): a pass continues and a dead process restarts (`contracts/deploy/rushood-relayer.service`: `Restart=always`), and a broadcast transaction is mined. Players, the guardian and refunds owe nothing.
* Monitoring: the loop keeps making passes and time passes; `relayer-service.ts` catches every error of a pass.
* Browser: polls, reads, subscriptions and deliveries of a page that stays open come through, and time passes. The player, the relayer and the other players owe nothing.

## 4. Disagreements between the code and what it says

Each is a run whose one property is taken from a comment or document, with a counterexample found by TLC. The quotations are in `PROJECT.json` under `findings`.

1. `resuming_relayer`: the contract's note on `refund` relies on a relayer that rotates when it resumes after downtime. The service rotates only within the margin of the end of a chain, so a reveal leaked by a refunded bet stays the next one.
2. `alerts_cleared`: a pass whose balance read failed claims to have judged every condition, and resolves a funding alert that is still true.
3. `panel_waits`: a settlement delivered before `placeBet`'s receipt leaves the page waiting for an event that has come already, until it is reloaded or the same player's next bet is settled.

### Remarks without a run

Met while modelling, each a reading of the code at the line given, and none checked by a run here.

Relayer and monitoring:

* A second instance that decided to rotate from an old head, and whose transaction executes after the first one's rotation, a bet and its settlement, reinstalls a genesis head whose reveal has been published (`loop.ts:225-234`).
* When a late bet becomes refundable, delivering the new alert and then resolving the old one leaves the shared check up (`alerts.ts:105-115`). A page that falls to a warning is neither delivered nor recorded, so the next escalation to a page is dropped (`alerts.ts:102`), although `docs/ops/relayer.md` says escalations are delivered again.

Verifier:

* An opened link may state a result in fields the form does not show; with another bet's inputs typed over it, genuine inputs fail (`VerifyTool.tsx:45`, `102-110`). Messages about those fields, and about the tier, are not displayed.
* After an edit the verdict of the old inputs stays, while the result beside it reads the current fields (`VerifyTool.tsx:236-301`).
* A number of 2^256 or more parses and makes `verifyRoll` throw, which `index.ts:161` excludes.
* A link without a tier verifies as tier 0 in the page and is refused on the command line.

Launch:

* A checklist interrupted between pause and unpause leaves the game paused (`launch-checklist.ts:259-271`), and a live relayer can settle the checklist's bet before the checklist does, which ends it.
* "Any unseeded remainder is handed to the Safe" (`deploy-launch.ts:169-170`) counts what was not to be seeded, not what the mint did not take. A pool that somebody else has priced since the token was deployed keeps that price (`seed-pool.ts:135`), the mint has no minimum because "there is no existing price for slippage to move against" (lines 112-113), and the RUSH it leaves stays with the deployer, neither handed over nor in `unseededRush`. `RecordedStackIsComplete` says what is left, by `Leavings`.
* The partial-seed check refuses only after the split and the locked position (`deploy-launch.ts:226-233`).
* The audit expects the treasury to hold its share less what was burned, which a player's win breaks (`launch-checklist.ts:98-102`).
* `deploy-launch.ts:74-81` does not trim `RELAYER_SEED`, `config.ts:179-183` does: a padded seed gives the stack and the service different chains. `deploy-skeleton.ts` has no guard against a public network.

Console:

* The late answer of an earlier load replaces a newer list. Calls and salts answered at different blocks give a row a zero salt, whose Execute reverts, contrary to `AdminConsole.tsx:188-189`.
* "Nothing has been queued" shows before the first load (`AdminConsole.tsx:355-365`), and the cap of 25 rows hides older pending operations.
* Amounts of 2^256 or more pass the form, and encoding them throws outside the `try`.
* One `busy` key for all buttons re-enables the others, so that a change can be queued twice.
* A boolean field shows "true" while its raw value is empty (`ChangeForm.tsx:82`, `ops.ts:383`).

## 5. What is proved

Eight modules hold proofs, each for every value of the constants that the named assumptions of its component allow: sets of accounts, hash chains, supply, packed width and inputs of the game; chain length, margin, scan, epochs in use, bets and faults of the relayer; thresholds and balances of the monitoring; players, bets, concurrent placements, faults and timeout of the web client; bets, draw and texts of the verifier; supply, price, precision, dust, what a mint at another price leaves, seeds, environments, number of stacks and course of time of the launch; bounds, delay and inputs of the console.

### The game (`RushoodGameProofs`)

`TypeCorrect`, `EconomyStaysInRange`, `ExactlyOneOpenBet`, `WinsWithinCap`, `CommitmentsHold`, `PaysAsPromised`, `AlwaysSolvent`, `StoredBetsAreEvidence`, `ReserveIsKept`, `EconomyIsFrozen`.

The argument has three layers.

1. `TypeInv` is `TypeOK` with `EconomicsInRange` and the typing of the active bet's record. It is inductive on its own; the range of the economy is needed for the types, since a payout divides by the edge's denominator. Narrowing to the packed width is shown lossless under the setters' checks (`Uint56Lossless`).
2. `RecordInv` is the shape of the bet records on top of `TypeInv`: exactly the active bet is unsettled, records beyond the counter are blank, a reveal opens its commitment and the open bet's commitment is the current head, nothing has been paid for the open bet, the quote of the open bet is what the formula gives under the current edge, each closed bet was paid what its record calls for, and the open bet's win is within the cap of the pool it joined. `OneOpenBet`, `WinWithinCap`, `RevealOpensCommit` and `PaidAsPromised` need each other's facts to be preserved, which is why one invariant has them all. Steps that touch no bet are handled by one lemma (`AsideRecordInv`). The arithmetic core is `MaxBetBoundsPayout`: the one division in `maxBet` is enough for the bound on the payout, which is computed by a different one.
3. `CapImpliesSolvent` derives `Solvent` from the cap: one twentieth of the pool for a win and one tenth of the stake for the burn fit in pool plus stake. The action properties follow from `TypeInv` and the guards, one step per action.

The supply comes after that. `SupplyIsConserved`: every step moves tokens between two accounts, burns some of one account together with the supply, or does neither (`SupplyStep`, `NextIsSupplyStep`; a transfer to oneself and a settlement, which pays and burns at once, are the cases that need care). The sum over all accounts is a fold, that is a recursive function of sets. Its induction is by the least cardinality at which a statement fails (`LeastNatural`, from the library's well-foundedness of set inclusion), which needs no operator as a parameter: `SumTableExists` shows that the recursion has a solution, `FoldIsSumTable` that the fold is one, `SumOfOneChange` what one changed balance does to it. `UncheckedArithmeticIsSafe` then states what the token's `unchecked` blocks rely on: no balance exceeds the supply and the supply never exceeds what was minted, so no sum of two of them wraps.

### What others rely on (in `RushoodGameProofs`)

`ImplementsClientView` shows that the game implements `ClientChain`, and `ImplementsLifecycle` that it implements the safety part of `BetLifecycle`. Both use the invariants above. Each kind of step is one lemma: a placement, a settlement, a refund and a tick are the abstract steps of that name (`ViewPlaced`, `ViewSettled`, `ViewRefunded`, `ViewTick`; `PlacePromise`, `SettlePromise`, `RefundPromise`), and everything else moves no bet and no clock (`QuietSteps`). The client's view needs one invariant more, that the active bet is the last one placed (`ActiveIsLast`). The amounts in the lifecycle come from `PaidAsPromised`.

### The relayer (`RelayerServiceProofs`)

`RelayerPlaysTheGame`, `RelayerTypeCorrect` hold for any number of relayers, with or without copies from the mempool. The first says that a behaviour of the relayers, the chain and the others is one of `RushoodGame`, so that every theorem above holds of the game they drive.

`RevealsAreUsedOnce` and `HeadStaysSecret` are about one relayer whose pending reveals nobody copies (`OneRelayer`). Both hypotheses are needed: with two instances, or with `CopiesPending`, TLC finds behaviours that violate both properties. A node of the chains in use has a place, its epoch and index (`PlaceOf`, by the assumption that the chains never meet), a preimage is one index on in the same epoch (`RevealFacts`), and the pure functions of `HashChain` compute places (`RoundOf`, `ResolveFinds`, `RotationGoesTo`). The inductive invariant `ChainInv`, which TLC confirmed on the instance of the `relayer` run, has three groups.

* `ProcessInv`, the process: its epoch is that of the head, or one behind a rotation it has not noticed (`EpochTracksHead`); a head that a poll has read is no older than the relayer's epoch, so acting on it never goes back (`PollsAreRecent`); it waits for one transaction at most, and success of a rotation means that the head is in the next epoch (`Awaited`), which is what allows it to count up on a receipt.
* `QueueInv`, the mempool: what is published is at most the successor of the head (`PublishedBehind`); a pending rotation leads forward, or to the genesis node that already is the head (`RotationsAhead`), and stays so whatever is mined before it (`InOrder`) and whichever reveal others may use (`KnownBehind`). The last is the one that fails when pending reveals can be copied, and then a rotation whose receipt was lost and which is sent again takes the head back.
* The bets: every reveal used is at or behind the head (`UsedBehind`), and a public preimage of the head belongs to a bet placed on this head, open or refunded (`LeakedByABet`). A draw uses the place after the head, so it is a new one; and a head that was just moved to has no public preimage.

### Monitoring (`RelayerAlertsProofs`)

`DiagnosesOnce`: what a pass reports never holds both keys of an escalation (`JudgedOnce`), and a key that the pass judged fires afterwards only if the pass reported it (`FiresIfReported`). Passes that judge only part of the conditions judge both keys of an escalation or neither, so the property is inductive as it stands. `FailedPollsClearNothing`: a pass whose poll failed claims the liveness keys only.

### Bet panel (`PlayPanelProofs`)

`RefundsOwnBetAlways`, `OfferIsHonestAlways`. A bet reaches `pending` by a receipt or by a recovery read, and the chain moves on while either is in flight, so `RefundsOwnBet` is not inductive. `IInv` adds that a mined placement and an answered recovery are already about a bet of this player (`ReceiptsAreMine`, `RecoveryIsMine`), which holds because a bet's player and time of placement never change (`BetsKept`). `OfferIsHonest` needs `HeadIsPast` as well: the chain time that the page compares with was read earlier, and an old reading only delays the offer.

### Bet history (`BetHistoryProofs`)

`RowsAreTrueAlways`, `ClosedRowsStayClosedAlways`, `VerifyLinkStaysAlways`. `IInv` speaks of what is in flight: every backfill still in flight is of the account shown (`OwnBackfills`), and a record read claims no more than the chain has (`HonestReads`). A settled or refunded bet never changes again, so an answer that was true when given can be merged at any later time. The two action properties are one lemma per action: no merge takes back an outcome or a reveal (`RowsAdvance`), and a change of account is the only step that may.

### Verifier (`VerifierProofs`)

`PassesAreGenuine` rests on the assumption that a commitment opens to one reveal; every other field of the record is compared or hashed. The invariant is that the verdict shown is true to the texts it judged (`VerdictInv`) and that the form is typed (`FormTyped`). `AppLinksPass` and `SettledLookupsPass` come from two facts: a link of the app states a settled bet's record and of its outcome nothing or the truth (`AppLinksAreTrue`), and such a form passes whatever was in it before (`LinkFillsForm`, `RecordPasses`).

### Launch (`LaunchProofs`)

Two specifications, as in the run. `DeploySpec` is the scripts transaction by transaction; `Spec` of `LaunchRecords` is everything around deployments that are whole.

* `RecordedStacksAreComplete` (`DeploySpec`): `DInv` says how far the stack under way is when the script is about to take its k-th step (`Building`): which contracts stand, how many buckets are paid, what each holder has (`Balances`), where the position is and who holds the roles. `Onward` states what each step has to add. No file names that stack before the last step, so a script that stops takes nothing from a recorded one (`StepKeeps`, `ExitKeeps`), and when the record is written the balances add up to the genesis split (`AmountsAreWhole`), but for what the mint left with the deployer, for any supply and price and whoever priced the pool: the check that the split uses up the supply is what this needs (`CheckGenesis`). Whether the launch is partial, local, or after failed attempts is left open.
* `PagesAreEarned`, `LiquidityStaysAsPublished`, `RelayersServe`, `RecordedStacksStayComplete` (`Spec`): `IInv` says of the deployment file, of a publication under way and of the page alike that the lock holds their stack's position until the date they state and that their remainder is what the pool did not take (`Liquidity`); of a passing record that its stack earned it; and of every contract that the publication counts as verified that the explorer confirmed that stack's. What makes it inductive is `StacksKept`: no later step takes away a stack, its seed, its balances or its manager, a lock is only extended, and a position leaves it only after its time. `RelayersServe` rests on the checks at boot: an accepted seed is not the development seed after trimming, and the stack's head is on the chain of the service's seed.

* `ScriptPricesArePinned` (`DeploySpec`): this is about the price that the script computes and gives a pool. It says nothing of one that others priced before or moved afterwards (`OthersSetPriceKeeps`), and the script does not look (section 4). `SqrtIsRoot` shows that Newton's iteration returns the integer root of every number. An iteration from above the root goes down but not past it, and one at the root or below stays (`NewtonStep`, from the bound of a product by the square of the mean), so the recursion has a solution that is known in full, and by the least argument at which they might differ it has no other. `OpeningPrice` carries this through the divisions: the square of the price is `Q * Q / RUSH_PER_ETH` or its inverse to the last unit of the root, for any amount seeded.

### Console (`AdminConsoleProofs`)

* `OffersOnlyPermitted`: `AuthorityInv` says that what the console read of governance, guardian and roles still holds unless the count of changes has moved on. An offer made from reads of one count is therefore sound, and stays so in flight.
* `WarningsMatchTheContract`: `WarningInv` says that the game's policy is typed and that every call sent or queued by the console has the arguments its form lets through (`ParsedIsFormed`); operation by operation, the warnings are then the contract's reasons (`WarningsAreExact`).
* `RowsShowTheirOwn`: `RowInv` says that the log only grows and that each answered "ready" was of an operation whose delay had passed; a row takes its state by position, and only from an answer to the very same list, because the list is the key of the query (`aligned`).

### Only model-checked, and why

* `EveryBetCloses`, `BetsAreDrawn`, `RotatesBetweenBets`, `DeadNodePages`, `StuckBetPages`, `StuckBetIsOffered`, `RowsCatchUp`, and the liveness in `KeepsPromise`: liveness under fairness is outside this prover.

The safety part of `KeepsPromise` is proved. So is the induction over data that can be put as a least counterexample (`LeastNatural`), which needs no operator as a parameter.

## 6. Assumptions and what is left out

* In `RushoodGame` the constructor's wiring (`Treasury.setGame`) has happened; the step itself is in `LaunchDeployment`.
* There are finitely many accounts (`FiniteAssumption`: an address has 160 bits), which the sum of the balances needs.
* The relayer's chains are of distinct nodes: every node but the last of a chain in use has its preimage on the chain, and no node stands at two places (`ChainsAssumption`). A collision of keccak256 among the relayer's own nodes would break this. The game is deployed with the genesis node of epoch 0, as the deployment scripts do.
* Nobody guesses a preimage. Whether another account can execute a reveal that it has only seen in the mempool, before the relayer's own transaction, is the constant `CopiesPending`. The relayer runs set it to FALSE: such a reveal is known to others once its transaction has executed or reverted. With TRUE, neither `RevealsUsedOnce` nor `HeadIsSecret` holds any longer: a rotation whose receipt was lost is sent twice, the first copy is mined, a bet is settled by somebody else from the mempool before the second copy executes, and that copy then reinstalls the genesis node. It is the repeated rotation of the first remark in section 4, reached by one relayer.
* The relayer's node answers from one chain without reorganisations, every broadcast transaction is eventually mined, and one key's transactions execute in nonce order. `wait()` without a timeout on a dropped transaction is listed as a hazard.
* The alert sink answers. The code documents that a failed delivery is not retried.
* The panel has one account (`Me`), which can disconnect and reconnect, and one call of `placeBet` at a time; the constant `Calls` allows more. The approval is either enough or short. Identical reads of a record that are in flight together are one read.
* A pool may be priced by others on every network but a local one, whose node is the operator's own. A price set before the pool's step counts as set at that step, since nothing reads it earlier, and wrapping, the two approvals and the initialisation are one step. How much RUSH a mint leaves at such a price is the constant `Leftovers`; the deployer's ETH is not modelled.
* The operator runs one launch script at a time: they sign with one key. The explorer may decide late or never, and its decisions are about the sources submitted.
* The console has one account (`me`). The timelock's log is answered in whole at some moment between question and answer. `changes` counts only what moves authority.
* `RelayerConfig` leaves out the poll interval, the probe timeout and the block stall, which are validated like the numbers it has, and a numeric variable of blanks only, which `Number` reads as 0. `aligned` in `AdminConsole` compares lists of ids where the code compares lengths: the list is the key of the query and no placeholder data is configured, so that an answer is only ever joined to its own list.
* Modelled without its detail: wording of messages, pages and reports; the deployment of Uniswap's contracts one by one and its tick arithmetic; the parameters of a fee collection, which moves nothing else that is modelled.
* Not modelled: `RushoodVesting.sol` (parameters of a library contract), rendering, styles, wallet connection, ABIs and addresses, response headers (no state that interacts with the above); in the console the wrong-network gate and the relayer health panel; in the bet panel form validation and the size of an approval; in `relayer.ts` the event-driven loop of the development relayer, which the service has replaced.

## 7. Plan

What is left, in this order:

1. The development relayer's event-driven loop beside the service.
2. Fee collection by the lock, if it comes to depend on anything else.
3. Progress (section 5, "Only model-checked") stays with TLC until a prover of fairness is available.

## 8. Running

In this directory, with any configuration of the table in section 3 and any of the proof modules:

```
tlc -workers 2 -config MCRushoodGame_playing.cfg MCRushoodGame.tla
tlc -workers 2 -config RelayerAlerts_pass.cfg RelayerAlerts.tla
tlapm RushoodGameProofs.tla
tlapm RelayerServiceProofs.tla
tlapm RelayerAlertsProofs.tla
tlapm PlayPanelProofs.tla
tlapm BetHistoryProofs.tla
tlapm VerifierProofs.tla
tlapm LaunchProofs.tla
tlapm AdminConsoleProofs.tla
```

A configuration's name starts with that of its module. `MCRelayerService_resume`, `RelayerAlerts_cleared` and `PlayPanel_missed` are those of the violations in section 4.
