----------------------------- MODULE AdminConsole -----------------------------
(***************************************************************************)
(* The operator's console (web/app/admin, web/lib/admin, web/components/admin, *)
(* web/lib/timelock.ts) over the timelock that governs the game.  The console   *)
(* reads the game, its own roles, the timelock's logs and the states of the     *)
(* listed operations separately, and each answer may be old; the transactions it *)
(* sends land later, while other operators schedule, execute and cancel, roles   *)
(* and governance move, and bets come and go.                                  *)
(*                                                                         *)
(* The console's account is "me".  The timelock is OpenZeppelin's; of the game   *)
(* this keeps what governance can reach.  Amounts are small numbers, and a flag  *)
(* is 0 or 1.                                                                *)
(***************************************************************************)
EXTENDS Integers, Sequences, FiniteSets

CONSTANTS
  Blank, Malformed,      \* texts that are no value
  MAX_UINT,              \* 2^256 - 1
  MAX_BURN_RATE_BPS, MAX_ECONOMIC_RATIO, MIN_SOLVENCY_CAP_DEN,
  MAX_OPERATIONS,        \* rows the console lists
  MinDelay,
  Inputs,                \* what is typed: [id |-> operation, raw |-> its fields]
  OthersCalls,           \* calls others schedule
  RoleSets,              \* roles "me" may have on the timelock
  MaxLog, MaxLoads, MaxSent, MaxEvents, MaxTime   \* bounds

AdminOps == {"setBurnRate", "setEconomicsGovernable", "setMinBet", "setEdge", "setSolvencyCap",
             "setTreasuryFloor", "burnTreasuryProfit"}
None == [none |-> TRUE]

VARIABLES
  game,        \* the contract
  timelock,    \* its log, the operations queued, the ones done, the roles of "me"
  now,
  view,        \* the last read of the game, or None
  held,        \* the last read of the roles, or None
  list,        \* the rows of the queue
  loads,       \* log queries under way: how much of the log each half has seen, or Blank
  reading,     \* the operations whose states have been asked for, or Blank
  states,      \* the last states answered: for which operations, and what
  busy,        \* which action awaits confirmation
  sent,        \* transactions that have not landed
  changes,     \* how often governance, guardian or roles have changed (history)
  events

chainVars   == <<game, timelock, now, changes>>
consoleVars == <<view, held, list, loads, reading, states, busy, sent>>
vars == <<chainVars, consoleVars, events>>

Least(a, b) == IF a < b THEN a ELSE b

------------------------------------------------------------------------------
(* The catalogue of operations (ops.ts)                                       *)

needsEconomicsUnlocked(id) == id \in {"setMinBet", "setEdge", "setSolvencyCap", "setTreasuryFloor"}
needsIdleGame(id) == needsEconomicsUnlocked(id) \/ id = "burnTreasuryProfit"

(* The fields' bounds; a boolean has none.                                     *)
Between(lo, hi) == [kind |-> "number", min |-> lo, max |-> hi]
AtLeast(lo) == [kind |-> "unbounded", min |-> lo]
fields(id) ==
  CASE id = "setBurnRate" -> <<AtLeast(0)>>
    [] id = "setEconomicsGovernable" -> <<[kind |-> "boolean"]>>
    [] id = "setEdge" -> <<Between(1, MAX_ECONOMIC_RATIO), Between(1, MAX_ECONOMIC_RATIO)>>
    [] id = "setSolvencyCap" -> <<Between(MIN_SOLVENCY_CAP_DEN, MAX_ECONOMIC_RATIO)>>
    [] OTHER -> <<AtLeast(1)>>

(* A field holds what is typed; an uint256 of another's call is a number.          *)
ASSUME ConsoleAssumption ==
  /\ {MAX_UINT, MAX_BURN_RATE_BPS, MAX_ECONOMIC_RATIO, MIN_SOLVENCY_CAP_DEN, MinDelay} \subseteq Nat
  /\ MAX_OPERATIONS \in Nat \ {0}
  /\ \A input \in Inputs :
       /\ input.id \in AdminOps
       /\ \A i \in DOMAIN fields(input.id) : input.raw[i] \in Nat \cup {Blank, Malformed}
  /\ \A call \in OthersCalls :
       call.id \in AdminOps => \A i \in DOMAIN fields(call.id) : call.args[i] \in Nat

withinBound(field, value) ==
  /\ value >= field.min
  /\ field.kind = "number" => value <= field.max

parseField(field, raw) ==
  raw \notin {Blank, Malformed} /\ (field.kind # "boolean" => withinBound(field, raw))

crossCheck_EdgeUnchecked(id, args) == id = "setBurnRate" => args[1] <= MAX_BURN_RATE_BPS
crossCheck(id, args) ==
  /\ id = "setBurnRate" => args[1] <= MAX_BURN_RATE_BPS
  /\ id = "setEdge" => args[1] <= args[2]

(* The fields in error, all of them; rules across fields only once each parses. *)
errors(id, raw) ==
  LET bad == {i \in DOMAIN fields(id) : ~parseField(fields(id)[i], raw[i])}
  IN IF bad = {} /\ ~crossCheck(id, raw) THEN {1} ELSE bad
parseAdminOp(id, raw) == errors(id, raw) = {}

headroom(g) == IF g.balance > g.floor THEN g.balance - g.floor ELSE 0

(* What would make the call revert now: it warns, and never blocks.             *)
preflightAdminOp(id, args, g) ==
  {w \in {"economics-locked", "bet-in-flight", "burn-exceeds-headroom"} :
     CASE w = "economics-locked" -> needsEconomicsUnlocked(id) /\ ~g.economicsGovernable
       [] w = "bet-in-flight" -> needsIdleGame(id) /\ g.activeBet
       [] w = "burn-exceeds-headroom" -> id = "burnTreasuryProfit" /\ args[1] > headroom(g)}

------------------------------------------------------------------------------
(* The game's setters, and the timelock                                       *)

GameAccepts(call) ==
  LET a == call.args IN
  CASE call.id = "setBurnRate" -> a[1] <= MAX_BURN_RATE_BPS
    [] call.id = "setMinBet" -> game.economicsGovernable /\ ~game.activeBet /\ a[1] # 0
    [] call.id = "setEdge" -> /\ game.economicsGovernable /\ ~game.activeBet
                              /\ a[1] # 0 /\ a[2] # 0 /\ a[1] <= a[2]
                              /\ a[2] <= MAX_ECONOMIC_RATIO
    [] call.id = "setSolvencyCap" -> /\ game.economicsGovernable /\ ~game.activeBet
                                     /\ a[1] >= MIN_SOLVENCY_CAP_DEN
                                     /\ a[1] <= MAX_ECONOMIC_RATIO
    [] call.id = "setTreasuryFloor" -> game.economicsGovernable /\ ~game.activeBet /\ a[1] # 0
    [] call.id = "burnTreasuryProfit" -> ~game.activeBet /\ game.balance >= game.floor + a[1]
    [] OTHER -> TRUE

(* The game after a call that it accepts: rates and bounds are not read here.    *)
GameAfter(call) ==
  LET a == call.args IN
  CASE call.id = "setEconomicsGovernable" -> [game EXCEPT !.economicsGovernable = (a[1] = 1)]
    [] call.id = "setTreasuryFloor" -> [game EXCEPT !.floor = a[1]]
    [] call.id = "burnTreasuryProfit" -> [game EXCEPT !.balance = @ - a[1]]
    [] call.id = "setGovernance" -> [game EXCEPT !.governance = "other"]
    [] call.id = "setGuardian" -> [game EXCEPT !.guardian = "other"]
    [] OTHER -> game

OnTimelock(call) == call.id = "revokeRole"
(* Others give governance, or the guardian's role, or the proposer's, to another. *)
Authority(call) == call.id \in {"setGovernance", "setGuardian", "revokeRole"}

(* A call by the holder of governance, or by the timelock on itself.           *)
Accepted(call, sender) ==
  IF OnTimelock(call) THEN sender = "timelock" ELSE game.governance = sender /\ GameAccepts(call)
Apply(call) ==
  /\ game' = GameAfter(call)
  /\ changes' = IF Authority(call) THEN changes + 1 ELSE changes

Queued(id) == \E q \in timelock.queued : q.id = id
Stateof(id) ==
  IF id \in timelock.done THEN "executed"
  ELSE IF \E q \in timelock.queued : q.id = id /\ q.readyAt <= now THEN "ready"
  ELSE IF Queued(id) THEN "waiting" ELSE "cancelled"   \* Unset, for an id seen scheduled

CanSchedule(id) == Len(timelock.log) < MaxLog /\ ~Queued(id) /\ id \notin timelock.done
Scheduled(id) ==
  LET op == [id |-> id, readyAt |-> now + MinDelay]
  IN [timelock EXCEPT !.log = Append(@, op), !.queued = @ \cup {op}]
Dequeued(id) == [timelock EXCEPT !.queued = {q \in @ : q.id # id}]

(* The operation runs if it is ready and its call is accepted.                  *)
CanExecute(id) == Stateof(id) = "ready" /\ Accepted(id.call, "timelock")
Execution(id) ==
  /\ Apply(id.call)
  /\ timelock' = [Dequeued(id) EXCEPT
       !.done = @ \cup {id},
       !.roles = IF OnTimelock(id.call) THEN @ \ {"proposer"} ELSE @]

------------------------------------------------------------------------------
(* What the console may do (access.ts, useTimelockRoles.ts)                    *)

mode ==
  IF view = None THEN "unknown"
  ELSE IF view.governance = "timelock" /\ held # None THEN "timelock"
  ELSE IF view.governance = "me" THEN "direct" ELSE "foreign"

HoldsRole(role) == mode = "timelock" /\ role \in held.roles

operatorAccess_ProposerCancels ==
  [canQueue |-> HoldsRole("proposer"), canExecuteQueued |-> HoldsRole("executor"),
   canCancel |-> HoldsRole("proposer"),
   canChangeParamsDirectly |-> mode = "direct",
   canPause |-> view # None /\ view.guardian = "me"]
operatorAccess ==
  [canQueue |-> HoldsRole("proposer"), canExecuteQueued |-> HoldsRole("executor"),
   canCancel |-> HoldsRole("canceller"),
   canChangeParamsDirectly |-> mode = "direct",
   canPause |-> view # None /\ view.guardian = "me"]

(* When all that a decision was made from was read at one state of authority.    *)
ReadAt == IF mode = "timelock" /\ held.at # view.at THEN 0 ELSE view.at

------------------------------------------------------------------------------
(* Sending and landing (AdminConsole.tsx)                                      *)

(* run: one key says what awaits confirmation; the key of another action that     *)
(* is sent meanwhile replaces it.                                              *)
Send(kind, what, key) ==
  /\ busy # key /\ Cardinality(sent) < MaxSent
  /\ busy' = key
  /\ sent' = sent \cup {[kind |-> kind, what |-> what, key |-> key, at |-> ReadAt]}
  /\ UNCHANGED <<chainVars, view, held, list, loads, reading, states, events>>

(* What is typed for the chosen operation, by hand or from the profit button, is   *)
(* an input: each operation keeps its own.  An amount that no uint256 holds passes *)
(* the form and throws in the encoding.                                        *)
TooWide(raw) == \E i \in DOMAIN raw : raw[i] > MAX_UINT

submitChange(input) ==
  /\ parseAdminOp(input.id, input.raw) /\ ~TooWide(input.raw)
  /\ LET call == [id |-> input.id, args |-> input.raw] IN
     \/ /\ operatorAccess.canQueue
        /\ \A t \in sent : t.kind = "schedule" => t.what.salt # Len(timelock.log) + 1
        /\ Send("schedule", [call |-> call, salt |-> Len(timelock.log) + 1], <<"submit">>)
     \/ ~operatorAccess.canQueue /\ operatorAccess.canChangeParamsDirectly
        /\ Send("direct", [call |-> call, salt |-> 0], <<"submit">>)

(* The query's key is the list of reads itself, so an answer to another list is not  *)
(* data of this one: there is then nothing for the length check to pass.  (With     *)
(* data kept from key to key, the lengths alone would decide: the slip.)            *)
Ids(rows) == [i \in DOMAIN rows |-> rows[i].id]
aligned_ByLength == Len(states.ids) = Len(list)
aligned == states.ids = Ids(list)
status(i) == IF aligned THEN states.values[i] ELSE "unknown"

(* The row's button re-supplies the operation as the logs gave it.              *)
executeOperation(i) ==
  /\ operatorAccess.canExecuteQueued /\ status(i) = "ready"
  /\ Send("execute", [call |-> list[i].id.call, salt |-> list[i].salt], <<"row", list[i].id>>)
cancelOperation(i) ==
  /\ operatorAccess.canCancel /\ status(i) \in {"waiting", "ready"}
  /\ Send("cancel", list[i].id, <<"row", list[i].id>>)

NoCall == [call |-> [id |-> "", args |-> <<>>], salt |-> 0]
togglePause ==
  /\ operatorAccess.canPause
  /\ Send(IF view.paused THEN "unpause" ELSE "pause", NoCall, <<"pause">>)

(* refresh: the loads under way are dropped and one is begun.                   *)
Unseen == [calls |-> Blank, salts |-> Blank]
Confirmed(t) ==
  /\ sent' = sent \ {t}
  /\ busy' = Blank
  /\ loads' = IF held = None THEN loads ELSE <<Unseen>>
  /\ UNCHANGED <<now, view, held, list, reading, states, events>>

(* A role the timelock or the game asks for, for each kind of transaction.       *)
Permitted(t) ==
  CASE t.kind = "schedule" -> "proposer" \in timelock.roles /\ game.governance = "timelock"
    [] t.kind = "execute" -> "executor" \in timelock.roles
    [] t.kind = "cancel" -> "canceller" \in timelock.roles
    [] t.kind = "direct" -> game.governance = "me"
    [] OTHER -> game.guardian = "me"

LandSchedule(t) ==
  /\ t.kind = "schedule" /\ "proposer" \in timelock.roles /\ CanSchedule(t.what)
  /\ timelock' = Scheduled(t.what)
  /\ UNCHANGED <<game, changes>> /\ Confirmed(t)
LandExecute(t) ==
  /\ t.kind = "execute" /\ Permitted(t) /\ CanExecute(t.what)
  /\ Execution(t.what) /\ Confirmed(t)
LandCancel(t) ==
  /\ t.kind = "cancel" /\ Permitted(t) /\ Queued(t.what)
  /\ timelock' = Dequeued(t.what)
  /\ UNCHANGED <<game, changes>> /\ Confirmed(t)
LandDirect(t) ==
  /\ t.kind = "direct" /\ Accepted(t.what.call, "me")
  /\ Apply(t.what.call) /\ UNCHANGED timelock /\ Confirmed(t)
LandPause(t) ==
  /\ t.kind \in {"pause", "unpause"} /\ Permitted(t)
  /\ game.paused = (t.kind = "unpause")
  /\ game' = [game EXCEPT !.paused = ~@]
  /\ UNCHANGED <<timelock, changes>> /\ Confirmed(t)

(* Refused by the wallet or reverted: the failure is shown.                     *)
Refused(t) ==
  /\ sent' = sent \ {t}
  /\ busy' = Blank
  /\ UNCHANGED <<chainVars, view, held, list, loads, reading, states, events>>

------------------------------------------------------------------------------
(* Reading (useGameAdmin.ts, useTimelockRoles.ts, useTimelockQueue.ts)         *)

ReadGame ==
  /\ view' = [governance |-> game.governance, guardian |-> game.guardian, paused |-> game.paused,
              balance |-> game.balance, floor |-> game.floor, at |-> changes]
  /\ held' = IF game.governance = "timelock" THEN held ELSE None
  /\ UNCHANGED <<chainVars, list, loads, reading, states, busy, sent, events>>

(* The probe finds a timelock where governance is, and asks it.  The queue of a   *)
(* timelock that was not known begins to load.                                  *)
ReadRoles ==
  /\ view # None /\ view.governance = "timelock"
  /\ held' = [roles |-> timelock.roles, at |-> changes]
  /\ loads' = IF held = None THEN <<Unseen>> ELSE loads
  /\ UNCHANGED <<chainVars, view, list, reading, states, busy, sent, events>>

(* The effect is undone when there is no timelock any more.                     *)
NoTimelock ==
  /\ held = None /\ (list # <<>> \/ loads # <<>>)
  /\ list' = <<>> /\ loads' = <<>>
  /\ UNCHANGED <<chainVars, view, held, reading, states, busy, sent, events>>

Reads(change) ==
  /\ change
  /\ UNCHANGED <<chainVars, view, held, reading, states, busy, sent, events>>

(* The interval: nothing waits for the load before.                            *)
StartLoad ==
  /\ held # None /\ Len(loads) < MaxLoads
  /\ Reads(loads' = Append(loads, Unseen) /\ UNCHANGED list)

(* The two queries are answered each at its own block.                          *)
Answer(l, half) ==
  /\ l \in DOMAIN loads /\ loads[l][half] = Blank
  /\ Reads(loads' = [loads EXCEPT ![l][half] = Len(timelock.log)] /\ UNCHANGED list)

Without(l) == SubSeq(loads, 1, l - 1) \o SubSeq(loads, l + 1, Len(loads))

(* Calls joined with salts by id, newest first; without its salt a call is taken  *)
(* to have none.                                                              *)
Rows(calls, salts) ==
  [i \in 1..Least(calls, MAX_OPERATIONS) |->
     LET id == timelock.log[calls + 1 - i].id
     IN [id |-> id,
         salt |-> IF \E j \in 1..salts : timelock.log[j].id = id THEN id.salt ELSE 0]]

FinishLoad(l) ==
  /\ l \in DOMAIN loads /\ Blank \notin {loads[l].calls, loads[l].salts}
  /\ Reads(/\ list' = Rows(loads[l].calls, loads[l].salts)
           /\ loads' = Without(l))

(* A failed load says that the queue cannot be read, and leaves the rows.        *)
FailLoad(l) == l \in DOMAIN loads /\ Reads(loads' = Without(l) /\ UNCHANGED list)

AskStates ==
  /\ held # None /\ list # <<>> /\ reading # Ids(list)
  /\ reading' = Ids(list)
  /\ UNCHANGED <<chainVars, view, held, list, loads, states, busy, sent, events>>
AnswerStates ==
  /\ reading # Blank
  /\ states' = [ids |-> reading, values |-> [i \in DOMAIN reading |-> Stateof(reading[i])]]
  /\ reading' = Blank
  /\ UNCHANGED <<chainVars, view, held, list, loads, busy, sent, events>>

------------------------------------------------------------------------------
(* Everybody else                               *)

Event == events < MaxEvents /\ events' = events + 1

Others(change) == Event /\ change /\ UNCHANGED <<now, consoleVars>>

OtherSchedules(call) ==
  /\ CanSchedule([call |-> call, salt |-> 0])
  /\ Others(timelock' = Scheduled([call |-> call, salt |-> 0]) /\ UNCHANGED <<game, changes>>)
OtherExecutes(id) == CanExecute(id) /\ Others(Execution(id))
OtherCancels(id) ==
  Queued(id) /\ Others(timelock' = Dequeued(id) /\ UNCHANGED <<game, changes>>)
HandOver ==
  /\ game.governance = "me"
  /\ Others(/\ game' = [game EXCEPT !.governance = "timelock"]
            /\ changes' = changes + 1 /\ UNCHANGED timelock)
BetPlaced ==
  /\ ~game.activeBet /\ ~game.paused
  /\ Others(/\ game' = [game EXCEPT !.activeBet = TRUE, !.balance = @ + 1]
            /\ UNCHANGED <<timelock, changes>>)
BetResolved(paid) ==
  /\ game.activeBet /\ paid <= game.balance
  /\ Others(/\ game' = [game EXCEPT !.activeBet = FALSE, !.balance = @ - paid]
            /\ UNCHANGED <<timelock, changes>>)
Tick ==
  /\ now < MaxTime
  /\ now' = now + 1
  /\ UNCHANGED <<game, timelock, changes, consoleVars, events>>

------------------------------------------------------------------------------
Init ==
  /\ \E governance \in {"me", "timelock"}, guardian \in {"me", "other"}, unlocked \in BOOLEAN :
       game = [governance |-> governance, guardian |-> guardian, paused |-> FALSE,
               economicsGovernable |-> unlocked, activeBet |-> FALSE, balance |-> 3, floor |-> 1]
  /\ \E roles \in RoleSets :
       timelock = [log |-> <<>>, queued |-> {}, done |-> {}, roles |-> roles]
  /\ now = 0 /\ changes = 1 /\ events = 0
  /\ view = None /\ held = None
  /\ list = <<>> /\ loads = <<>> /\ reading = Blank
  /\ states = [ids |-> <<>>, values |-> <<>>]
  /\ busy = Blank /\ sent = {}

Operator(inputs) ==
  \/ ReadGame \/ ReadRoles \/ NoTimelock
  \/ (\E input \in inputs : submitChange(input)) \/ togglePause
  \/ \E t \in sent : \/ LandSchedule(t) \/ LandExecute(t) \/ LandCancel(t) \/ LandDirect(t)
                     \/ LandPause(t) \/ Refused(t)
QueuePanel ==
  \/ StartLoad \/ AskStates \/ AnswerStates
  \/ \E l \in DOMAIN loads :
       FinishLoad(l) \/ FailLoad(l) \/ \E half \in {"calls", "salts"} : Answer(l, half)
  \/ \E i \in DOMAIN list : executeOperation(i) \/ cancelOperation(i)
Everybody(calls) ==
  \/ \E call \in calls : OtherSchedules(call)
  \/ \E q \in timelock.queued : OtherExecutes(q.id) \/ OtherCancels(q.id)
  \/ HandOver \/ Tick
Players == BetPlaced \/ (\E paid \in {0, 2} : BetResolved(paid))

Next == Operator(Inputs) \/ QueuePanel \/ Everybody(OthersCalls) \/ Players

Spec == Init /\ [][Next]_vars

------------------------------------------------------------------------------
ConsoleCalls ==
  {t.what.call : t \in {s \in sent : s.kind \in {"schedule", "direct"}}}
    \cup {q.id.call : q \in {o \in timelock.queued : o.id.salt # 0}}

(* What the form lets through can fail only for the reasons that the console     *)
(* warns of, and fails for each of those: whatever happens to the game after a    *)
(* change was queued, the game accepts it exactly when a console that knew the     *)
(* game of this moment would show no warning.                                   *)
PreflightIsExact ==
  \A call \in ConsoleCalls :
    (preflightAdminOp(call.id, call.args, game) = {}) <=> GameAccepts(call)

(* A row shows the state of its own operation: none has a live Execute button       *)
(* whose delay has not passed, though rows shift as operations are scheduled, as   *)
(* late loads replace newer ones, and as states are answered for another list.  Of *)
(* an id that was cancelled and scheduled again, either delay counts.           *)
ExecuteOnlyWhenReady ==
  \A i \in DOMAIN list :
    status(i) = "ready" =>
      \E n \in DOMAIN timelock.log : /\ timelock.log[n].id = list[i].id
                                     /\ timelock.log[n].readyAt <= now

(* Nobody is offered what they may not do: a transaction can lack its role on the  *)
(* chain only if governance, the guardian or the roles changed after the console   *)
(* read them, or between its reads.                                            *)
OfferedIsPermitted == \A t \in sent : t.at = changes => Permitted(t)
==============================================================================
