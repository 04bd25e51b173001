-------------------------- MODULE AdminConsoleProofs --------------------------
(***************************************************************************)
(* The console offers what the chain would take: nobody is offered a          *)
(* transaction that they lack the role for, and the warnings of the form are   *)
(* exactly the reasons for which the game may refuse what the form let through. *)
(***************************************************************************)
EXTENDS AdminConsole, SequenceTheorems, TLAPS

------------------------------------------------------------------------------
(* Roles                                                                      *)

(* The records keep their fields.                                             *)
Shape ==
  /\ game = [governance |-> game.governance, guardian |-> game.guardian, paused |-> game.paused,
             economicsGovernable |-> game.economicsGovernable, activeBet |-> game.activeBet,
             balance |-> game.balance, floor |-> game.floor]
  /\ timelock = [log |-> timelock.log, queued |-> timelock.queued, done |-> timelock.done,
                 roles |-> timelock.roles]

(* What the console read of authority holds until authority changes.            *)
ViewHolds ==
  view # None =>
    /\ view.at \in Nat /\ view.at <= changes
    /\ view.at = changes => view.governance = game.governance /\ view.guardian = game.guardian
RolesHold ==
  held # None =>
    /\ held.at \in Nat /\ held.at <= changes
    /\ held.at = changes => held.roles = timelock.roles
SentHold ==
  \A t \in sent : t.at \in Nat /\ t.at <= changes /\ (t.at = changes => Permitted(t))

AuthorityInv ==
  changes \in Nat \ {0} /\ Shape /\ ViewHolds /\ RolesHold /\ SentHold

(* A call leaves the holders of authority alone, or is counted as a change.      *)
LEMMA ApplyKeepsAuthority ==
  ASSUME Shape, NEW call, Apply(call), changes \in Nat
  PROVE  \/ changes' = changes + 1
         \/ /\ changes' = changes /\ ~OnTimelock(call)
            /\ game'.governance = game.governance /\ game'.guardian = game.guardian
<1>1. CASE Authority(call)
  BY <1>1 DEF Apply
<1>2. CASE ~Authority(call)
  <2>1. call.id \notin {"setGovernance", "setGuardian", "revokeRole"}
    BY <1>2 DEF Authority
  <2>2. game' \in {game, [game EXCEPT !.economicsGovernable = (call.args[1] = 1)],
                   [game EXCEPT !.floor = call.args[1]],
                   [game EXCEPT !.balance = @ - call.args[1]]}
    BY <2>1 DEF Apply, GameAfter
  <2>3. game'.governance = game.governance /\ game'.guardian = game.guardian
    BY <2>2 DEF Shape
  <2>4. QED
    BY <1>2, <2>1, <2>3 DEF Apply, OnTimelock
<1>3. QED
  BY <1>1, <1>2

(* And so the records keep their fields.                                      *)
LEMMA ApplyKeepsShape ==
  ASSUME Shape, NEW call, Apply(call)
  PROVE  game' = [governance |-> game'.governance, guardian |-> game'.guardian,
                  paused |-> game'.paused, economicsGovernable |-> game'.economicsGovernable,
                  activeBet |-> game'.activeBet, balance |-> game'.balance, floor |-> game'.floor]
<1>1. game' \in {game, [game EXCEPT !.economicsGovernable = (call.args[1] = 1)],
                 [game EXCEPT !.floor = call.args[1]],
                 [game EXCEPT !.balance = @ - call.args[1]],
                 [game EXCEPT !.governance = "other"], [game EXCEPT !.guardian = "other"]}
  BY DEF Apply, GameAfter
<1>2. QED
  BY <1>1 DEF Shape

(* Whatever happens to the chain is a change of authority or keeps it.           *)
Kept ==
  \/ changes' = changes + 1
  \/ /\ changes' = changes
     /\ game'.governance = game.governance /\ game'.guardian = game.guardian
     /\ timelock'.roles = timelock.roles

(* Then what was read before still holds, or counts as old.                     *)
LEMMA OldReadsHold ==
  ASSUME AuthorityInv, Kept, Shape', view' \in {view, None}, held' \in {held, None},
         sent' \subseteq sent
  PROVE  AuthorityInv'
<1>1. changes' \in Nat \ {0} /\ changes' >= changes
  BY DEF AuthorityInv, Kept
<1>2. ViewHolds'
  BY <1>1 DEF AuthorityInv, ViewHolds, Kept
<1>3. RolesHold'
  BY <1>1 DEF AuthorityInv, RolesHold, Kept
<1>4. ASSUME NEW t \in sent' PROVE t.at \in Nat /\ t.at <= changes'
                                   /\ (t.at = changes' => Permitted(t)')
  <2>1. t.at \in Nat /\ t.at <= changes /\ (t.at = changes => Permitted(t))
    BY DEF AuthorityInv, SentHold
  <2>2. CASE changes' = changes + 1
    BY <2>1, <2>2 DEF AuthorityInv
  <2>3. CASE changes' # changes + 1
    <3>1. Permitted(t)' <=> Permitted(t)
      BY <2>3 DEF Kept, Permitted
    <3>2. QED
      BY <2>1, <2>3, <3>1 DEF Kept
  <2>4. QED
    BY <2>2, <2>3
<1>5. QED
  BY <1>1, <1>2, <1>3, <1>4 DEF AuthorityInv, SentHold

(* What the timelock does to an operation.                                     *)
LEMMA TimelockSteps ==
  ASSUME AuthorityInv, NEW id
  PROVE  /\ Dequeued(id).roles = timelock.roles /\ Scheduled(id).roles = timelock.roles
         /\ timelock' \in {timelock, Dequeued(id), Scheduled(id)} =>
              timelock' = [log |-> timelock'.log, queued |-> timelock'.queued,
                           done |-> timelock'.done, roles |-> timelock'.roles]
BY DEF AuthorityInv, Shape, Dequeued, Scheduled

(* A call the timelock makes leaves its roles alone, or is counted as a change.    *)
LEMMA ExecutionKept ==
  ASSUME AuthorityInv, NEW id, Execution(id)
  PROVE  Kept /\ Shape'
<1>1. timelock' = [Dequeued(id) EXCEPT
         !.done = @ \cup {id},
         !.roles = IF OnTimelock(id.call) THEN @ \ {"proposer"} ELSE @]
  BY DEF Execution
<1>2. timelock' = [log |-> timelock'.log, queued |-> timelock'.queued,
                   done |-> timelock'.done, roles |-> timelock'.roles]
  BY <1>1 DEF AuthorityInv, Shape, Dequeued
<1>3. ~OnTimelock(id.call) => timelock'.roles = timelock.roles
  BY <1>1 DEF AuthorityInv, Shape, Dequeued
<1>4. QED
  BY <1>2, <1>3, ApplyKeepsAuthority, ApplyKeepsShape DEF Execution, AuthorityInv, Kept, Shape

(* Steps of others, of the clock, and landings: no decision of the console is made. *)
LEMMA ChainSteps ==
  ASSUME AuthorityInv
  PROVE  /\ (\E t \in sent : \/ LandSchedule(t) \/ LandExecute(t) \/ LandCancel(t)
                             \/ LandDirect(t) \/ LandPause(t) \/ Refused(t)) => AuthorityInv'
         /\ Everybody(OthersCalls) => AuthorityInv'
         /\ Players => AuthorityInv'
<1>1. ASSUME NEW t \in sent, LandSchedule(t) \/ LandExecute(t) \/ LandCancel(t)
                             \/ LandDirect(t) \/ LandPause(t) \/ Refused(t)
      PROVE  AuthorityInv'
  <2>1. sent' \subseteq sent /\ view' = view /\ held' = held
    BY <1>1 DEF LandSchedule, LandExecute, LandCancel, LandDirect, LandPause, Refused, Confirmed
  <2>2. CASE LandSchedule(t) \/ LandCancel(t) \/ Refused(t)
    <3>1. Kept /\ Shape'
      BY <2>2, TimelockSteps DEF AuthorityInv, Shape, Kept, LandSchedule, LandCancel, Refused,
                                chainVars
    <3>2. QED
      BY <2>1, <3>1, OldReadsHold
  <2>3. CASE LandExecute(t)
    BY <2>1, <2>3, ExecutionKept, OldReadsHold DEF LandExecute
  <2>4. CASE LandDirect(t)
    <3>1. Kept /\ Shape'
      BY <2>4, ApplyKeepsAuthority, ApplyKeepsShape DEF LandDirect, AuthorityInv, Shape, Kept
    <3>2. QED
      BY <2>1, <3>1, OldReadsHold
  <2>5. CASE LandPause(t)
    <3>1. Kept /\ Shape'
      BY <2>5 DEF LandPause, AuthorityInv, Shape, Kept
    <3>2. QED
      BY <2>1, <3>1, OldReadsHold
  <2>6. QED
    BY <1>1, <2>2, <2>3, <2>4, <2>5
<1>2. ASSUME Everybody(OthersCalls) PROVE AuthorityInv'
  <2>1. sent' = sent /\ view' = view /\ held' = held
    BY <1>2 DEF Everybody, OtherSchedules, OtherExecutes, OtherCancels, HandOver, Others, Tick,
                consoleVars
  <2>2. ASSUME NEW call, OtherSchedules(call) PROVE Kept /\ Shape'
    BY <2>2, TimelockSteps DEF OtherSchedules, Others, AuthorityInv, Shape, Kept
  <2>3. ASSUME NEW id, OtherExecutes(id) PROVE Kept /\ Shape'
    BY <2>3, ExecutionKept DEF OtherExecutes, Others
  <2>4. ASSUME NEW id, OtherCancels(id) PROVE Kept /\ Shape'
    BY <2>4, TimelockSteps DEF OtherCancels, Others, AuthorityInv, Shape, Kept
  <2>5. CASE HandOver
    <3>1. game' = [game EXCEPT !.governance = "timelock"] /\ timelock' = timelock
          /\ changes' = changes + 1
      BY <2>5 DEF HandOver, Others
    <3>2. Shape'
      BY <3>1 DEF AuthorityInv, Shape
    <3>3. QED
      BY <2>1, <3>1, <3>2, OldReadsHold DEF Kept
  <2>6. CASE Tick
    <3>1. game' = game /\ timelock' = timelock /\ changes' = changes
      BY <2>6 DEF Tick
    <3>2. Shape'
      BY <3>1 DEF AuthorityInv, Shape
    <3>3. QED
      BY <2>1, <3>1, <3>2, OldReadsHold DEF Kept
  <2>7. ASSUME NEW call \in OthersCalls, OtherSchedules(call) PROVE AuthorityInv'
    BY <2>1, <2>2, <2>7, OldReadsHold
  <2>8. ASSUME NEW q \in timelock.queued, OtherExecutes(q.id) \/ OtherCancels(q.id)
        PROVE  AuthorityInv'
    BY <2>1, <2>3, <2>4, <2>8, OldReadsHold
  <2>9. QED
    BY <1>2, <2>5, <2>6, <2>7, <2>8 DEF Everybody
<1>3. ASSUME Players PROVE AuthorityInv'
  <2>1. sent' = sent /\ view' = view /\ held' = held
    BY <1>3 DEF Players, BetPlaced, BetResolved, Others, consoleVars
  <2>2. Kept /\ Shape'
    BY <1>3 DEF Players, BetPlaced, BetResolved, Others, AuthorityInv, Shape, Kept
  <2>3. QED
    BY <2>1, <2>2, OldReadsHold
<1>4. QED
  BY <1>1, <1>2, <1>3

(* What is read is the chain's.                                                *)
LEMMA ReadSteps ==
  ASSUME AuthorityInv, ReadGame \/ ReadRoles
  PROVE  AuthorityInv'
<1>1. Shape' /\ SentHold' /\ changes' = changes
  BY DEF AuthorityInv, Shape, SentHold, ReadGame, ReadRoles, chainVars, Permitted
<1>2. ViewHolds'
  BY DEF AuthorityInv, ViewHolds, ReadGame, ReadRoles, chainVars
<1>3. RolesHold'
  BY DEF AuthorityInv, RolesHold, ReadGame, ReadRoles, chainVars
<1>4. QED
  BY <1>1, <1>2, <1>3 DEF AuthorityInv

(* A role that the console finds in reads of one state of authority is one that    *)
(* its account has, as long as that state lasts.                               *)
LEMMA OfferIsSound ==
  ASSUME AuthorityInv, ReadAt = changes
  PROVE  /\ operatorAccess.canQueue => Permitted([kind |-> "schedule"])
         /\ operatorAccess.canExecuteQueued => Permitted([kind |-> "execute"])
         /\ operatorAccess.canCancel => Permitted([kind |-> "cancel"])
         /\ operatorAccess.canChangeParamsDirectly => Permitted([kind |-> "direct"])
         /\ operatorAccess.canPause =>
              Permitted([kind |-> "pause"]) /\ Permitted([kind |-> "unpause"])
<1>1. view.at = changes /\ (mode = "timelock" => held.at = view.at)
  BY DEF ReadAt, AuthorityInv
<1>2. view # None => view.governance = game.governance /\ view.guardian = game.guardian
  BY <1>1 DEF AuthorityInv, ViewHolds
<1>3. mode \in {"timelock", "direct"} => view # None /\ game.governance = view.governance
  BY <1>2 DEF mode
<1>4. mode = "timelock" => /\ held # None /\ view.governance = "timelock"
                           /\ held.roles = timelock.roles
  BY <1>1 DEF mode, AuthorityInv, RolesHold
<1>5. mode = "direct" => view.governance = "me"
  BY DEF mode
<1>6. QED
  BY <1>2, <1>3, <1>4, <1>5 DEF operatorAccess, HoldsRole, Permitted

(* Nothing is offered before the game has been read.                            *)
LEMMA OfferIsRead ==
  ASSUME \/ operatorAccess.canQueue \/ operatorAccess.canExecuteQueued
         \/ operatorAccess.canCancel \/ operatorAccess.canChangeParamsDirectly
         \/ operatorAccess.canPause
  PROVE  view # None
BY DEF operatorAccess, HoldsRole, mode

(* So whatever is sent is permitted if its reads are of the authority of now.     *)
LEMMA SendHolds ==
  ASSUME AuthorityInv, view # None, NEW kind, NEW what, NEW key, Send(kind, what, key),
         ReadAt = changes => Permitted([kind |-> kind])
  PROVE  AuthorityInv'
<1> DEFINE new == [kind |-> kind, what |-> what, key |-> key, at |-> ReadAt]
<1>1. /\ sent' = sent \cup {new} /\ view' = view /\ held' = held
      /\ game' = game /\ timelock' = timelock /\ changes' = changes
  BY DEF Send, chainVars
<1>2. Shape' /\ ViewHolds' /\ RolesHold' /\ changes' \in Nat \ {0}
  BY <1>1 DEF AuthorityInv, Shape, ViewHolds, RolesHold
<1>3. new.kind = kind /\ new.at = ReadAt
  OBVIOUS
<1>4. ReadAt \in Nat /\ ReadAt <= changes
  BY DEF ReadAt, AuthorityInv, ViewHolds
<1>5. ASSUME NEW t \in sent' PROVE t.at \in Nat /\ t.at <= changes'
                                   /\ (t.at = changes' => Permitted(t)')
  <2>1. CASE t \in sent
    BY <1>1, <2>1 DEF AuthorityInv, SentHold, Permitted
  <2>2. CASE t = new
    <3>1. t.kind = kind /\ t.at = ReadAt
      BY <2>2
    <3>2. Permitted(t)' <=> Permitted([kind |-> kind])
      BY <1>1, <3>1 DEF Permitted
    <3>3. QED
      BY <1>1, <1>4, <3>1, <3>2
  <2>3. QED
    BY <1>1, <2>1, <2>2
<1>6. QED
  BY <1>2, <1>5 DEF AuthorityInv, SentHold

(* Nothing else touches authority or what was read of it.                       *)
LEMMA QueueSteps ==
  ASSUME AuthorityInv,
         \/ StartLoad \/ AskStates \/ AnswerStates \/ NoTimelock
         \/ \E l \in DOMAIN loads :
              FinishLoad(l) \/ FailLoad(l) \/ \E half \in {"calls", "salts"} : Answer(l, half)
         \/ UNCHANGED vars
  PROVE  AuthorityInv'
<1>1. /\ game' = game /\ timelock' = timelock /\ changes' = changes
      /\ view' = view /\ held' = held /\ sent' = sent
  BY DEF StartLoad, AskStates, AnswerStates, NoTimelock, FinishLoad, FailLoad, Answer, Reads,
         vars, chainVars, consoleVars
<1>2. Shape' /\ Kept
  BY <1>1 DEF AuthorityInv, Shape, Kept
<1>3. QED
  BY <1>1, <1>2, OldReadsHold

(* The operator's presses: each is a transaction that access allowed.             *)
LEMMA PressSteps ==
  ASSUME AuthorityInv,
         \/ \E input \in Inputs : submitChange(input)
         \/ togglePause
         \/ \E i \in DOMAIN list : executeOperation(i) \/ cancelOperation(i)
  PROVE  AuthorityInv'
<1>1. ASSUME NEW input \in Inputs, submitChange(input) PROVE AuthorityInv'
  <2> DEFINE call == [id |-> input.id, args |-> input.raw]
  <2>1. CASE /\ operatorAccess.canQueue
             /\ Send("schedule", [call |-> call, salt |-> Len(timelock.log) + 1], <<"submit">>)
    BY <2>1, SendHolds, OfferIsSound, OfferIsRead
  <2>2. CASE /\ operatorAccess.canChangeParamsDirectly
             /\ Send("direct", [call |-> call, salt |-> 0], <<"submit">>)
    BY <2>2, SendHolds, OfferIsSound, OfferIsRead
  <2>3. QED
    BY <1>1, <2>1, <2>2 DEF submitChange
<1>2. CASE togglePause
  <2>1. /\ operatorAccess.canPause
        /\ Send("pause", NoCall, <<"pause">>) \/ Send("unpause", NoCall, <<"pause">>)
    BY <1>2 DEF togglePause
  <2>2. QED
    BY <2>1, SendHolds, OfferIsSound, OfferIsRead
<1>3. ASSUME NEW i \in DOMAIN list, executeOperation(i) PROVE AuthorityInv'
  BY <1>3, SendHolds, OfferIsSound, OfferIsRead DEF executeOperation
<1>4. ASSUME NEW i \in DOMAIN list, cancelOperation(i) PROVE AuthorityInv'
  BY <1>4, SendHolds, OfferIsSound, OfferIsRead DEF cancelOperation
<1>5. QED
  BY <1>1, <1>2, <1>3, <1>4

(* What was read of authority, and what was sent on it, holds or counts as old.     *)
LEMMA AuthorityInvariant == Spec => []AuthorityInv
<1>1. Init => AuthorityInv
  BY DEF Init, AuthorityInv, Shape, ViewHolds, RolesHold, SentHold
<1>2. AuthorityInv /\ [Next]_vars => AuthorityInv'
  BY ChainSteps, ReadSteps, QueueSteps, PressSteps DEF Next, Operator, QueuePanel
<1>3. QED
  BY <1>1, <1>2, PTL DEF Spec

(* A transaction can lack its role only if authority changed after the console    *)
(* read it, or between its reads (operatorAccess, useTimelockRoles, useGameAdmin). *)
THEOREM OffersOnlyPermitted == Spec => []OfferedIsPermitted
<1>1. AuthorityInv => OfferedIsPermitted
  BY DEF AuthorityInv, SentHold, OfferedIsPermitted
<1>2. QED
  BY <1>1, AuthorityInvariant, PTL

------------------------------------------------------------------------------
(* Warnings                                                                   *)

(* What the form let through: every field in its bounds, and the fields together. *)
Formed(call) ==
  /\ call.id \in AdminOps
  /\ \A i \in DOMAIN fields(call.id) :
       call.args[i] \in Nat /\ parseField(fields(call.id)[i], call.args[i])
  /\ crossCheck(call.id, call.args)

GameTyped ==
  /\ game.economicsGovernable \in BOOLEAN /\ game.activeBet \in BOOLEAN
  /\ game.balance \in Nat /\ game.floor \in Nat

CallsFormed ==
  /\ \A t \in sent : t.kind \in {"schedule", "direct"} => Formed(t.what.call)
  /\ \A q \in timelock.queued : Formed(q.id.call) \/ (q.id.salt = 0 /\ q.id.call \in OthersCalls)

WarningInv == GameTyped /\ CallsFormed

(* The form's verdict, field by field.                                         *)
LEMMA ParsedIsFormed ==
  ASSUME NEW input \in Inputs, parseAdminOp(input.id, input.raw)
  PROVE  Formed([id |-> input.id, args |-> input.raw])
<1> DEFINE bad == {i \in DOMAIN fields(input.id) : ~parseField(fields(input.id)[i], input.raw[i])}
<1>1. errors(input.id, input.raw) = {}
  BY DEF parseAdminOp
<1>2. errors(input.id, input.raw)
        = IF bad = {} /\ ~crossCheck(input.id, input.raw) THEN {1} ELSE bad
  BY DEF errors
<1>3. bad = {} /\ crossCheck(input.id, input.raw)
  BY <1>1, <1>2
<1>4. \A i \in DOMAIN fields(input.id) :
        parseField(fields(input.id)[i], input.raw[i]) /\ input.raw[i] \in Nat
  BY <1>3, ConsoleAssumption DEF parseField
<1>5. QED
  BY <1>3, <1>4, ConsoleAssumption DEF Formed

(* The three warnings.                                                        *)
LEMMA NoWarning ==
  ASSUME NEW id, NEW args, NEW g
  PROVE  preflightAdminOp(id, args, g) = {} <=>
           /\ ~(needsEconomicsUnlocked(id) /\ ~g.economicsGovernable)
           /\ ~(needsIdleGame(id) /\ g.activeBet)
           /\ ~(id = "burnTreasuryProfit" /\ args[1] > headroom(g))
BY DEF preflightAdminOp

(* Operation by operation, a formed call is refused for just those.              *)
LEMMA WarningsAreExact ==
  ASSUME GameTyped, NEW call, Formed(call)
  PROVE  preflightAdminOp(call.id, call.args, game) = {} <=> GameAccepts(call)
<1>1. call.id \in AdminOps
  BY DEF Formed
<1>2. CASE call.id = "setBurnRate"
  BY <1>2, NoWarning DEF Formed, crossCheck, GameAccepts, needsEconomicsUnlocked, needsIdleGame
<1>3. CASE call.id = "setEconomicsGovernable"
  BY <1>3, NoWarning DEF GameAccepts, needsEconomicsUnlocked, needsIdleGame
<1>4. CASE call.id \in {"setMinBet", "setTreasuryFloor"}
  <2>1. call.args[1] \in Nat /\ call.args[1] >= 1
    <3>1. fields(call.id) = <<AtLeast(1)>>
      BY <1>4 DEF fields
    <3>2. QED
      BY <3>1 DEF Formed, parseField, withinBound, AtLeast
  <2>2. QED
    BY <1>4, <2>1, NoWarning DEF GameTyped, GameAccepts, needsEconomicsUnlocked, needsIdleGame
<1>5. CASE call.id = "setEdge"
  <2>1. /\ call.args[1] \in Nat /\ call.args[1] >= 1
        /\ call.args[2] \in Nat /\ call.args[2] >= 1 /\ call.args[2] <= MAX_ECONOMIC_RATIO
    <3>1. fields(call.id) = <<Between(1, MAX_ECONOMIC_RATIO), Between(1, MAX_ECONOMIC_RATIO)>>
      BY <1>5 DEF fields
    <3>2. QED
      BY <3>1 DEF Formed, parseField, withinBound, Between
  <2>2. call.args[1] <= call.args[2]
    BY <1>5 DEF Formed, crossCheck
  <2>3. QED
    BY <1>5, <2>1, <2>2, NoWarning
    DEF GameTyped, GameAccepts, needsEconomicsUnlocked, needsIdleGame
<1>6. CASE call.id = "setSolvencyCap"
  <2>1. /\ call.args[1] >= MIN_SOLVENCY_CAP_DEN /\ call.args[1] <= MAX_ECONOMIC_RATIO
    <3>1. fields(call.id) = <<Between(MIN_SOLVENCY_CAP_DEN, MAX_ECONOMIC_RATIO)>>
      BY <1>6 DEF fields
    <3>2. QED
      BY <3>1 DEF Formed, parseField, withinBound, Between
  <2>2. QED
    BY <1>6, <2>1, NoWarning DEF GameTyped, GameAccepts, needsEconomicsUnlocked, needsIdleGame
<1>7. CASE call.id = "burnTreasuryProfit"
  <2>1. call.args[1] \in Nat /\ call.args[1] >= 1
    <3>1. fields(call.id) = <<AtLeast(1)>>
      BY <1>7 DEF fields
    <3>2. QED
      BY <3>1 DEF Formed, parseField, withinBound, AtLeast
  <2>2. call.args[1] <= headroom(game) <=> game.balance >= game.floor + call.args[1]
    BY <2>1 DEF headroom, GameTyped
  <2>3. headroom(game) \in Nat
    BY DEF headroom, GameTyped
  <2>4. QED
    BY <1>7, <2>1, <2>2, <2>3, NoWarning
    DEF GameTyped, GameAccepts, needsEconomicsUnlocked, needsIdleGame
<1>8. QED
  BY <1>1, <1>2, <1>3, <1>4, <1>5, <1>6, <1>7 DEF AdminOps

(* Calls of the console and of others have numbers for amounts.                     *)
Sound(call) == Formed(call) \/ call \in OthersCalls

(* An uint256 is a number.                                                     *)
LEMMA SoundAmounts ==
  ASSUME NEW call, Sound(call), call.id \in {"setTreasuryFloor", "burnTreasuryProfit"}
  PROVE  call.args[1] \in Nat
<1>1. fields(call.id) = <<AtLeast(1)>> /\ call.id \in AdminOps
  BY DEF fields, AdminOps
<1>2. 1 \in DOMAIN fields(call.id)
  BY <1>1
<1>3. QED
  BY <1>1, <1>2, ConsoleAssumption DEF Sound, Formed

(* What the game accepts leaves its flags flags and its amounts not negative.        *)
LEMMA ApplyKeepsTyped ==
  ASSUME Shape, GameTyped, NEW call, Sound(call), Apply(call),
         OnTimelock(call) \/ GameAccepts(call)
  PROVE  GameTyped'
<1>1. CASE call.id = "setEconomicsGovernable"
  <2>1. game' = [game EXCEPT !.economicsGovernable = (call.args[1] = 1)]
    BY <1>1 DEF Apply, GameAfter
  <2>2. QED
    BY <2>1 DEF Shape, GameTyped
<1>2. CASE call.id = "setTreasuryFloor"
  <2>1. game' = [game EXCEPT !.floor = call.args[1]] /\ call.args[1] \in Nat
    BY <1>2, SoundAmounts DEF Apply, GameAfter
  <2>2. QED
    BY <2>1 DEF Shape, GameTyped
<1>3. CASE call.id = "burnTreasuryProfit"
  <2>1. game' = [game EXCEPT !.balance = @ - call.args[1]] /\ call.args[1] \in Nat
    BY <1>3, SoundAmounts DEF Apply, GameAfter
  <2>2. game.balance >= game.floor + call.args[1]
    BY <1>3 DEF GameAccepts, OnTimelock
  <2>3. game.balance - call.args[1] \in Nat
    BY <2>1, <2>2 DEF GameTyped
  <2>4. QED
    BY <2>1, <2>3 DEF Shape, GameTyped
<1>4. CASE call.id \notin {"setEconomicsGovernable", "setTreasuryFloor", "burnTreasuryProfit"}
  <2>1. game' \in {game, [game EXCEPT !.governance = "other"], [game EXCEPT !.guardian = "other"]}
    BY <1>4 DEF Apply, GameAfter
  <2>2. QED
    BY <2>1 DEF Shape, GameTyped
<1>5. QED
  BY <1>1, <1>2, <1>3, <1>4

(* No step but a press makes a call that was not there, and what is queued comes   *)
(* from what was sent, or from others.                                         *)
LEMMA NoNewCalls ==
  ASSUME CallsFormed, sent' \subseteq sent,
         \A q \in timelock'.queued :
           \/ q \in timelock.queued
           \/ \E t \in sent : t.kind = "schedule" /\ q.id = t.what
           \/ q.id.salt = 0 /\ q.id.call \in OthersCalls
  PROVE  CallsFormed'
<1>1. \A t \in sent' : t.kind \in {"schedule", "direct"} => Formed(t.what.call)
  BY DEF CallsFormed
<1>2. ASSUME NEW q \in timelock'.queued
      PROVE  Formed(q.id.call) \/ (q.id.salt = 0 /\ q.id.call \in OthersCalls)
  BY <1>2 DEF CallsFormed
<1>3. QED
  BY <1>1, <1>2 DEF CallsFormed

(* What the timelock queues and forgets.                                      *)
LEMMA QueueChanges ==
  ASSUME Shape, NEW id
  PROVE  /\ Dequeued(id).queued \subseteq timelock.queued
         /\ Scheduled(id).queued = timelock.queued \cup {[id |-> id, readyAt |-> now + MinDelay]}
         /\ Execution(id) => timelock'.queued \subseteq timelock.queued
BY DEF Shape, Dequeued, Scheduled, Execution

(* An operation the timelock can execute was queued.                           *)
LEMMA ExecutedIsSound ==
  ASSUME CallsFormed, NEW id, CanExecute(id)
  PROVE  Sound(id.call) /\ (OnTimelock(id.call) \/ GameAccepts(id.call))
<1>1. PICK q \in timelock.queued : q.id = id
  BY DEF CanExecute, Stateof, Queued
<1>2. QED
  BY <1>1 DEF CallsFormed, Sound, CanExecute, Accepted

(* A press adds a call that the form let through, or a transaction without one.    *)
LEMMA SendKeepsFormed ==
  ASSUME WarningInv, NEW kind, NEW what, NEW key, Send(kind, what, key),
         kind \in {"schedule", "direct"} => Formed(what.call)
  PROVE  WarningInv'
<1> DEFINE new == [kind |-> kind, what |-> what, key |-> key, at |-> ReadAt]
<1>1. sent' = sent \cup {new} /\ game' = game /\ timelock' = timelock
  BY DEF Send, chainVars
<1>2. ASSUME NEW t \in sent', t.kind \in {"schedule", "direct"} PROVE Formed(t.what.call)
  <2>1. CASE t \in sent
    BY <1>2, <2>1 DEF WarningInv, CallsFormed
  <2>2. CASE t = new
    <3>1. t.kind = kind /\ t.what = what
      BY <2>2
    <3>2. QED
      BY <1>2, <3>1
  <2>3. QED
    BY <1>1, <2>1, <2>2
<1>3. QED
  BY <1>1, <1>2 DEF WarningInv, GameTyped, CallsFormed

(* Each step keeps the game a game, and every call formed.                      *)
LEMMA WarningSteps ==
  ASSUME AuthorityInv, WarningInv, Next
  PROVE  WarningInv'
<1>1. Shape
  BY DEF AuthorityInv
<1>2. CASE \E input \in Inputs : submitChange(input)
  <2>1. PICK input \in Inputs : submitChange(input)
    BY <1>2
  <2> DEFINE call == [id |-> input.id, args |-> input.raw]
  <2>2. Formed(call)
    BY <2>1, ParsedIsFormed DEF submitChange
  <2>3. \/ Send("schedule", [call |-> call, salt |-> Len(timelock.log) + 1], <<"submit">>)
        \/ Send("direct", [call |-> call, salt |-> 0], <<"submit">>)
    BY <2>1 DEF submitChange
  <2>4. QED
    BY <2>2, <2>3, SendKeepsFormed
<1>3. CASE togglePause \/ \E i \in DOMAIN list : executeOperation(i) \/ cancelOperation(i)
  <2>1. ASSUME togglePause PROVE WarningInv'
    <3>1. Send("pause", NoCall, <<"pause">>) \/ Send("unpause", NoCall, <<"pause">>)
      BY <2>1 DEF togglePause
    <3>2. QED
      BY <3>1, SendKeepsFormed
  <2>2. ASSUME NEW i \in DOMAIN list, executeOperation(i) PROVE WarningInv'
    BY <2>2, SendKeepsFormed DEF executeOperation
  <2>3. ASSUME NEW i \in DOMAIN list, cancelOperation(i) PROVE WarningInv'
    BY <2>3, SendKeepsFormed DEF cancelOperation
  <2>4. QED
    BY <1>3, <2>1, <2>2, <2>3
<1>4. ASSUME NEW t \in sent, LandSchedule(t) \/ LandExecute(t) \/ LandCancel(t)
                             \/ LandDirect(t) \/ LandPause(t) \/ Refused(t)
      PROVE  WarningInv'
  <2>1. sent' \subseteq sent
    BY <1>4 DEF LandSchedule, LandExecute, LandCancel, LandDirect, LandPause, Refused, Confirmed
  <2>2. CallsFormed'
    <3>1. \A q \in timelock'.queued :
            q \in timelock.queued \/ (t.kind = "schedule" /\ q.id = t.what)
      BY <1>1, <1>4, QueueChanges DEF LandSchedule, LandExecute, LandCancel, LandDirect,
                                LandPause, Refused, chainVars
    <3>2. QED
      BY <2>1, <3>1, NoNewCalls DEF WarningInv
  <2>3. GameTyped'
    <3>1. CASE LandSchedule(t) \/ LandCancel(t) \/ Refused(t)
      BY <3>1 DEF WarningInv, GameTyped, LandSchedule, LandCancel, Refused, chainVars
    <3>2. CASE LandExecute(t)
      BY <1>1, <3>2, ExecutedIsSound, ApplyKeepsTyped DEF WarningInv, LandExecute, Execution
    <3>3. CASE LandDirect(t)
      <4>1. Sound(t.what.call) /\ (OnTimelock(t.what.call) \/ GameAccepts(t.what.call))
        BY <3>3 DEF WarningInv, CallsFormed, LandDirect, Sound, Accepted
      <4>2. QED
        BY <1>1, <3>3, <4>1, ApplyKeepsTyped DEF WarningInv, LandDirect
    <3>4. CASE LandPause(t)
      BY <1>1, <3>4 DEF WarningInv, Shape, GameTyped, LandPause
    <3>5. QED
      BY <1>4, <3>1, <3>2, <3>3, <3>4
  <2>4. QED
    BY <2>2, <2>3 DEF WarningInv
<1>5. CASE Everybody(OthersCalls)
  <2>1. sent' = sent
    BY <1>5 DEF Everybody, OtherSchedules, OtherExecutes, OtherCancels, HandOver, Others, Tick,
                consoleVars
  <2>2. ASSUME NEW call \in OthersCalls, OtherSchedules(call) PROVE WarningInv'
    <3> DEFINE id == [call |-> call, salt |-> 0]
    <3>1. timelock' = Scheduled(id) /\ game' = game
      BY <2>2 DEF OtherSchedules, Others
    <3>2. \A q \in timelock'.queued : q \in timelock.queued \/ q.id = id
      BY <1>1, <3>1, QueueChanges
    <3>3. CallsFormed'
      BY <2>1, <3>2, NoNewCalls DEF WarningInv
    <3>4. QED
      BY <3>1, <3>3 DEF WarningInv, GameTyped
  <2>3. ASSUME NEW id, OtherExecutes(id) PROVE WarningInv'
    <3>1. CanExecute(id) /\ Execution(id)
      BY <2>3 DEF OtherExecutes, Others
    <3>2. CallsFormed'
      BY <1>1, <2>1, <3>1, QueueChanges, NoNewCalls DEF WarningInv
    <3>3. GameTyped'
      BY <1>1, <3>1, ExecutedIsSound, ApplyKeepsTyped DEF WarningInv, Execution
    <3>4. QED
      BY <3>2, <3>3 DEF WarningInv
  <2>4. ASSUME NEW id, OtherCancels(id) PROVE WarningInv'
    <3>1. timelock' = Dequeued(id) /\ game' = game
      BY <2>4 DEF OtherCancels, Others
    <3>2. CallsFormed'
      BY <1>1, <2>1, <3>1, QueueChanges, NoNewCalls DEF WarningInv
    <3>3. QED
      BY <3>1, <3>2 DEF WarningInv, GameTyped
  <2>5. ASSUME HandOver \/ Tick PROVE WarningInv'
    <3>1. timelock' = timelock /\ game' \in {game, [game EXCEPT !.governance = "timelock"]}
      BY <2>5 DEF HandOver, Tick, Others
    <3>2. GameTyped'
      BY <1>1, <3>1 DEF WarningInv, Shape, GameTyped
    <3>3. QED
      BY <2>1, <3>1, <3>2, NoNewCalls DEF WarningInv
  <2>6. QED
    BY <1>5, <2>2, <2>3, <2>4, <2>5 DEF Everybody
<1>6. CASE Players
  <2>1. sent' = sent /\ timelock' = timelock
    BY <1>6 DEF Players, BetPlaced, BetResolved, Others, consoleVars
  <2>2. ASSUME BetPlaced PROVE GameTyped'
    BY <1>1, <2>2 DEF BetPlaced, Others, Shape, WarningInv, GameTyped
  <2>3. ASSUME NEW paid \in {0, 2}, BetResolved(paid) PROVE GameTyped'
    BY <1>1, <2>3 DEF BetResolved, Others, Shape, WarningInv, GameTyped
  <2>4. QED
    BY <1>6, <2>1, <2>2, <2>3, NoNewCalls DEF Players, WarningInv
<1>7. ASSUME \/ ReadGame \/ ReadRoles \/ NoTimelock \/ StartLoad \/ AskStates \/ AnswerStates
             \/ \E l \in DOMAIN loads :
                  FinishLoad(l) \/ FailLoad(l) \/ \E half \in {"calls", "salts"} : Answer(l, half)
      PROVE  WarningInv'
  <2>1. game' = game /\ timelock' = timelock /\ sent' = sent
    BY <1>7 DEF ReadGame, ReadRoles, NoTimelock, StartLoad, AskStates, AnswerStates, FinishLoad,
                FailLoad, Answer, Reads, chainVars
  <2>2. QED
    BY <2>1 DEF WarningInv, GameTyped, CallsFormed
<1>8. QED
  BY <1>2, <1>3, <1>4, <1>5, <1>6, <1>7 DEF Next, Operator, QueuePanel

(* Whatever happens to the game after a change was queued, the game accepts it      *)
(* exactly when a console that knew the game of this moment would show no warning  *)
(* (parseAdminOp, preflightAdminOp; the contract's setters).                    *)
THEOREM WarningsMatchTheContract == Spec => []PreflightIsExact
<1>1. Init => WarningInv
  BY DEF Init, WarningInv, GameTyped, CallsFormed
<1>2. AuthorityInv /\ WarningInv /\ [Next]_vars => WarningInv'
  <2>1. ASSUME WarningInv, UNCHANGED vars PROVE WarningInv'
    BY <2>1 DEF vars, chainVars, consoleVars, WarningInv, GameTyped, CallsFormed
  <2>2. QED
    BY <2>1, WarningSteps
<1>3. WarningInv => PreflightIsExact
  <2>1. ASSUME WarningInv, NEW call \in ConsoleCalls PROVE Formed(call)
    BY <2>1 DEF WarningInv, CallsFormed, ConsoleCalls
  <2>2. QED
    BY <2>1, WarningsAreExact DEF PreflightIsExact, WarningInv
<1>4. QED
  BY <1>1, <1>2, <1>3, AuthorityInvariant, PTL DEF Spec

------------------------------------------------------------------------------
(* Rows                                                                       *)

(* The log only grows, and what is queued is in it.                             *)
Logged(op) == \E n \in DOMAIN timelock.log : timelock.log[n] = op
LogInv ==
  /\ now \in Nat
  /\ timelock.log \in Seq({timelock.log[n] : n \in DOMAIN timelock.log})
  /\ \A n \in DOMAIN timelock.log : timelock.log[n].readyAt \in Nat
  /\ \A q \in timelock.queued : Logged(q)

(* What was answered "ready" was, of the operation that was asked for.           *)
RipeInLog(id) ==
  \E n \in DOMAIN timelock.log : timelock.log[n].id = id /\ timelock.log[n].readyAt <= now
StatesInv ==
  \A i \in DOMAIN states.ids : states.values[i] = "ready" => RipeInLog(states.ids[i])

RowInv == LogInv /\ StatesInv

Grows ==
  /\ now' \in {now, now + 1}
  /\ \/ timelock'.log = timelock.log
     \/ \E op : op.readyAt \in Nat /\ timelock'.log = Append(timelock.log, op)

(* Then what was true of the log stays true.                                      *)
LEMMA LogGrows ==
  ASSUME LogInv, Grows
  PROVE  /\ timelock'.log \in Seq({timelock'.log[n] : n \in DOMAIN timelock'.log})
         /\ \A n \in DOMAIN timelock'.log : timelock'.log[n].readyAt \in Nat
         /\ \A n \in DOMAIN timelock.log :
              n \in DOMAIN timelock'.log /\ timelock'.log[n] = timelock.log[n]
         /\ \A id : RipeInLog(id) => RipeInLog(id)'
<1>1. CASE timelock'.log = timelock.log
  BY <1>1 DEF LogInv, RipeInLog, Grows
<1>2. ASSUME NEW op, op.readyAt \in Nat, timelock'.log = Append(timelock.log, op)
      PROVE  /\ timelock'.log \in Seq({timelock'.log[n] : n \in DOMAIN timelock'.log})
             /\ \A n \in DOMAIN timelock'.log : timelock'.log[n].readyAt \in Nat
             /\ \A n \in DOMAIN timelock.log :
                  n \in DOMAIN timelock'.log /\ timelock'.log[n] = timelock.log[n]
             /\ \A id : RipeInLog(id) => RipeInLog(id)'
  <2> DEFINE S == {timelock.log[n] : n \in DOMAIN timelock.log} \cup {op}
  <2> DEFINE log == timelock.log
  <2> DEFINE new == timelock'.log
  <2>1. log \in Seq(S)
    BY SeqMonotonic DEF LogInv
  <2>2. DOMAIN log = 1..Len(log) /\ Len(log) \in Nat
    BY <2>1, LenProperties
  <2>3. /\ new \in Seq(S) /\ Len(new) = Len(log) + 1
        /\ \A i \in 1..Len(log) : new[i] = log[i]
        /\ new[Len(log) + 1] = op
    BY <1>2, <2>1, AppendProperties
  <2>4. DOMAIN new = 1..(Len(log) + 1)
    BY <2>3, LenProperties
  <2>5. \A n \in DOMAIN log : n \in DOMAIN new /\ new[n] = log[n]
    BY <2>2, <2>3, <2>4
  <2>6. \A n \in DOMAIN new : n \in DOMAIN log \/ n = Len(log) + 1
    BY <2>2, <2>4
  <2>7. \A n \in DOMAIN new : new[n].readyAt \in Nat
    BY <1>2, <2>3, <2>5, <2>6 DEF LogInv
  <2>8. S \subseteq {new[n] : n \in DOMAIN new}
    BY <2>2, <2>3, <2>4, <2>5
  <2>9. new \in Seq({new[n] : n \in DOMAIN new})
    BY <2>3, <2>8, SeqMonotonic
  <2>10. ASSUME NEW id, RipeInLog(id) PROVE RipeInLog(id)'
    <3>1. PICK n \in DOMAIN log : log[n].id = id /\ log[n].readyAt <= now
      BY <2>10 DEF RipeInLog
    <3>2. log[n].readyAt \in Nat /\ now \in Nat
      BY DEF LogInv
    <3>3. log[n].readyAt <= now'
      BY <3>1, <3>2 DEF Grows
    <3>4. QED
      BY <2>5, <3>1, <3>3 DEF RipeInLog
  <2>11. QED
    BY <2>5, <2>7, <2>9, <2>10
<1>3. QED
  BY <1>1, <1>2 DEF Grows

(* What each change of the timelock does to its log and its queue.                *)
LEMMA TimelockGrows ==
  ASSUME Shape, LogInv, NEW id
  PROVE  /\ timelock' = Dequeued(id) \/ Execution(id) =>
              timelock'.log = timelock.log /\ timelock'.queued \subseteq timelock.queued
         /\ timelock' = Scheduled(id) =>
              \E op : /\ op.readyAt \in Nat /\ timelock'.log = Append(timelock.log, op)
                     /\ timelock'.queued = timelock.queued \cup {op}
<1>1. timelock' = Dequeued(id) \/ Execution(id) =>
        timelock'.log = timelock.log /\ timelock'.queued \subseteq timelock.queued
  BY DEF Shape, Dequeued, Execution
<1>2. ASSUME timelock' = Scheduled(id)
      PROVE  \E op : /\ op.readyAt \in Nat /\ timelock'.log = Append(timelock.log, op)
                    /\ timelock'.queued = timelock.queued \cup {op}
  <2> DEFINE op == [id |-> id, readyAt |-> now + MinDelay]
  <2>1. op.readyAt \in Nat
    BY ConsoleAssumption DEF LogInv
  <2>2. timelock'.log = Append(timelock.log, op) /\ timelock'.queued = timelock.queued \cup {op}
    BY <1>2 DEF Shape, Scheduled
  <2>3. QED
    BY <2>1, <2>2
<1>3. QED
  BY <1>1, <1>2

(* What a step does to the clock, the log and the queue.                          *)
LEMMA StepGrows ==
  ASSUME Shape, LogInv, [Next]_vars
  PROVE  /\ Grows
         /\ \/ timelock'.queued \subseteq timelock.queued
            \/ \E op : /\ timelock'.log = Append(timelock.log, op)
                      /\ timelock'.queued = timelock.queued \cup {op}
<1> DEFINE Goal == /\ Grows
                   /\ \/ timelock'.queued \subseteq timelock.queued
                      \/ \E op : /\ timelock'.log = Append(timelock.log, op)
                                /\ timelock'.queued = timelock.queued \cup {op}
<1>1. ASSUME now' \in {now, now + 1}, timelock' = timelock PROVE Goal
  BY <1>1 DEF Grows
<1>2. ASSUME now' = now, NEW id,
             timelock' = Dequeued(id) \/ timelock' = Scheduled(id) \/ Execution(id)
      PROVE  Goal
  BY <1>2, TimelockGrows DEF Grows
<1> HIDE DEF Goal
<1>3. ASSUME NEW t \in sent, LandSchedule(t) \/ LandExecute(t) \/ LandCancel(t)
                             \/ LandDirect(t) \/ LandPause(t) \/ Refused(t)
      PROVE  Goal
  <2>1. now' = now
    BY <1>3 DEF LandSchedule, LandExecute, LandCancel, LandDirect, LandPause, Refused, Confirmed,
                chainVars
  <2>2. \/ timelock' = timelock \/ timelock' = Dequeued(t.what) \/ timelock' = Scheduled(t.what)
        \/ Execution(t.what)
    BY <1>3 DEF LandSchedule, LandExecute, LandCancel, LandDirect, LandPause, Refused, chainVars
  <2>3. QED
    BY <1>1, <1>2, <2>1, <2>2
<1>4. ASSUME NEW call, OtherSchedules(call) PROVE Goal
  BY <1>2, <1>4 DEF OtherSchedules, Others
<1>5. ASSUME NEW id, OtherExecutes(id) \/ OtherCancels(id) PROVE Goal
  BY <1>2, <1>5 DEF OtherExecutes, OtherCancels, Others
<1>6. ASSUME HandOver \/ Tick \/ Players PROVE Goal
  <2>1. now' \in {now, now + 1} /\ timelock' = timelock
    BY <1>6 DEF HandOver, Tick, Players, BetPlaced, BetResolved, Others
  <2>2. QED
    BY <1>1, <2>1
<1>7. ASSUME QueuePanel \/ UNCHANGED vars PROVE Goal
  <2>1. now' = now /\ timelock' = timelock
    BY <1>7 DEF QueuePanel, StartLoad, AskStates, AnswerStates, FinishLoad, FailLoad, Answer,
                Reads, executeOperation, cancelOperation, Send, vars, chainVars
  <2>2. QED
    BY <1>1, <2>1
<1>8. ASSUME \/ ReadGame \/ ReadRoles \/ NoTimelock \/ togglePause
             \/ \E input \in Inputs : submitChange(input)
      PROVE  Goal
  <2>1. now' = now /\ timelock' = timelock
    BY <1>8 DEF ReadGame, ReadRoles, NoTimelock, togglePause, submitChange, Send, chainVars
  <2>2. QED
    BY <1>1, <2>1
<1>9. Goal
  BY <1>3, <1>4, <1>5, <1>6, <1>7, <1>8 DEF Next, Operator, Everybody
<1>10. QED
  BY <1>9 DEF Goal

(* Only the answer to a read of states changes what the states are.                *)
LEMMA StepAnswers ==
  ASSUME [Next]_vars
  PROVE  states' = states \/ AnswerStates
<1>1. CASE Everybody(OthersCalls)
  BY <1>1 DEF Everybody, OtherSchedules, OtherExecutes, OtherCancels, HandOver, Others, Tick,
              consoleVars
<1>2. CASE Players
  BY <1>2 DEF Players, BetPlaced, BetResolved, Others, consoleVars
<1>3. CASE QueuePanel \/ UNCHANGED vars
  BY <1>3 DEF QueuePanel, StartLoad, AskStates, FinishLoad, FailLoad, Answer, Reads,
              executeOperation, cancelOperation, Send, vars, consoleVars
<1>4. CASE Operator(Inputs)
  BY <1>4 DEF Operator, ReadGame, ReadRoles, NoTimelock, togglePause, submitChange, Send,
              LandSchedule, LandExecute, LandCancel, LandDirect, LandPause, Refused, Confirmed
<1>5. QED
  BY <1>1, <1>2, <1>3, <1>4 DEF Next

(* A row shows the state of its own operation: none has a live Execute button whose  *)
(* delay has not passed (useTimelockQueue, deriveOperationStatus).               *)
THEOREM RowsShowTheirOwn == Spec => []ExecuteOnlyWhenReady
<1>1. Init => RowInv
  BY EmptySeq DEF Init, RowInv, LogInv, StatesInv
<1>2. ASSUME Shape, RowInv, [Next]_vars PROVE RowInv'
  <2>1. Grows /\ LogInv
    BY <1>2, StepGrows DEF RowInv
  <2>2. now' \in Nat
    BY <2>1 DEF Grows, LogInv
  <2>3. \A q : Logged(q) => Logged(q)'
    BY <2>1, LogGrows DEF Logged
  <2>4. ASSUME NEW q \in timelock'.queued PROVE Logged(q)'
    <3>1. CASE q \in timelock.queued
      BY <2>1, <2>3, <3>1 DEF LogInv
    <3>2. CASE q \notin timelock.queued
      <4>1. timelock'.log = Append(timelock.log, q)
        BY <1>2, <2>1, <3>2, StepGrows
      <4> DEFINE S == {timelock.log[n] : n \in DOMAIN timelock.log} \cup {q}
      <4>2. timelock.log \in Seq(S)
        BY <2>1, SeqMonotonic DEF LogInv
      <4>3. /\ timelock'.log \in Seq(S) /\ Len(timelock'.log) = Len(timelock.log) + 1
            /\ timelock'.log[Len(timelock.log) + 1] = q /\ Len(timelock.log) \in Nat
        BY <4>1, <4>2, AppendProperties, LenProperties
      <4>4. Len(timelock.log) + 1 \in DOMAIN timelock'.log
        BY <4>3, LenProperties
      <4>5. QED
        BY <4>3, <4>4 DEF Logged
    <3>3. QED
      BY <3>1, <3>2
  <2>5. LogInv'
    BY <2>1, <2>2, <2>4, LogGrows DEF LogInv
  <2>6. StatesInv'
    <3>1. CASE states' = states
      BY <1>2, <2>1, <3>1, LogGrows DEF RowInv, StatesInv
    <3>2. CASE AnswerStates
      <4>1. timelock' = timelock /\ now' = now
        BY <3>2 DEF AnswerStates, chainVars
      <4>2. \A id : Stateof(id) = "ready" => RipeInLog(id)
        BY <2>1 DEF Stateof, Queued, RipeInLog, LogInv, Logged
      <4>3. /\ states'.ids = reading
            /\ \A i \in DOMAIN reading : states'.values[i] = Stateof(reading[i])
        BY <3>2 DEF AnswerStates
      <4>4. QED
        BY <4>1, <4>2, <4>3 DEF StatesInv, RipeInLog
    <3>3. QED
      BY <1>2, <3>1, <3>2, StepAnswers
  <2>7. QED
    BY <2>5, <2>6 DEF RowInv
<1>3. RowInv => ExecuteOnlyWhenReady
  <2>1. ASSUME RowInv, NEW i \in DOMAIN list, status(i) = "ready" PROVE RipeInLog(list[i].id)
    <3>1. aligned /\ states.values[i] = "ready"
      BY <2>1 DEF status
    <3>2. i \in DOMAIN states.ids /\ states.ids[i] = list[i].id
      BY <2>1, <3>1 DEF aligned, Ids
    <3>3. QED
      BY <2>1, <3>1, <3>2 DEF RowInv, StatesInv
  <2>2. QED
    BY <2>1 DEF ExecuteOnlyWhenReady, RipeInLog
<1>4. AuthorityInv => Shape
  BY DEF AuthorityInv
<1>5. QED
  BY <1>1, <1>2, <1>3, <1>4, AuthorityInvariant, PTL DEF Spec
==============================================================================
