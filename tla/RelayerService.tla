--------------------------- MODULE RelayerService ---------------------------
(***************************************************************************)
(* The relayer process (relayer-service.ts, service/loop.ts,                 *)
(* lib/relayer-core.ts) driving the game of RushoodGame.tla.                 *)
(*                                                                         *)
(* A pass is cut at every await: the two reads of a poll are answered in     *)
(* either order, blocks are mined between any two steps, a transaction is    *)
(* broadcast (its reveal becomes public) before it is mined, and the process *)
(* can lose a response or die anywhere.  All instances sign with the one     *)
(* relayer key, so their transactions are mined in nonce order.              *)
(***************************************************************************)
EXTENDS RushoodGame, HashChain, Sequences

CONSTANTS
  Instances,   \* relayer processes running with the same key and seed
  MaxFaults,   \* bound on lost responses and crashes
  MaxEpoch,    \* bound on the epochs in use
  CopiesPending, \* whether a reveal can be copied from the mempool and mined first
  Unread       \* a read of this pass that has not been answered

ASSUME RelayerAssumption ==
  /\ MaxFaults \in Nat /\ CopiesPending \in BOOLEAN
  /\ Unread \notin Nat /\ Unread \notin Heads
  /\ NoOne \notin Instances
  /\ hash = keccak

(* The chains of the epochs in use have a preimage at every node but the last  *)
(* and never meet: keccak256 has no collisions among them.  The game is        *)
(* deployed with the genesis node of epoch 0.                                 *)
ASSUME ChainsAssumption ==
  /\ MaxEpoch \in Nat /\ MAX_EPOCH_SCAN <= MaxEpoch + 1
  /\ \A e \in 0..MaxEpoch, i \in 1..(chainLength - 1) : epochChain(e)[i] \in Reveals
  /\ \A e, f \in 0..MaxEpoch, i, j \in 0..(chainLength - 1) :
       epochChain(e)[i] = epochChain(f)[j] => e = f /\ i = j
  /\ InitialCommit = epochChain(0)[0]

VARIABLES
  pc,         \* where each instance is in its pass
  polled,     \* what its current poll has read
  epoch,      \* LoopState.epoch (LoopState.chain is epochChain of it)
  outcome,    \* the receipt of the transaction it waits for
  pending,    \* broadcast and not yet mined, in nonce order
  published,  \* history: reveals that have been broadcast
  faults      \* lost responses and crashes so far

processVars == <<pc, polled, epoch, outcome>>
relayerVars == <<processVars, pending, published, faults>>
allVars == <<vars, relayerVars>>

Nothing == [head |-> Unread, bet |-> Unread]

RelayerInit ==
  /\ Init
  /\ pc = [i \in Instances |-> "down"]
  /\ polled = [i \in Instances |-> Nothing]
  /\ epoch = [i \in Instances |-> 0]
  /\ outcome = [i \in Instances |-> "none"]
  /\ pending = << >> /\ published = {} /\ faults = 0

------------------------------------------------------------------------------
(* One pass of one instance                                                  *)

Goto(i, label) == pc' = [pc EXCEPT ![i] = label]

(* main: refuse to start unless the head is found.                           *)
Boot(i) ==
  /\ pc[i] = "down"
  /\ \E e \in resolveEpoch(currentCommit) : epoch' = [epoch EXCEPT ![i] = e]
  /\ Goto(i, "idle")
  /\ UNCHANGED <<vars, polled, outcome, pending, published, faults>>

Poll(i) ==
  /\ pc[i] = "idle"
  /\ Goto(i, "polling")
  /\ UNCHANGED <<vars, polled, epoch, outcome, pending, published, faults>>

ReadHead(i) ==
  /\ pc[i] = "polling" /\ polled[i].head = Unread
  /\ polled' = [polled EXCEPT ![i].head = currentCommit]
  /\ UNCHANGED <<vars, pc, epoch, outcome, pending, published, faults>>

ReadBet(i) ==
  /\ pc[i] = "polling" /\ polled[i].bet = Unread
  /\ polled' = [polled EXCEPT ![i].bet = activeBetId]
  /\ UNCHANGED <<vars, pc, epoch, outcome, pending, published, faults>>

(* The synchronous middle of runPass: re-derive the epoch, then settle an     *)
(* active bet, or rotate near the end of the chain, or be done.              *)
Decide(i) ==
  LET head  == polled[i].head
      found == EpochFor(epoch[i], head)
  IN
  /\ pc[i] = "polling" /\ Unread \notin {head, polled[i].bet}
  /\ \/ /\ found = {}
        /\ Goto(i, "idle")
        /\ UNCHANGED epoch
     \/ \E e \in found :
          /\ epoch' = [epoch EXCEPT ![i] = e]
          /\ Goto(i, IF polled[i].bet # 0 THEN "settling"
                     ELSE IF shouldRotate(epochChain(e), head) THEN "rotating"
                     ELSE "idle")
  /\ polled' = [polled EXCEPT ![i] = Nothing]
  /\ UNCHANGED <<vars, outcome, pending, published, faults>>

Broadcast(i, kind, node) ==
  pending' = Append(pending, [owner |-> i, kind |-> kind, node |-> node])

(* settleNextBet up to the broadcast: its reads of the active bet and of the  *)
(* head decide nothing that estimateGas, the last of them, does not decide    *)
(* again on the chain's state, so they are one step with it.                 *)
SendSettle(i) ==
  LET chain == epochChain(epoch[i])
      round == roundForHead(chain, currentCommit)
  IN
  /\ pc[i] = "settling"
  /\ IF activeBetId # 0 /\ round # 0 /\ round < chainLength
     THEN /\ Broadcast(i, "settle", chain[round])
          /\ published' = published \cup {chain[round]}
          /\ Goto(i, "awaitSettle")
     ELSE /\ Goto(i, "idle")
          /\ UNCHANGED <<pending, published>>
  /\ UNCHANGED <<vars, polled, epoch, outcome, faults>>

(* rotateChain is broadcast only if estimateGas finds no active bet.          *)
SendRotate(i) ==
  /\ pc[i] = "rotating" /\ epoch[i] < MaxEpoch
  /\ IF activeBetId = 0
     THEN /\ Broadcast(i, "rotate", RotationTarget(epoch[i]))
          /\ Goto(i, "awaitRotate")
     ELSE /\ Goto(i, "idle")
          /\ UNCHANGED pending
  /\ UNCHANGED <<vars, polled, epoch, outcome, published, faults>>

(* wait() returns a receipt, or throws on a reverted transaction: only a      *)
(* rotation that succeeded advances the epoch.                               *)
WaitReturns(i) ==
  /\ pc[i] \in {"awaitSettle", "awaitRotate"}
  /\ outcome[i] # "none"
  /\ epoch' = [epoch EXCEPT ![i] =
       IF pc[i] = "awaitRotate" /\ outcome[i] = "success" THEN @ + 1 ELSE @]
  /\ outcome' = [outcome EXCEPT ![i] = "none"]
  /\ Goto(i, "idle")
  /\ UNCHANGED <<vars, polled, pending, published, faults>>

------------------------------------------------------------------------------
(* The chain and the faults                                                  *)

(* The oldest pending transaction executes, or reverts (a settlement never    *)
(* for want of funds: Solvent).                                              *)
Mine ==
  LET tx == Head(pending)
      Applies ==
        \/ tx.kind = "settle" /\ settleBet(tx.node)
        \/ tx.kind = "rotate" /\ rotateChain(Relayer, tx.node)
      Reverts ==
        \/ /\ tx.kind = "settle"
           /\ activeBetId = 0 \/ keccak[tx.node] # currentCommit
        \/ tx.kind = "rotate" /\ ~MayRotate(Relayer)
      Receipt(result) ==
        outcome' = [i \in Instances |-> IF i = tx.owner THEN result ELSE outcome[i]]
  IN
  /\ pending # << >>
  /\ pending' = Tail(pending)
  /\ \/ Applies /\ Receipt("success")
     \/ Reverts /\ Receipt("reverted") /\ UNCHANGED vars
  /\ UNCHANGED <<pc, polled, epoch, published, faults>>

(* A response is lost, or the process dies: what it had broadcast stays in    *)
(* the mempool with nobody waiting for it.                                   *)
Abandon(i) ==
  /\ faults < MaxFaults
  /\ faults' = faults + 1
  /\ outcome' = [outcome EXCEPT ![i] = "none"]
  /\ polled' = [polled EXCEPT ![i] = Nothing]
  /\ pending' = [k \in DOMAIN pending |->
       IF pending[k].owner = i THEN [pending[k] EXCEPT !.owner = NoOne] ELSE pending[k]]
  /\ UNCHANGED <<vars, epoch, published>>

ResponseLost(i) == pc[i] \notin {"down", "idle"} /\ Goto(i, "idle") /\ Abandon(i)
Crash(i)        == pc[i] # "down" /\ Goto(i, "down") /\ Abandon(i)

(* Settlement is open to anyone who knows the reveal: from a transaction that *)
(* has executed or reverted, or, with CopiesPending, from one still pending.   *)
Known ==
  IF CopiesPending THEN published
  ELSE published \ {pending[k].node : k \in DOMAIN pending}
OtherSettles == \E r \in Known : settleBet(r)

Others ==
  /\ \/ \E p \in Players, t \in Tiers, s \in Stakes, c \in Seeds : placeBet(p, t, s, c)
     \/ \E b \in BetId : refund(b)
     \/ \E a \in Officers : pause(a) \/ unpause(a)
     \/ \E p \in Players, v \in Approvals : TokenApprove(p, v)
     \/ OtherSettles
     \/ Tick
  /\ UNCHANGED relayerVars

Pass(i) ==
  \/ Boot(i) \/ Poll(i) \/ ReadHead(i) \/ ReadBet(i) \/ Decide(i)
  \/ SendSettle(i) \/ SendRotate(i) \/ WaitReturns(i)

RelayerNext ==
  \/ \E i \in Instances : Pass(i) \/ ResponseLost(i) \/ Crash(i)
  \/ Mine
  \/ Others

RelayerSpec == RelayerInit /\ [][RelayerNext]_allVars

(* The supervisor restarts a dead relayer, a running one keeps making passes, *)
(* and what is broadcast is mined.  Players, refunds and the guardian owe     *)
(* nothing.                                                                  *)
RelayerFairness ==
  /\ \A i \in Instances : WF_allVars(Pass(i))
  /\ WF_allVars(Mine)

FairRelayerSpec == RelayerSpec /\ RelayerFairness

------------------------------------------------------------------------------
(* Properties                                                                *)

(* No reveal ever decides two bets, so one draw tells nothing about another   *)
(* (the head is re-read by every pass, and the epoch advances only after a    *)
(* rotation is mined).                                                       *)
RevealsUsedOnce ==
  \A b, c \in BetId : bets[b].reveal # NoReveal /\ bets[b].reveal = bets[c].reveal => b = c

(* The preimage of the head has been broadcast.                              *)
Leaked == \E r \in published : keccak[r] = currentCommit

(* Between bets the preimage of the head is secret, except after a refund of  *)
(* a bet on that very head whose settlement had been broadcast: no other bet  *)
(* is ever placed on a draw that somebody can foresee.                       *)
HeadIsSecret ==
  activeBetId = 0 /\ Leaked =>
    \E b \in 1..betCounter : StatusOf(b) = "refunded" /\ bets[b].commit = currentCommit

RevealsLeft ==
  LET rounds == {roundForHead(epochChain(e), currentCommit) : e \in 0..MaxBets} \ {0}
  IN chainLength - Max(rounds)

(* Nothing the relayer does can settle a bet on this head: its chain is used  *)
(* up, or lies beyond the scan that a restart finds it with.                 *)
OutOfReach == RevealsLeft = 0 \/ resolveEpoch(currentCommit) = {}

(* However the relayer crashes, restarts or loses responses, the open bet      *)
(* closes with nobody owing a refund, unless the head is out of its reach.    *)
BetsAreDrawn == \A b \in BetId : activeBetId = b ~> (activeBetId # b \/ OutOfReach)

(* A chain within the margin of its end is replaced unless a bet comes first: *)
(* in particular whenever the game is paused between bets.                   *)
RotatesBetweenBets ==
  (activeBetId = 0 /\ RevealsLeft <= rotationMargin)
    ~> (activeBetId # 0 \/ RevealsLeft > rotationMargin \/ resolveEpoch(currentCommit) = {})

(* RushoodGame.refund's note: a reveal leaked by a refunded bet is retired by *)
(* the rotation the relayer makes when it resumes after downtime.            *)
RotatesOnResume ==
  \A i \in Instances : (pc[i] = "down" /\ activeBetId = 0 /\ Leaked)
                         ~> (activeBetId # 0 \/ ~Leaked)
==============================================================================
