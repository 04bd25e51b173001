------------------------- MODULE RelayerServiceProofs -------------------------
(***************************************************************************)
(* Proofs about RelayerService, for every chain length, margin, scan, bound  *)
(* on the epochs and number of faults.  Whatever the relayer does, the game  *)
(* takes one of its own steps; and one relayer whose pending reveals nobody  *)
(* copies never uses a reveal twice nor lets the next draw be foreseen.      *)
(***************************************************************************)
EXTENDS RelayerService, RushoodGameProofs

------------------------------------------------------------------------------
(* Places on the chains                                                      *)

Round == 0..(chainLength - 1)
ChainNode == {epochChain(e)[i] : e \in 0..MaxEpoch, i \in Round}

(* Where a node is: its epoch and its index, 0 for the genesis node.          *)
Place(node) ==
  CHOOSE at \in (0..MaxEpoch) \X Round : epochChain(at[1])[at[2]] = node
EpochOf(node) == Place(node)[1]
IndexOf(node) == Place(node)[2]

HeadEpoch == EpochOf(currentCommit)
HeadIndex == IndexOf(currentCommit)

Reveal == {node \in ChainNode : IndexOf(node) > 0}
Genesis0 == {node \in ChainNode : IndexOf(node) = 0}

(* buildHashChain's recursive function exists: one that satisfies the recursion *)
(* on the last n indices extends to the one before them.                       *)
LEMMA ChainRecursion ==
  ASSUME NEW last
  PROVE  \A i \in Round :
           buildHashChain(last, chainLength)[i] =
             IF i = chainLength - 1 THEN last ELSE hash[buildHashChain(last, chainLength)[i + 1]]
<1> DEFINE Hashed(c, i) == c[i] = IF i = chainLength - 1 THEN last ELSE hash[c[i + 1]]
           Suffix(c, n) == \A i \in Round : i >= chainLength - n => Hashed(c, i)
           Bad == {n \in Nat : ~ \E c : c = [i \in Round |-> c[i]] /\ Suffix(c, n)}
<1>1. chainLength \in Nat /\ chainLength >= 2
  BY ChainAssumption
<1>2. Bad = {}
  <2>1. SUFFICES ASSUME Bad # {} PROVE FALSE
    OBVIOUS
  <2>2. PICK n \in Bad : \A m \in Bad : n <= m
    BY <2>1, LeastNatural
  <2>3. n # 0
    <3>1. Suffix([i \in Round |-> 0], 0)
      BY <1>1 DEF Round
    <3>2. QED
      BY <2>2, <3>1
  <2>4. n - 1 \in Nat /\ n - 1 \notin Bad /\ n \in Nat
    <3>1. n - 1 \in Nat /\ ~(n <= n - 1)
      BY <2>2, <2>3
    <3>2. QED
      BY <2>2, <3>1
  <2>5. PICK c : c = [i \in Round |-> c[i]] /\ Suffix(c, n - 1)
    BY <2>4
  <2> DEFINE d == [i \in Round |->
                     IF i >= chainLength - (n - 1) THEN c[i]
                     ELSE IF i = chainLength - 1 THEN last ELSE hash[c[i + 1]]]
  <2>6. ASSUME NEW i \in Round, i >= chainLength - n PROVE Hashed(d, i)
    <3>1. i \in Int /\ i <= chainLength - 1 /\ (i # chainLength - 1 => i + 1 \in Round)
      BY <1>1 DEF Round
    <3>2. i # chainLength - 1 => d[i + 1] = c[i + 1]
      BY <1>1, <2>4, <2>6, <3>1
    <3>3. i >= chainLength - (n - 1) => Hashed(c, i)
      BY <2>5
    <3>4. QED
      BY <3>1, <3>2, <3>3
  <2>7. Suffix(d, n) /\ d = [i \in Round |-> d[i]]
    BY <2>6
  <2>8. QED
    BY <2>2, <2>7
<1>3. PICK c : c = [i \in Round |-> c[i]] /\ Suffix(c, chainLength)
  BY <1>1, <1>2
<1> DEFINE IsChain(f) == f = [i \in 0..(chainLength - 1) |->
                               IF i = chainLength - 1 THEN last ELSE hash[f[i + 1]]]
           chain == CHOOSE f : IsChain(f)
<1>4. IsChain(c)
  <2>1. \A i \in Round : i >= chainLength - chainLength
    BY <1>1 DEF Round
  <2>2. \A i \in Round : Hashed(c, i)
    BY <1>3, <2>1
  <2>3. QED
    BY <1>3, <2>2 DEF Round
<1>5. IsChain(chain)
  BY <1>4
<1>6. buildHashChain(last, chainLength) = chain
  BY DEF buildHashChain
<1> HIDE DEF chain
<1>7. QED
  BY <1>5, <1>6 DEF Round

(* A node hashes to the one before it.                                        *)
LEMMA NodeHashes ==
  ASSUME NEW e \in 0..MaxEpoch, NEW i \in 1..(chainLength - 1)
  PROVE  epochChain(e)[i] \in Reveals /\ keccak[epochChain(e)[i]] = epochChain(e)[i - 1]
<1>1. epochChain(e)[i] \in Reveals
  BY ChainsAssumption
<1>2. i - 1 \in Round /\ i - 1 # chainLength - 1 /\ (i - 1) + 1 = i
  BY ChainAssumption DEF Round
<1>3. epochChain(e)[i - 1] = hash[epochChain(e)[i]]
  BY <1>2, ChainRecursion DEF epochChain
<1>4. QED
  BY <1>1, <1>3, RelayerAssumption

(* No two places hold the same node.                                           *)
LEMMA PlaceOf ==
  ASSUME NEW e \in 0..MaxEpoch, NEW i \in Round
  PROVE  /\ epochChain(e)[i] \in ChainNode
         /\ EpochOf(epochChain(e)[i]) = e /\ IndexOf(epochChain(e)[i]) = i
<1> DEFINE node == epochChain(e)[i]
           At(p) == p \in (0..MaxEpoch) \X Round /\ epochChain(p[1])[p[2]] = node
<1>1. At(<<e, i>>)
  OBVIOUS
<1>2. At(Place(node))
  BY <1>1 DEF Place
<1>3. PICK f \in 0..MaxEpoch, j \in Round : Place(node) = <<f, j>>
  BY <1>2
<1>4. epochChain(f)[j] = node
  BY <1>2, <1>3
<1>5. f = e /\ j = i
  BY <1>4, ChainsAssumption DEF Round
<1>6. QED
  BY <1>3, <1>5 DEF EpochOf, IndexOf, ChainNode

LEMMA NodeFacts ==
  ASSUME NEW node \in ChainNode
  PROVE  /\ EpochOf(node) \in 0..MaxEpoch /\ IndexOf(node) \in Round
         /\ epochChain(EpochOf(node))[IndexOf(node)] = node
         /\ node \in Heads
<1>1. PICK e \in 0..MaxEpoch, i \in Round : node = epochChain(e)[i]
  BY DEF ChainNode
<1>2. EpochOf(node) = e /\ IndexOf(node) = i
  BY <1>1, PlaceOf
<1>3. CASE i = 0
  <2>1. 1 \in 1..(chainLength - 1) /\ 1 - 1 = 0
    BY ChainAssumption
  <2>2. keccak[epochChain(e)[1]] = epochChain(e)[0] /\ epochChain(e)[1] \in Reveals
    BY <2>1, NodeHashes
  <2>3. QED
    BY <1>1, <1>2, <1>3, <2>2, GameAssumption
<1>4. CASE i # 0
  <2>1. i \in 1..(chainLength - 1)
    BY <1>4 DEF Round
  <2>2. QED
    BY <1>1, <1>2, <2>1, NodeHashes, GameAssumption
<1>5. QED
  BY <1>3, <1>4

(* The preimage relation on the chains: one step back in the same epoch.        *)
LEMMA RevealFacts ==
  ASSUME NEW node \in Reveal
  PROVE  /\ node \in ChainNode /\ node \in Reveals
         /\ keccak[node] \in ChainNode
         /\ EpochOf(keccak[node]) = EpochOf(node)
         /\ IndexOf(keccak[node]) = IndexOf(node) - 1
<1> DEFINE e == EpochOf(node)
           i == IndexOf(node)
<1>1. /\ node \in ChainNode /\ e \in 0..MaxEpoch /\ i \in 1..(chainLength - 1)
      /\ i - 1 \in Round /\ epochChain(e)[i] = node
  <2>1. node \in ChainNode /\ i > 0
    BY DEF Reveal
  <2>2. e \in 0..MaxEpoch /\ i \in Round /\ epochChain(e)[i] = node
    BY <2>1, NodeFacts
  <2>3. i \in 1..(chainLength - 1) /\ i - 1 \in Round
    BY <2>1, <2>2, ChainAssumption DEF Round
  <2>4. QED
    BY <2>1, <2>2, <2>3
<1> HIDE DEF e, i
<1>2. node \in Reveals /\ keccak[node] = epochChain(e)[i - 1]
  BY <1>1, NodeHashes
<1>3. QED
  BY <1>1, <1>2, PlaceOf DEF e, i

(* Two nodes at the same place are one.                                        *)
LEMMA SamePlace ==
  ASSUME NEW a \in ChainNode, NEW b \in ChainNode,
         EpochOf(a) = EpochOf(b), IndexOf(a) = IndexOf(b)
  PROVE  a = b
BY NodeFacts

(* roundForHead finds the place of a node, and nothing on another chain.        *)
LEMMA RoundOf ==
  ASSUME NEW e \in 0..MaxEpoch, NEW head \in ChainNode
  PROVE  roundForHead(epochChain(e), head)
           = IF EpochOf(head) = e THEN IndexOf(head) + 1 ELSE 0
<1> DEFINE at == {i \in 0..(chainLength - 1) : epochChain(e)[i] = head}
<1>1. \A i \in 0..(chainLength - 1) : epochChain(e)[i] = head =>
        EpochOf(head) = e /\ IndexOf(head) = i
  BY PlaceOf DEF Round
<1>2. CASE EpochOf(head) = e
  <2>1. at = {IndexOf(head)}
    BY <1>1, <1>2, NodeFacts DEF Round
  <2>2. Min(at) = IndexOf(head)
    <3>1. IndexOf(head) \in Int
      BY NodeFacts DEF Round
    <3> HIDE DEF at
    <3>2. QED
      BY <2>1, <3>1 DEF Min
  <2>3. QED
    BY <1>2, <2>1, <2>2 DEF roundForHead
<1>3. CASE EpochOf(head) # e
  <2>1. at = {}
    BY <1>1, <1>3
  <2>2. QED
    BY <1>3, <2>1 DEF roundForHead
<1>4. QED
  BY <1>2, <1>3

(* The search for the chain of a head can only find its epoch.                 *)
LEMMA ResolveFinds ==
  ASSUME NEW head \in ChainNode
  PROVE  /\ resolveEpoch(head) \subseteq {EpochOf(head)}
         /\ \A e \in 0..MaxEpoch : EpochFor(e, head) \subseteq {EpochOf(head)}
<1>1. \A e \in 0..MaxEpoch : OnChain(e, head) <=> EpochOf(head) = e
  <2>1. IndexOf(head) + 1 # 0
    BY NodeFacts DEF Round
  <2>2. QED
    BY <2>1, RoundOf DEF OnChain
<1> DEFINE on == {e \in 0..(MAX_EPOCH_SCAN - 1) : OnChain(e, head)}
<1>2. \A e \in 0..(MAX_EPOCH_SCAN - 1) : e \in 0..MaxEpoch
  BY ChainAssumption, ChainsAssumption
<1>3. EpochOf(head) \in Int
  BY NodeFacts
<1>4. on = {} \/ on = {EpochOf(head)}
  BY <1>1, <1>2
<1>5. resolveEpoch(head) \subseteq {EpochOf(head)}
  <2>1. Min({EpochOf(head)}) = EpochOf(head)
    BY <1>3 DEF Min
  <2> HIDE DEF on
  <2>2. resolveEpoch(head) = IF on = {} THEN {} ELSE {Min(on)}
    BY DEF resolveEpoch, on
  <2>3. QED
    BY <1>4, <2>1, <2>2
<1>6. QED
  BY <1>1, <1>5 DEF EpochFor

(* A rotation goes to the genesis node of the next epoch.                      *)
LEMMA RotationGoesTo ==
  ASSUME NEW e \in 0..MaxEpoch, e < MaxEpoch
  PROVE  RotationTarget(e) \in Genesis0 /\ EpochOf(RotationTarget(e)) = e + 1
<1>1. e + 1 \in 0..MaxEpoch /\ 0 \in Round
  BY ChainAssumption, ChainsAssumption DEF Round
<1>2. QED
  BY <1>1, PlaceOf DEF RotationTarget, Genesis0

------------------------------------------------------------------------------
(* The types of the relayer's own state                                      *)

Label == {"down", "idle", "polling", "settling", "rotating", "awaitSettle", "awaitRotate"}
Awaiting == {"awaitSettle", "awaitRotate"}

Tx == [owner : Instances \cup {NoOne}, kind : {"settle"}, node : Reveal]
        \cup [owner : Instances \cup {NoOne}, kind : {"rotate"}, node : Genesis0]

Polled == [head : ChainNode \cup {Unread}, bet : Nat \cup {Unread}]

RelayerTypeOK ==
  /\ pc \in [Instances -> Label]
  /\ polled \in [Instances -> Polled]
  /\ epoch \in [Instances -> 0..MaxEpoch]
  /\ outcome \in [Instances -> {"none", "success", "reverted"}]
  /\ pending \in Seq(Tx)
  /\ published \subseteq Reveal
  /\ currentCommit \in ChainNode

(* A rotation is only sent from an epoch that has a next one.                  *)
RoomToRotate == \A i \in Instances : pc[i] = "awaitRotate" => epoch[i] < MaxEpoch

RelayerTypeInv == RelayerTypeOK /\ RoomToRotate

LEMMA EmptyPollTyped == Nothing \in Polled /\ Nothing.head = Unread
BY DEF Nothing, Polled

LEMMA RelayerTypeInit == RelayerInit => RelayerTypeInv
<1> SUFFICES ASSUME RelayerInit PROVE RelayerTypeInv
  OBVIOUS
<1>1. 0 \in 0..MaxEpoch /\ 0 \in Round
  BY ChainAssumption, ChainsAssumption DEF Round
<1>2. currentCommit \in ChainNode
  BY <1>1, ChainsAssumption, PlaceOf DEF RelayerInit, Init
<1>3. RelayerTypeOK
  BY <1>1, <1>2, EmptyPollTyped DEF RelayerInit, RelayerTypeOK, Label
<1>4. RoomToRotate
  BY DEF RelayerInit, RoomToRotate
<1>5. QED
  BY <1>3, <1>4 DEF RelayerTypeInv

(* What the oldest pending transaction can do, once it is mined.               *)
LEMMA MineCases ==
  ASSUME RelayerTypeOK, Mine
  PROVE  \E tx \in Tx, result \in {"success", "reverted"} :
           /\ pending # << >> /\ tx = Head(pending) /\ pending' = Tail(pending)
           /\ outcome' = [i \in Instances |-> IF i = tx.owner THEN result ELSE outcome[i]]
           /\ \/ tx.kind = "settle" /\ tx.node \in Reveal /\ settleBet(tx.node)
              \/ /\ tx.kind = "rotate" /\ tx.node \in Genesis0
                 /\ rotateChain(Relayer, tx.node)
              \/ result = "reverted" /\ UNCHANGED vars
           /\ UNCHANGED <<pc, polled, epoch, published, faults>>
<1>1. pending \in Seq(Tx) /\ pending # << >>
  BY DEF RelayerTypeOK, Mine
<1>2. PICK tx \in Tx : tx = Head(pending)
  BY <1>1, HeadTailProperties
<1>3. tx.kind = "settle" => tx.node \in Reveal
  BY DEF Tx
<1>4. tx.kind = "rotate" => tx.node \in Genesis0
  BY DEF Tx
<1>5. QED
  BY <1>1, <1>2, <1>3, <1>4 DEF Mine

(* Every step of the relayer, the chain and the others is a step of the game,   *)
(* or leaves it alone.                                                       *)
LEMMA RelayerStepIsGameStep ==
  ASSUME RelayerTypeOK, [RelayerNext]_allVars
  PROVE  [Next]_vars
<1>1. ASSUME NEW i \in Instances, Pass(i) \/ ResponseLost(i) \/ Crash(i)
      PROVE  UNCHANGED vars
  BY <1>1 DEF Pass, Boot, Poll, ReadHead, ReadBet, Decide, SendSettle, SendRotate,
              WaitReturns, ResponseLost, Crash, Abandon
<1>2. CASE Mine
  <2>1. \A node \in Genesis0 : node \in Heads
    BY NodeFacts DEF Genesis0
  <2>2. \A node \in Reveal : node \in Reveals
    BY RevealFacts
  <2>3. PICK tx \in Tx : \/ tx.node \in Reveal /\ settleBet(tx.node)
                         \/ tx.node \in Genesis0 /\ rotateChain(Relayer, tx.node)
                         \/ UNCHANGED vars
    BY <1>2, MineCases
  <2>4. QED
    BY <2>1, <2>2, <2>3, AccountFacts DEF Next, Betting, Operating
<1>3. CASE Others
  <2>1. \A node \in Known : node \in Reveals
    BY RevealFacts DEF Known, RelayerTypeOK
  <2>2. CASE OtherSettles
    BY <2>1, <2>2 DEF OtherSettles, Next, Betting
  <2>3. CASE \/ \E p \in Players, t \in Tiers, s \in Stakes, c \in Seeds : placeBet(p, t, s, c)
             \/ \E b \in BetId : refund(b)
             \/ Tick
    BY <2>3 DEF Next, Betting
  <2>4. CASE \E a \in Officers : pause(a) \/ unpause(a)
    BY <2>4 DEF Next, Operating, Account
  <2>5. CASE \E p \in Players, v \in Approvals : TokenApprove(p, v)
    BY <2>5 DEF Next, TokenHolding
  <2>6. QED
    BY <1>3, <2>2, <2>3, <2>4, <2>5 DEF Others
<1>4. CASE UNCHANGED allVars
  BY <1>4 DEF allVars
<1>5. QED
  BY <1>1, <1>2, <1>3, <1>4 DEF RelayerNext

(* The head stays on the chains: only a mined transaction or a reveal that      *)
(* somebody else repeats moves it.                                           *)
LEMMA OthersHead ==
  ASSUME RelayerTypeOK, Others
  PROVE  \/ \E r \in Known : r \in Reveal /\ settleBet(r)
         \/ UNCHANGED currentCommit
<1>1. \A node \in Known : node \in Reveal
  BY DEF Known, RelayerTypeOK
<1>2. QED
  BY <1>1 DEF Others, OtherSettles, placeBet, refund, pause, unpause, TokenApprove,
              Tick, gameVars

LEMMA TailTyped ==
  ASSUME RelayerTypeOK, pending # << >>
  PROVE  /\ Tail(pending) \in Seq(Tx) /\ Len(Tail(pending)) = Len(pending) - 1
         /\ DOMAIN pending = 1..Len(pending) /\ DOMAIN Tail(pending) = 1..(Len(pending) - 1)
         /\ Len(pending) \in Nat \ {0}
         /\ \A q \in DOMAIN Tail(pending) : /\ q + 1 \in DOMAIN pending
                                            /\ Tail(pending)[q] = pending[q + 1]
BY HeadTailProperties DEF RelayerTypeOK

LEMMA BroadcastTyped ==
  ASSUME RelayerTypeOK, NEW i, NEW kind, NEW node, Broadcast(i, kind, node),
         [owner |-> i, kind |-> kind, node |-> node] \in Tx
  PROVE  /\ pending' \in Seq(Tx)
         /\ DOMAIN pending' = DOMAIN pending \cup {Len(pending) + 1}
         /\ Len(pending) \in Nat /\ DOMAIN pending = 1..Len(pending)
         /\ \A q \in DOMAIN pending : pending'[q] = pending[q]
         /\ pending'[Len(pending) + 1] = [owner |-> i, kind |-> kind, node |-> node]
<1> DEFINE tx == [owner |-> i, kind |-> kind, node |-> node]
<1>1. pending \in Seq(Tx) /\ pending' = Append(pending, tx) /\ tx \in Tx
  BY DEF RelayerTypeOK, Broadcast
<1> HIDE DEF tx
<1>2. QED
  BY <1>1, AppendProperties, LenProperties DEF tx

(* The transaction just sent is the last of the queue.                          *)
LEMMA SentLast ==
  ASSUME RelayerTypeOK, NEW tx \in Tx, pending' = Append(pending, tx)
  PROVE  \E last \in Nat :
           /\ DOMAIN pending' = DOMAIN pending \cup {last}
           /\ \A q \in DOMAIN pending : q \in Nat /\ q < last /\ pending'[q] = pending[q]
           /\ pending'[last] = tx
<1>1. pending \in Seq(Tx)
  BY DEF RelayerTypeOK
<1>2. PICK last \in Nat : last = Len(pending) + 1
  BY <1>1, LenProperties
<1>3. /\ DOMAIN pending' = DOMAIN pending \cup {last}
      /\ Len(pending) \in Nat /\ DOMAIN pending = 1..Len(pending)
      /\ \A q \in DOMAIN pending : pending'[q] = pending[q]
      /\ pending'[last] = tx
  BY <1>1, <1>2, AppendProperties, LenProperties
<1>4. \A q \in DOMAIN pending : q \in Nat /\ q < last
  BY <1>2, <1>3
<1>5. QED
  BY <1>3, <1>4

(* What a crash or a lost response leaves in the mempool differs in its owners. *)
LEMMA OrphansTyped ==
  ASSUME RelayerTypeOK, NEW i \in Instances, Abandon(i)
  PROVE  /\ pending' \in Seq(Tx) /\ DOMAIN pending' = DOMAIN pending
         /\ \A q \in DOMAIN pending :
              /\ pending'[q].kind = pending[q].kind /\ pending'[q].node = pending[q].node
              /\ pending'[q].owner # i
              /\ pending'[q].owner # NoOne => pending'[q].owner = pending[q].owner
<1>1. DOMAIN pending = 1..Len(pending) /\ Len(pending) \in Nat
      /\ \A q \in DOMAIN pending : pending[q] \in Tx
  BY LenProperties, ElementOfSeq DEF RelayerTypeOK
<1>2. \A tx \in Tx : /\ [tx EXCEPT !.owner = NoOne] \in Tx
                     /\ [tx EXCEPT !.owner = NoOne].owner = NoOne
                     /\ [tx EXCEPT !.owner = NoOne].kind = tx.kind
                     /\ [tx EXCEPT !.owner = NoOne].node = tx.node
  BY DEF Tx
<1>3. DOMAIN pending' = DOMAIN pending /\ \A q \in DOMAIN pending :
        pending'[q] = IF pending[q].owner = i THEN [pending[q] EXCEPT !.owner = NoOne]
                      ELSE pending[q]
  BY DEF Abandon
<1>4. \A q \in DOMAIN pending : pending'[q] \in Tx
  BY <1>1, <1>2, <1>3
<1>5. pending' \in [1..Len(pending) -> Tx]
  BY <1>1, <1>3, <1>4 DEF Abandon
<1>6. pending' \in Seq(Tx)
  BY <1>1, <1>5
<1>7. i # NoOne
  BY RelayerAssumption
<1>8. ASSUME NEW q \in DOMAIN pending
      PROVE  /\ pending'[q].kind = pending[q].kind /\ pending'[q].node = pending[q].node
             /\ pending'[q].owner # i
             /\ pending'[q].owner # NoOne => pending'[q].owner = pending[q].owner
  <2>1. PICK tx \in Tx : tx = pending[q]
    BY <1>1
  <2>2. CASE tx.owner = i
    <3>1. pending'[q] = [tx EXCEPT !.owner = NoOne]
      BY <1>3, <2>1, <2>2
    <3>2. QED
      BY <1>2, <1>7, <2>1, <3>1
  <2>3. CASE tx.owner # i
    <3>1. pending'[q] = tx
      BY <1>3, <2>1, <2>3
    <3>2. QED
      BY <2>1, <2>3, <3>1
  <2>4. QED
    BY <2>2, <2>3
<1>9. QED
  BY <1>3, <1>6, <1>8

(* The types are kept by a pass and by the faults.                              *)
LEMMA PassTypeInv ==
  ASSUME TypeInv, RelayerTypeInv, NEW i \in Instances, Pass(i) \/ ResponseLost(i) \/ Crash(i)
  PROVE  RelayerTypeInv'
<1> USE DEF RelayerTypeInv, RelayerTypeOK
<1>1. UNCHANGED currentCommit
  BY DEF Pass, Boot, Poll, ReadHead, ReadBet, Decide, SendSettle, SendRotate,
         WaitReturns, ResponseLost, Crash, Abandon, vars
<1>2. PICK poll \in Polled : poll = polled[i]
  OBVIOUS
<1>3. CASE Boot(i)
  <2>1. EpochOf(currentCommit) \in 0..MaxEpoch
    BY NodeFacts
  <2>2. epoch' = [epoch EXCEPT ![i] = EpochOf(currentCommit)]
    BY <1>3, ResolveFinds DEF Boot
  <2>3. QED
    BY <1>1, <1>3, <2>1, <2>2 DEF Boot, Goto, Label, RoomToRotate
<1>4. CASE Poll(i)
  BY <1>1, <1>4 DEF Poll, Goto, Label, RoomToRotate
<1>5. CASE ReadHead(i)
  <2>1. [poll EXCEPT !.head = currentCommit] \in Polled
    BY DEF Polled
  <2>2. polled' \in [Instances -> Polled]
    BY <1>2, <1>5, <2>1 DEF ReadHead
  <2>3. QED
    BY <1>1, <1>5, <2>2 DEF ReadHead, RoomToRotate
<1>6. CASE ReadBet(i)
  <2>1. activeBetId \in Nat
    BY DEF TypeInv, TypeOK
  <2>2. [poll EXCEPT !.bet = activeBetId] \in Polled
    BY <2>1 DEF Polled
  <2>3. polled' \in [Instances -> Polled]
    BY <1>2, <1>6, <2>2 DEF ReadBet
  <2>4. QED
    BY <1>1, <1>6, <2>3 DEF ReadBet, RoomToRotate
<1>7. CASE Decide(i)
  <2>1. polled' \in [Instances -> Polled]
    BY <1>7, EmptyPollTyped DEF Decide
  <2>2. polled[i].head \in ChainNode
    BY <1>2, <1>7 DEF Decide, Polled
  <2>3. epoch' \in [Instances -> 0..MaxEpoch]
    BY <1>7, <2>2, NodeFacts, ResolveFinds DEF Decide
  <2>4. /\ pc' \in [Instances -> Label]
        /\ \A j \in Instances : pc'[j] = "awaitRotate" => j # i /\ pc[j] = "awaitRotate"
    BY <1>7 DEF Decide, Goto, Label
  <2>5. \A j \in Instances : j # i => epoch'[j] = epoch[j]
    BY <1>7 DEF Decide
  <2>6. RoomToRotate'
    BY <2>4, <2>5 DEF RoomToRotate
  <2>7. QED
    BY <1>1, <1>7, <2>1, <2>3, <2>4, <2>6 DEF Decide
<1>8. CASE SendSettle(i)
  <2>1. pc' \in [Instances -> Label] /\ RoomToRotate'
    BY <1>8 DEF SendSettle, Goto, Label, RoomToRotate
  <2>2. UNCHANGED <<pending, published>> \/
        \E node \in Reveal : /\ Broadcast(i, "settle", node)
                             /\ published' = published \cup {node}
    <3> DEFINE round == roundForHead(epochChain(epoch[i]), currentCommit)
    <3>1. SUFFICES ASSUME round # 0, round < chainLength,
                          Broadcast(i, "settle", epochChain(epoch[i])[round]),
                          published' = published \cup {epochChain(epoch[i])[round]}
                   PROVE  epochChain(epoch[i])[round] \in Reveal
      BY <1>8 DEF SendSettle
    <3>2. EpochOf(currentCommit) = epoch[i] /\ round = IndexOf(currentCommit) + 1
      BY <3>1, RoundOf
    <3>3. round \in Round /\ round > 0
      <4>1. IndexOf(currentCommit) \in Nat
        BY NodeFacts DEF Round
      <4> HIDE DEF round
      <4>2. QED
        BY <3>1, <3>2, <4>1, ChainAssumption DEF Round
    <3>4. QED
      BY <3>3, PlaceOf DEF Reveal
  <2>3. pending' \in Seq(Tx) /\ published' \subseteq Reveal
    <3>1. ASSUME NEW node \in Reveal
          PROVE  [owner |-> i, kind |-> "settle", node |-> node] \in Tx
      BY DEF Tx
    <3>2. QED
      BY <2>2, <3>1, BroadcastTyped
  <2>4. QED
    BY <1>1, <1>8, <2>1, <2>3 DEF SendSettle
<1>9. CASE SendRotate(i)
  <2>1. pc' \in [Instances -> Label] /\ RoomToRotate'
    BY <1>9 DEF SendRotate, Goto, Label, RoomToRotate
  <2>2. [owner |-> i, kind |-> "rotate", node |-> RotationTarget(epoch[i])] \in Tx
    BY <1>9, RotationGoesTo DEF Tx, SendRotate
  <2>3. pending' \in Seq(Tx)
    BY <1>9, <2>2, BroadcastTyped DEF SendRotate
  <2>4. QED
    BY <1>1, <1>9, <2>1, <2>3 DEF SendRotate
<1>10. CASE WaitReturns(i)
  <2>1. epoch' \in [Instances -> 0..MaxEpoch]
    <3>1. pc[i] = "awaitRotate" => epoch[i] + 1 \in 0..MaxEpoch
      BY ChainsAssumption DEF RoomToRotate
    <3>2. QED
      BY <1>10, <3>1 DEF WaitReturns
  <2>2. pc' \in [Instances -> Label] /\ outcome' \in [Instances -> {"none", "success", "reverted"}]
    BY <1>10 DEF WaitReturns, Goto, Label
  <2>3. RoomToRotate'
    BY <1>10 DEF WaitReturns, Goto, RoomToRotate
  <2>4. QED
    BY <1>1, <1>10, <2>1, <2>2, <2>3 DEF WaitReturns
<1>11. CASE ResponseLost(i) \/ Crash(i)
  <2>1. Abandon(i) /\ (Goto(i, "idle") \/ Goto(i, "down"))
    BY <1>11 DEF ResponseLost, Crash
  <2>2. pending' \in Seq(Tx)
    BY <2>1, OrphansTyped
  <2>3. pc' \in [Instances -> Label] /\ RoomToRotate'
    BY <2>1 DEF Abandon, Goto, Label, RoomToRotate
  <2>4. QED
    BY <1>1, <2>1, <2>2, <2>3, EmptyPollTyped DEF Abandon
<1>12. QED
  BY <1>3, <1>4, <1>5, <1>6, <1>7, <1>8, <1>9, <1>10, <1>11 DEF Pass

(* And by the chain and the others.                                            *)
LEMMA MineTypeInv ==
  ASSUME RelayerTypeInv, Mine
  PROVE  RelayerTypeInv'
<1> USE DEF RelayerTypeInv
<1>1. PICK tx \in Tx, result \in {"success", "reverted"} :
        /\ pending # << >> /\ pending' = Tail(pending)
        /\ outcome' = [i \in Instances |-> IF i = tx.owner THEN result ELSE outcome[i]]
        /\ \/ tx.node \in Reveal /\ settleBet(tx.node)
           \/ tx.node \in Genesis0 /\ rotateChain(Relayer, tx.node)
           \/ UNCHANGED vars
        /\ UNCHANGED <<pc, polled, epoch, published>>
  BY MineCases
<1>2. currentCommit' \in ChainNode
  BY <1>1 DEF settleBet, rotateChain, vars, RelayerTypeOK, Reveal, Genesis0
<1>3. pending' \in Seq(Tx)
  BY <1>1, TailTyped
<1>4. RoomToRotate'
  BY <1>1 DEF RoomToRotate
<1>5. QED
  BY <1>1, <1>2, <1>3, <1>4 DEF RelayerTypeOK

LEMMA RelayerStepTypes ==
  ASSUME TypeInv, RelayerTypeInv, [RelayerNext]_allVars
  PROVE  RelayerTypeInv'
<1>1. CASE Others
  <2>1. currentCommit' \in ChainNode
    BY <1>1, OthersHead DEF settleBet, Reveal, RelayerTypeInv, RelayerTypeOK
  <2>2. QED
    BY <1>1, <2>1 DEF Others, relayerVars, processVars, RelayerTypeInv, RelayerTypeOK, RoomToRotate
<1>2. CASE UNCHANGED allVars
  BY <1>2 DEF allVars, vars, relayerVars, processVars, RelayerTypeInv, RelayerTypeOK, RoomToRotate
<1>3. QED
  BY <1>1, <1>2, PassTypeInv, MineTypeInv DEF RelayerNext

LEMMA RelayerTypeInvariant == RelayerSpec => [](TypeInv /\ RecordInv /\ RelayerTypeInv)
<1>1. RelayerInit => TypeInv /\ RecordInv /\ RelayerTypeInv
  BY TypeInvInit, RecordInvInit, RelayerTypeInit DEF RelayerInit
<1>2. ASSUME TypeInv, RecordInv, RelayerTypeInv, [RelayerNext]_allVars
      PROVE  TypeInv' /\ RecordInv' /\ RelayerTypeInv'
  <2>1. [Next]_vars
    BY <1>2, RelayerStepIsGameStep DEF RelayerTypeInv
  <2>2. QED
    BY <1>2, <2>1, StepCases, RecordInvStep, RelayerStepTypes
<1>3. QED
  BY <1>1, <1>2, PTL DEF RelayerSpec

(* Whatever the relayer does, however it fails and whoever copies its reveals,  *)
(* the game only ever takes steps of its own: every property of RushoodGame     *)
(* holds of a game driven by any number of relayers.                          *)
THEOREM RelayerPlaysTheGame == RelayerSpec => Spec
<1>1. RelayerInit => Init
  BY DEF RelayerInit
<1>2. RelayerTypeInv /\ [RelayerNext]_allVars => [Next]_vars
  BY RelayerStepIsGameStep DEF RelayerTypeInv
<1>3. QED
  BY <1>1, <1>2, RelayerTypeInvariant, PTL DEF RelayerSpec, Spec

(* The relayer's own variables keep their types.                               *)
THEOREM RelayerTypeCorrect == RelayerSpec => []RelayerTypeOK
BY RelayerTypeInvariant, PTL DEF RelayerTypeInv

------------------------------------------------------------------------------
(* One relayer, whose pending reveals nobody copies                          *)

IsRotation(q) == pending[q].kind = "rotate"
EpochAt(q)    == EpochOf(pending[q].node)

(* The relayer's epoch is the head's, or one behind a rotation that it has not *)
(* noticed yet and that no draw has followed.                                *)
EpochTracksHead ==
  \A i \in Instances :
    /\ epoch[i] <= HeadEpoch
    /\ HeadEpoch <= epoch[i] \/ (HeadEpoch = epoch[i] + 1 /\ HeadIndex = 0)

(* A head that was read is no further back than the relayer's epoch.           *)
PollsAreRecent ==
  \A i \in Instances :
    /\ pc[i] # "polling" => polled[i].head = Unread
    /\ polled[i].head # Unread =>
         epoch[i] <= EpochOf(polled[i].head) /\ EpochOf(polled[i].head) <= HeadEpoch

(* The relayer waits for the one transaction it sent, until that is mined, and  *)
(* a success means that the head has moved to the epoch it rotated to.         *)
Awaited ==
  \A i \in Instances :
    /\ pc[i] \notin Awaiting => outcome[i] = "none"
    /\ pc[i] = "awaitRotate" /\ outcome[i] = "success" => HeadEpoch = epoch[i] + 1
    /\ \A q \in DOMAIN pending : pending[q].owner = i =>
         /\ outcome[i] = "none"
         /\ \A p \in DOMAIN pending : pending[p].owner = i => p = q
         /\ IF IsRotation(q) THEN pc[i] = "awaitRotate" /\ EpochAt(q) = epoch[i] + 1
            ELSE pc[i] = "awaitSettle"

(* A published reveal is at most the successor of the head, and of no epoch     *)
(* after the relayer's.                                                       *)
PublishedBehind ==
  /\ \A r \in published :
       /\ EpochOf(r) <= HeadEpoch
       /\ EpochOf(r) = HeadEpoch => IndexOf(r) <= HeadIndex + 1
       /\ \A i \in Instances : EpochOf(r) <= epoch[i]
  /\ \A q \in DOMAIN pending : ~IsRotation(q) => pending[q].node \in published

(* A pending rotation takes the head forward, or leaves it where it is.        *)
RotationsAhead ==
  \A q \in DOMAIN pending : IsRotation(q) =>
    /\ HeadEpoch < EpochAt(q) \/ (HeadEpoch = EpochAt(q) /\ HeadIndex = 0)
    /\ \A i \in Instances : EpochAt(q) <= epoch[i] + 1

(* Behind anything pending wait only rotations further on.                     *)
InOrder ==
  \A p, q \in DOMAIN pending : p < q /\ IsRotation(q) =>
    IF IsRotation(p) THEN EpochAt(p) <= EpochAt(q) ELSE EpochAt(p) < EpochAt(q)

(* So do all that are pending when a reveal that others may use is public.     *)
KnownBehind ==
  \A r \in Known, q \in DOMAIN pending : IsRotation(q) => EpochOf(r) < EpochAt(q)

(* Every reveal used so far is behind the head, or is the head.                *)
UsedBehind ==
  \A b \in BetId : bets[b].reveal # NoReveal =>
    /\ bets[b].reveal \in Reveal
    /\ \/ EpochOf(bets[b].reveal) < HeadEpoch
       \/ EpochOf(bets[b].reveal) = HeadEpoch /\ IndexOf(bets[b].reveal) <= HeadIndex

(* If the preimage of the head is public, a bet was placed on this head that is *)
(* open, or was refunded.                                                     *)
LeakedByABet ==
  Leaked => \E b \in 1..betCounter :
              /\ bets[b].commit = currentCommit
              /\ b = activeBetId \/ (bets[b].settled /\ bets[b].reveal = NoReveal)

QueueInv == PublishedBehind /\ RotationsAhead /\ InOrder /\ KnownBehind
ProcessInv == EpochTracksHead /\ PollsAreRecent /\ Awaited
ChainInv == QueueInv /\ ProcessInv /\ UsedBehind /\ RevealsUsedOnce /\ LeakedByABet

(* What the theorems below assume: the relayer is run once, and a reveal that   *)
(* is still pending cannot be used by somebody else.                          *)
OneRelayer == (\E me : Instances = {me}) /\ ~CopiesPending

LEMMA Numbers ==
  ASSUME RelayerTypeOK
  PROVE  /\ HeadEpoch \in Nat /\ HeadIndex \in Nat
         /\ \A i \in Instances : epoch[i] \in Nat
         /\ \A node \in ChainNode : EpochOf(node) \in Nat /\ IndexOf(node) \in Nat
         /\ \A r \in Reveal : r \in ChainNode /\ IndexOf(r) > 0
         /\ \A g \in Genesis0 : g \in ChainNode /\ IndexOf(g) = 0
         /\ DOMAIN pending = 1..Len(pending) /\ Len(pending) \in Nat
         /\ \A q \in DOMAIN pending :
              /\ q \in Nat /\ EpochAt(q) \in Nat
              /\ IF IsRotation(q) THEN pending[q].node \in Genesis0
                 ELSE pending[q].kind = "settle" /\ pending[q].node \in Reveal
<1>1. \A node \in ChainNode : EpochOf(node) \in Nat /\ IndexOf(node) \in Nat
  BY NodeFacts DEF Round
<1>2. /\ DOMAIN pending = 1..Len(pending) /\ Len(pending) \in Nat
      /\ \A q \in DOMAIN pending : pending[q] \in Tx
  BY LenProperties, ElementOfSeq DEF RelayerTypeOK
<1>3. ASSUME NEW q \in DOMAIN pending
      PROVE  IF IsRotation(q) THEN pending[q].node \in Genesis0
             ELSE pending[q].kind = "settle" /\ pending[q].node \in Reveal
  BY <1>2 DEF Tx, IsRotation
<1>4. \A q \in DOMAIN pending : q \in Nat /\ EpochAt(q) \in Nat
  BY <1>1, <1>2, <1>3 DEF EpochAt, Reveal, Genesis0
<1>5. \A i \in Instances : epoch[i] \in Nat
  BY DEF RelayerTypeOK
<1>6. HeadEpoch \in Nat /\ HeadIndex \in Nat
  BY <1>1 DEF RelayerTypeOK, HeadEpoch, HeadIndex
<1>7. QED
  BY <1>1, <1>2, <1>3, <1>4, <1>5, <1>6 DEF Reveal, Genesis0

(* A settlement takes the head to the next node of its chain.                  *)
LEMMA SettleMovesHead ==
  ASSUME RelayerTypeOK, NEW r \in Reveal, settleBet(r)
  PROVE  /\ HeadEpoch' = HeadEpoch /\ HeadEpoch = EpochOf(r)
         /\ HeadIndex' = HeadIndex + 1 /\ IndexOf(r) = HeadIndex + 1
<1>1. keccak[r] = currentCommit /\ currentCommit' = r
  BY DEF settleBet
<1>2. IndexOf(r) \in Int
  BY Numbers
<1>3. QED
  BY <1>1, <1>2, RevealFacts DEF HeadEpoch, HeadIndex

LEMMA RotationMovesHead ==
  ASSUME RelayerTypeOK, NEW g \in Genesis0, rotateChain(Relayer, g)
  PROVE  HeadEpoch' = EpochOf(g) /\ HeadIndex' = 0
BY DEF rotateChain, HeadEpoch, HeadIndex, Genesis0

(* Others repeat a known reveal, or leave the head alone.                       *)
LEMMA OthersChainInv ==
  ASSUME RelayerTypeOK, RelayerTypeOK', QueueInv, ProcessInv, Others
  PROVE  QueueInv' /\ ProcessInv'
<1>1. UNCHANGED <<pc, polled, epoch, outcome, pending, published>>
  BY DEF Others, relayerVars, processVars
<1>2. InOrder' /\ KnownBehind'
  BY <1>1 DEF QueueInv, InOrder, KnownBehind, IsRotation, EpochAt, Known
<1>3. CASE UNCHANGED currentCommit
  BY <1>1, <1>2, <1>3 DEF QueueInv, ProcessInv, EpochTracksHead, PollsAreRecent, Awaited,
     PublishedBehind, RotationsAhead, IsRotation, EpochAt, HeadEpoch, HeadIndex
<1>4. ASSUME NEW r \in Known, r \in Reveal, settleBet(r)
      PROVE  QueueInv' /\ ProcessInv'
  <2>1. /\ HeadEpoch' = HeadEpoch /\ HeadEpoch = EpochOf(r)
        /\ HeadIndex' = HeadIndex + 1
    BY <1>4, SettleMovesHead
  <2>2. r \in published
    BY DEF Known
  <2>3. \A i \in Instances : HeadEpoch <= epoch[i]
    BY <2>1, <2>2 DEF QueueInv, PublishedBehind
  <2>4. EpochTracksHead' /\ PollsAreRecent' /\ Awaited'
    BY <1>1, <2>1, <2>3 DEF ProcessInv, EpochTracksHead, PollsAreRecent, Awaited,
       IsRotation, EpochAt
  <2>5. PublishedBehind'
    BY <1>1, <2>1, Numbers DEF QueueInv, PublishedBehind, IsRotation, RelayerTypeOK
  <2>6. RotationsAhead'
    BY <1>1, <1>4, <2>1, Numbers DEF QueueInv, RotationsAhead, KnownBehind, IsRotation, EpochAt
  <2>7. QED
    BY <1>2, <2>4, <2>5, <2>6 DEF QueueInv, ProcessInv
<1>5. QED
  BY <1>3, <1>4, OthersHead

(* Mining shifts the queue by one place.                                       *)
LEMMA MineShifts ==
  ASSUME RelayerTypeOK, Mine
  PROVE  /\ 1 \in DOMAIN pending
         /\ \A q \in DOMAIN pending' : /\ q + 1 \in DOMAIN pending /\ 1 < q + 1
                                       /\ pending'[q] = pending[q + 1]
                                       /\ IsRotation(q)' <=> IsRotation(q + 1)
                                       /\ EpochAt(q)' = EpochAt(q + 1)
         /\ \A p, q \in DOMAIN pending' : p < q => p + 1 < q + 1
<1>1. pending # << >> /\ pending' = Tail(pending)
  BY MineCases
<1>2. \A q \in DOMAIN pending' : q \in Nat /\ q + 1 \in DOMAIN pending /\ pending'[q] = pending[q + 1]
  BY <1>1, TailTyped
<1>3. 1 \in DOMAIN pending
  BY <1>1, TailTyped
<1>4. ASSUME NEW q \in DOMAIN pending'
      PROVE  (IsRotation(q)' <=> IsRotation(q + 1)) /\ EpochAt(q)' = EpochAt(q + 1)
  BY <1>2 DEF IsRotation, EpochAt
<1>5. \A q \in DOMAIN pending' : 1 < q + 1
  BY <1>1, TailTyped
<1>6. \A p, q \in DOMAIN pending' : p < q => p + 1 < q + 1
  BY <1>2
<1>7. QED
  BY <1>2, <1>3, <1>4, <1>5, <1>6

(* What the oldest transaction does to the head.                               *)
LEMMA MineHead ==
  ASSUME RelayerTypeOK, Mine
  PROVE  \E result \in {"success", "reverted"} :
           /\ outcome' = [i \in Instances |-> IF i = pending[1].owner THEN result ELSE outcome[i]]
           /\ \/ /\ ~IsRotation(1) /\ HeadEpoch' = HeadEpoch /\ HeadEpoch = EpochAt(1)
                 /\ HeadIndex' = HeadIndex + 1
              \/ IsRotation(1) /\ HeadEpoch' = EpochAt(1) /\ HeadIndex' = 0
              \/ result = "reverted" /\ HeadEpoch' = HeadEpoch /\ HeadIndex' = HeadIndex
<1>1. PICK tx \in Tx, result \in {"success", "reverted"} :
        /\ tx = Head(pending)
        /\ outcome' = [i \in Instances |-> IF i = tx.owner THEN result ELSE outcome[i]]
        /\ \/ tx.kind = "settle" /\ tx.node \in Reveal /\ settleBet(tx.node)
           \/ tx.kind = "rotate" /\ tx.node \in Genesis0 /\ rotateChain(Relayer, tx.node)
           \/ result = "reverted" /\ UNCHANGED vars
  BY MineCases
<1>2. tx = pending[1]
  BY <1>1
<1>3. CASE result = "reverted" /\ UNCHANGED vars
  BY <1>1, <1>2, <1>3 DEF vars, HeadEpoch, HeadIndex
<1>4. CASE tx.kind = "settle" /\ tx.node \in Reveal /\ settleBet(tx.node)
  <2>1. /\ HeadEpoch' = HeadEpoch /\ HeadEpoch = EpochOf(tx.node)
        /\ HeadIndex' = HeadIndex + 1
    BY <1>4, SettleMovesHead
  <2>2. ~IsRotation(1) /\ EpochAt(1) = EpochOf(tx.node)
    BY <1>2, <1>4 DEF IsRotation, EpochAt
  <2>3. QED
    BY <1>1, <1>2, <2>1, <2>2
<1>5. CASE tx.kind = "rotate" /\ tx.node \in Genesis0 /\ rotateChain(Relayer, tx.node)
  <2>1. HeadEpoch' = EpochOf(tx.node) /\ HeadIndex' = 0
    BY <1>5, RotationMovesHead
  <2>2. IsRotation(1) /\ EpochAt(1) = EpochOf(tx.node)
    BY <1>2, <1>5 DEF IsRotation, EpochAt
  <2>3. QED
    BY <1>1, <1>2, <2>1, <2>2
<1>6. QED
  BY <1>1, <1>3, <1>4, <1>5

LEMMA MineChainInv ==
  ASSUME ~CopiesPending, RelayerTypeOK, RelayerTypeOK', QueueInv, ProcessInv, Mine
  PROVE  QueueInv' /\ ProcessInv'
<1> USE DEF QueueInv, ProcessInv
<1>1. UNCHANGED <<pc, polled, epoch, published>>
  BY MineCases
<1>2. PICK result \in {"success", "reverted"} :
        /\ outcome' = [i \in Instances |-> IF i = pending[1].owner THEN result ELSE outcome[i]]
        /\ \/ /\ ~IsRotation(1) /\ HeadEpoch' = HeadEpoch /\ HeadEpoch = EpochAt(1)
              /\ HeadIndex' = HeadIndex + 1
           \/ IsRotation(1) /\ HeadEpoch' = EpochAt(1) /\ HeadIndex' = 0
           \/ result = "reverted" /\ HeadEpoch' = HeadEpoch /\ HeadIndex' = HeadIndex
  BY MineHead
<1>3. /\ HeadEpoch \in Nat /\ HeadIndex \in Nat /\ HeadEpoch' \in Nat /\ HeadIndex' \in Nat
      /\ 1 \in DOMAIN pending /\ EpochAt(1) \in Nat
      /\ \A i \in Instances : epoch[i] \in Nat
      /\ \A r \in published : EpochOf(r) \in Nat /\ IndexOf(r) \in Nat
  <2>1. HeadEpoch' \in Nat /\ HeadIndex' \in Nat
    BY NodeFacts DEF RelayerTypeOK, HeadEpoch, HeadIndex, Round
  <2>2. QED
    BY <2>1, MineShifts, Numbers DEF RelayerTypeOK
<1>4. \/ HeadEpoch' = HeadEpoch /\ HeadIndex' = HeadIndex
      \/ ~IsRotation(1) /\ HeadEpoch' = HeadEpoch /\ HeadEpoch = EpochAt(1) /\ HeadIndex' = HeadIndex + 1
      \/ IsRotation(1) /\ HeadEpoch' = EpochAt(1) /\ HeadIndex' = 0 /\ HeadEpoch < HeadEpoch'
  BY <1>2, <1>3 DEF RotationsAhead
<1>5. InOrder'
  BY MineShifts DEF InOrder
<1>6. PublishedBehind'
  <2>1. \A r \in published : /\ EpochOf(r) <= HeadEpoch'
                             /\ EpochOf(r) = HeadEpoch' => IndexOf(r) <= HeadIndex' + 1
    BY <1>3, <1>4 DEF PublishedBehind
  <2>2. \A q \in DOMAIN pending' : ~IsRotation(q)' => pending'[q].node \in published
    BY MineShifts DEF PublishedBehind
  <2>3. QED
    BY <1>1, <2>1, <2>2 DEF PublishedBehind, IsRotation
<1>7. RotationsAhead'
  <2>1. ASSUME NEW q \in DOMAIN pending', IsRotation(q)'
        PROVE  /\ HeadEpoch' < EpochAt(q)' \/ (HeadEpoch' = EpochAt(q)' /\ HeadIndex' = 0)
               /\ \A i \in Instances : EpochAt(q)' <= epoch[i] + 1
    <3>1. /\ q + 1 \in DOMAIN pending /\ 1 < q + 1 /\ IsRotation(q + 1)
          /\ EpochAt(q)' = EpochAt(q + 1) /\ EpochAt(q + 1) \in Nat
      BY <2>1, MineShifts, Numbers
    <3>2. IF IsRotation(1) THEN EpochAt(1) <= EpochAt(q + 1) ELSE EpochAt(1) < EpochAt(q + 1)
      BY <1>3, <3>1 DEF InOrder
    <3>3. /\ HeadEpoch < EpochAt(q + 1) \/ (HeadEpoch = EpochAt(q + 1) /\ HeadIndex = 0)
          /\ \A i \in Instances : EpochAt(q + 1) <= epoch[i] + 1
      BY <3>1 DEF RotationsAhead
    <3>4. QED
      BY <1>3, <1>4, <3>1, <3>2, <3>3
  <2>2. QED
    BY <1>1, <2>1 DEF RotationsAhead
<1>8. KnownBehind'
  <2>1. ASSUME NEW r \in Known', NEW q \in DOMAIN pending', IsRotation(q)'
        PROVE  EpochOf(r) < EpochAt(q)'
    <3>1. /\ q + 1 \in DOMAIN pending /\ 1 < q + 1 /\ IsRotation(q + 1)
          /\ EpochAt(q)' = EpochAt(q + 1)
      BY <2>1, MineShifts
    <3>2. CASE r \in Known
      BY <3>1, <3>2 DEF KnownBehind
    <3>3. CASE r \notin Known
      <4>1. r \in published /\ r \in Reveal
        BY <1>1 DEF Known, RelayerTypeOK
      <4>2. PICK k \in DOMAIN pending : pending[k].node = r
        BY <3>3, <4>1 DEF Known
      <4>3. k = 1
        <5>1. SUFFICES ASSUME k # 1 PROVE FALSE
          OBVIOUS
        <5>2. k - 1 \in DOMAIN pending' /\ (k - 1) + 1 = k
          BY <5>1, MineCases, TailTyped
        <5>3. pending'[k - 1].node = r
          BY <4>2, <5>2, MineShifts
        <5>4. QED
          BY <2>1, <5>2, <5>3 DEF Known
      <4>4. ~IsRotation(1) /\ EpochAt(1) = EpochOf(r)
        <5>1. IsRotation(1) => pending[1].node \in Genesis0
          BY <1>3, Numbers
        <5>2. r \notin Genesis0
          BY <4>1, Numbers
        <5>3. QED
          BY <4>2, <4>3, <5>1, <5>2 DEF EpochAt
      <4>5. QED
        BY <1>3, <3>1, <4>4 DEF InOrder
    <3>4. QED
      BY <3>2, <3>3
  <2>2. QED
    BY <2>1 DEF KnownBehind
<1>9. EpochTracksHead'
  <2>1. ~IsRotation(1) => \A i \in Instances : EpochAt(1) <= epoch[i]
    BY <1>3 DEF PublishedBehind, EpochAt
  <2>2. IsRotation(1) => \A i \in Instances : EpochAt(1) <= epoch[i] + 1
    BY <1>3 DEF RotationsAhead
  <2>3. QED
    BY <1>1, <1>3, <1>4, <2>1, <2>2 DEF EpochTracksHead
<1>10. PollsAreRecent'
  <2>1. HeadEpoch <= HeadEpoch'
    BY <1>3, <1>4
  <2>2. \A i \in Instances : polled[i].head # Unread => EpochOf(polled[i].head) \in Nat
    BY Numbers DEF RelayerTypeOK, Polled
  <2>3. QED
    BY <1>1, <1>3, <2>1, <2>2 DEF PollsAreRecent
<1>11. Awaited'
  <2>1. ASSUME NEW i \in Instances, pc[i] \notin Awaiting
        PROVE  outcome'[i] = "none"
    <3>1. outcome[i] = "none" /\ pending[1].owner # i
      BY <1>3, <2>1 DEF Awaited, Awaiting
    <3>2. QED
      BY <1>2, <3>1
  <2>2. ASSUME NEW i \in Instances, pc[i] = "awaitRotate", outcome'[i] = "success"
        PROVE  HeadEpoch' = epoch[i] + 1
    <3>1. CASE pending[1].owner = i
      <4>1. IsRotation(1) /\ EpochAt(1) = epoch[i] + 1
        BY <1>3, <2>2, <3>1 DEF Awaited
      <4>2. result = "success"
        BY <1>2, <2>2, <3>1
      <4>3. QED
        BY <1>2, <4>1, <4>2
    <3>2. CASE pending[1].owner # i
      <4>1. HeadEpoch = epoch[i] + 1
        BY <1>2, <2>2, <3>2 DEF Awaited
      <4>2. HeadEpoch' <= epoch[i] + 1
        BY <1>1, <1>3, <1>9 DEF EpochTracksHead
      <4>3. QED
        BY <1>3, <1>4, <4>1, <4>2
    <3>3. QED
      BY <3>1, <3>2
  <2>3. ASSUME NEW i \in Instances, NEW q \in DOMAIN pending', pending'[q].owner = i
        PROVE  /\ outcome'[i] = "none"
               /\ \A p \in DOMAIN pending' : pending'[p].owner = i => p = q
               /\ IF IsRotation(q)' THEN pc[i] = "awaitRotate" /\ EpochAt(q)' = epoch[i] + 1
                  ELSE pc[i] = "awaitSettle"
    <3>1. q + 1 \in DOMAIN pending /\ pending[q + 1].owner = i /\ q + 1 # 1
      BY <2>3, MineShifts
    <3>2. pending[1].owner # i /\ outcome[i] = "none"
      BY <1>3, <3>1 DEF Awaited
    <3>3. outcome'[i] = "none"
      BY <1>2, <3>2
    <3>4. ASSUME NEW p \in DOMAIN pending', pending'[p].owner = i PROVE p = q
      <4>1. p + 1 \in DOMAIN pending /\ pending[p + 1].owner = i
        BY <3>4, MineShifts
      <4>2. p + 1 = q + 1 /\ p \in Nat /\ q \in Nat
        BY <3>1, <4>1, MineCases, TailTyped DEF Awaited
      <4>3. QED
        BY <4>2
    <3>5. IF IsRotation(q + 1) THEN pc[i] = "awaitRotate" /\ EpochAt(q + 1) = epoch[i] + 1
          ELSE pc[i] = "awaitSettle"
      BY <3>1 DEF Awaited
    <3>6. QED
      BY <3>3, <3>4, <3>5, MineShifts
  <2>4. QED
    BY <1>1, <2>1, <2>2, <2>3 DEF Awaited
<1>12. QED
  BY <1>5, <1>6, <1>7, <1>8, <1>9, <1>10, <1>11

(* The steps of a pass that send nothing: what they learn of the head is at     *)
(* least what the relayer knew.                                               *)
LEMMA SilentChainInv ==
  ASSUME NEW i \in Instances, Instances = {i}, RelayerTypeOK, QueueInv, ProcessInv,
         Boot(i) \/ Poll(i) \/ ReadHead(i) \/ ReadBet(i) \/ Decide(i) \/ WaitReturns(i)
  PROVE  QueueInv' /\ ProcessInv'
<1> USE DEF QueueInv, ProcessInv
<1>1. /\ UNCHANGED <<pending, published, currentCommit>>
      /\ HeadEpoch' = HeadEpoch /\ HeadIndex' = HeadIndex /\ HeadEpoch \in Nat /\ epoch[i] \in Nat
  BY Numbers DEF Boot, Poll, ReadHead, ReadBet, Decide, WaitReturns, vars, HeadEpoch, HeadIndex
<1>2. /\ pc \in [Instances -> Label] /\ polled \in [Instances -> Polled]
      /\ epoch \in [Instances -> 0..MaxEpoch]
      /\ outcome \in [Instances -> {"none", "success", "reverted"}]
  BY DEF RelayerTypeOK
<1>3. InOrder' /\ KnownBehind'
  BY <1>1 DEF InOrder, KnownBehind, IsRotation, EpochAt, Known
<1>4. /\ epoch'[i] \in Nat /\ epoch[i] <= epoch'[i] /\ epoch'[i] <= HeadEpoch
      /\ epoch'[i] = epoch[i] \/ epoch'[i] = HeadEpoch
  <2>1. CASE Boot(i)
    BY <1>1, <1>2, <2>1, ResolveFinds DEF Boot, RelayerTypeOK, HeadEpoch, EpochTracksHead
  <2>2. CASE Poll(i) \/ ReadHead(i) \/ ReadBet(i)
    BY <1>1, <2>2 DEF Poll, ReadHead, ReadBet, EpochTracksHead
  <2>3. CASE Decide(i)
    <3>1. polled[i].head # Unread /\ polled[i].head \in ChainNode
      BY <1>2, <2>3 DEF Decide, Polled
    <3>2. epoch[i] <= EpochOf(polled[i].head) /\ EpochOf(polled[i].head) <= HeadEpoch
      BY <3>1 DEF PollsAreRecent
    <3>3. epoch'[i] = epoch[i] \/ epoch'[i] = EpochOf(polled[i].head)
      BY <1>2, <2>3, <3>1, ResolveFinds DEF Decide
    <3>4. EpochOf(polled[i].head) \in Nat
      BY <3>1, Numbers
    <3>5. HeadEpoch <= epoch[i] + 1 /\ epoch[i] <= HeadEpoch
      BY <1>1 DEF EpochTracksHead
    <3>6. QED
      BY <1>1, <3>2, <3>3, <3>4, <3>5
  <2>4. CASE WaitReturns(i)
    <3>1. pc[i] = "awaitRotate" /\ outcome[i] = "success" => HeadEpoch = epoch[i] + 1
      BY DEF Awaited
    <3>2. epoch'[i] = IF pc[i] = "awaitRotate" /\ outcome[i] = "success"
                      THEN epoch[i] + 1 ELSE epoch[i]
      BY <1>2, <2>4 DEF WaitReturns
    <3>3. epoch[i] <= HeadEpoch
      BY DEF EpochTracksHead
    <3>4. QED
      BY <1>1, <3>1, <3>2, <3>3
  <2>5. QED
    BY <2>1, <2>2, <2>3, <2>4
<1>5. EpochTracksHead'
  BY <1>1, <1>4 DEF EpochTracksHead
<1>6. PublishedBehind'
  <2>1. \A r \in published : EpochOf(r) \in Nat /\ EpochOf(r) <= epoch'[i]
    BY <1>1, <1>4, Numbers DEF PublishedBehind, RelayerTypeOK
  <2>2. QED
    BY <1>1, <2>1 DEF PublishedBehind, IsRotation
<1>7. RotationsAhead'
  <2>1. \A q \in DOMAIN pending : IsRotation(q) => EpochAt(q) \in Nat /\ EpochAt(q) <= epoch'[i] + 1
    BY <1>1, <1>4, Numbers DEF RotationsAhead
  <2>2. QED
    BY <1>1, <2>1 DEF RotationsAhead, IsRotation, EpochAt
<1>8. PollsAreRecent'
  <2>1. CASE ReadHead(i)
    <3>1. polled'[i].head = currentCommit /\ epoch'[i] = epoch[i] /\ pc'[i] = "polling"
      BY <1>2, <2>1 DEF ReadHead, Polled
    <3>2. QED
      BY <1>1, <1>4, <3>1 DEF PollsAreRecent, HeadEpoch
  <2>2. CASE Decide(i)
    BY <1>2, <2>2 DEF Decide, Nothing, PollsAreRecent
  <2>3. CASE ReadBet(i)
    <3>1. polled'[i].head = polled[i].head /\ epoch'[i] = epoch[i] /\ pc'[i] = "polling"
      BY <1>2, <2>3 DEF ReadBet, Polled
    <3>2. QED
      BY <1>1, <3>1 DEF PollsAreRecent
  <2>4. CASE Boot(i) \/ WaitReturns(i)
    <3>1. polled'[i] = polled[i] /\ pc[i] # "polling"
      BY <2>4 DEF Boot, WaitReturns
    <3>2. polled'[i].head = Unread
      BY <3>1 DEF PollsAreRecent
    <3>3. QED
      BY <3>2 DEF PollsAreRecent
  <2>5. CASE Poll(i)
    <3>1. polled'[i].head = Unread
      BY <2>5 DEF Poll, PollsAreRecent
    <3>2. QED
      BY <3>1 DEF PollsAreRecent
  <2>6. QED
    BY <2>1, <2>2, <2>3, <2>4, <2>5
<1>9. Awaited'
  <2>1. CASE ReadHead(i) \/ ReadBet(i)
    BY <1>1, <2>1 DEF ReadHead, ReadBet, Awaited, IsRotation, EpochAt
  <2>2. CASE Boot(i) \/ Poll(i) \/ Decide(i)
    <3>1. pc[i] \notin Awaiting /\ pc'[i] \notin Awaiting /\ outcome'[i] = outcome[i]
      BY <1>2, <2>2 DEF Boot, Poll, Decide, Goto, Awaiting
    <3>2. outcome[i] = "none" /\ \A q \in DOMAIN pending : pending[q].owner # i
      BY <3>1 DEF Awaited, Awaiting
    <3>3. QED
      BY <1>1, <3>1, <3>2 DEF Awaited, Awaiting
  <2>3. CASE WaitReturns(i)
    <3>1. pc'[i] \notin Awaiting /\ outcome'[i] = "none" /\ outcome[i] # "none"
      BY <1>2, <2>3 DEF WaitReturns, Goto, Awaiting
    <3>2. \A q \in DOMAIN pending : pending[q].owner # i
      BY <3>1 DEF Awaited
    <3>3. QED
      BY <1>1, <3>1, <3>2 DEF Awaited, Awaiting
  <2>4. QED
    BY <2>1, <2>2, <2>3
<1>10. QED
  BY <1>3, <1>5, <1>6, <1>7, <1>8, <1>9

(* A reveal that is sent is the successor of the head, on the relayer's chain.   *)
LEMMA SendSettleCases ==
  ASSUME RelayerTypeOK, NEW i \in Instances, SendSettle(i)
  PROVE  \/ UNCHANGED <<pending, published>> /\ Goto(i, "idle")
         \/ /\ Goto(i, "awaitSettle") /\ activeBetId # 0
            /\ \E node \in Reveal :
                 /\ Broadcast(i, "settle", node) /\ published' = published \cup {node}
                 /\ EpochOf(node) = epoch[i] /\ epoch[i] = HeadEpoch
                 /\ IndexOf(node) = HeadIndex + 1 /\ keccak[node] = currentCommit
<1> DEFINE round == roundForHead(epochChain(epoch[i]), currentCommit)
           node == epochChain(epoch[i])[round]
<1>1. SUFFICES ASSUME activeBetId # 0, round # 0, round < chainLength
               PROVE  /\ node \in Reveal /\ EpochOf(node) = epoch[i] /\ epoch[i] = HeadEpoch
                      /\ IndexOf(node) = HeadIndex + 1 /\ keccak[node] = currentCommit
  BY DEF SendSettle
<1>2. epoch[i] \in 0..MaxEpoch /\ currentCommit \in ChainNode
  BY DEF RelayerTypeOK
<1>3. HeadEpoch = epoch[i] /\ round = HeadIndex + 1
  BY <1>1, <1>2, RoundOf DEF HeadEpoch, HeadIndex
<1>4. HeadIndex \in Nat
  BY Numbers
<1>5. round \in Round /\ round > 0
  <2> HIDE DEF round
  <2>1. QED
    BY <1>1, <1>3, <1>4, ChainAssumption DEF Round
<1>6. node \in ChainNode /\ EpochOf(node) = epoch[i] /\ IndexOf(node) = round
  BY <1>2, <1>5, PlaceOf
<1>7. node \in Reveal
  BY <1>5, <1>6 DEF Reveal
<1> HIDE DEF node, round
<1>8. /\ keccak[node] \in ChainNode /\ EpochOf(keccak[node]) = HeadEpoch
      /\ IndexOf(keccak[node]) = HeadIndex
  BY <1>3, <1>4, <1>6, <1>7, RevealFacts
<1>9. keccak[node] = currentCommit
  BY <1>2, <1>8, SamePlace DEF HeadEpoch, HeadIndex
<1>10. QED
  BY <1>3, <1>6, <1>7, <1>9

(* A relayer that stops waiting without having sent anything.                   *)
LEMMA BackToIdleChainInv ==
  ASSUME NEW i \in Instances, Instances = {i}, RelayerTypeOK, QueueInv, ProcessInv,
         pc[i] \notin Awaiting \cup {"polling"}, Goto(i, "idle"),
         UNCHANGED <<currentCommit, polled, epoch, outcome, pending, published>>
  PROVE  QueueInv' /\ ProcessInv'
<1>1. HeadEpoch' = HeadEpoch /\ HeadIndex' = HeadIndex
  BY DEF HeadEpoch, HeadIndex
<1>2. pc'[i] = "idle"
  BY DEF Goto, RelayerTypeOK
<1>3. QueueInv'
  BY <1>1 DEF QueueInv, PublishedBehind, RotationsAhead, InOrder, KnownBehind, Known,
              IsRotation, EpochAt
<1>4. EpochTracksHead' /\ PollsAreRecent'
  BY <1>1, <1>2 DEF ProcessInv, EpochTracksHead, PollsAreRecent
<1>5. outcome[i] = "none" /\ \A q \in DOMAIN pending : pending[q].owner # i
  BY DEF ProcessInv, Awaited, Awaiting
<1>6. Awaited'
  BY <1>2, <1>5 DEF Awaited, Awaiting
<1>7. QED
  BY <1>3, <1>4, <1>6 DEF ProcessInv

LEMMA SendSettleChainInv ==
  ASSUME NEW i \in Instances, Instances = {i}, ~CopiesPending, RelayerTypeOK,
         QueueInv, ProcessInv, SendSettle(i)
  PROVE  QueueInv' /\ ProcessInv'
<1> USE DEF QueueInv, ProcessInv
<1>1. /\ UNCHANGED <<currentCommit, polled, epoch, outcome>>
      /\ HeadEpoch' = HeadEpoch /\ HeadIndex' = HeadIndex
      /\ HeadEpoch \in Nat /\ HeadIndex \in Nat /\ pc[i] = "settling"
  BY Numbers DEF SendSettle, vars, HeadEpoch, HeadIndex
<1>2. CASE UNCHANGED <<pending, published>> /\ Goto(i, "idle")
  BY <1>1, <1>2, BackToIdleChainInv DEF Awaiting
<1>3. ASSUME NEW node \in Reveal, Goto(i, "awaitSettle"),
             Broadcast(i, "settle", node), published' = published \cup {node},
             EpochOf(node) = epoch[i], epoch[i] = HeadEpoch, IndexOf(node) = HeadIndex + 1
      PROVE  QueueInv' /\ ProcessInv'
  <2>1. PICK tx \in Tx : tx = [owner |-> i, kind |-> "settle", node |-> node]
    BY DEF Tx
  <2>2. PICK last \in Nat :
        /\ DOMAIN pending' = DOMAIN pending \cup {last}
        /\ \A q \in DOMAIN pending : q \in Nat /\ q < last /\ pending'[q] = pending[q]
        /\ pending'[last].owner = i /\ pending'[last].kind = "settle"
        /\ pending'[last].node = node
    <3>1. pending' = Append(pending, tx)
      BY <1>3, <2>1 DEF Broadcast
    <3>2. tx.owner = i /\ tx.kind = "settle" /\ tx.node = node
      BY <2>1
    <3>3. QED
      BY <3>1, <3>2, SentLast
  <2>3. pc'[i] = "awaitSettle"
    BY <1>3 DEF Goto, RelayerTypeOK
  <2>4. \A q \in DOMAIN pending' : IsRotation(q)' =>
          q \in DOMAIN pending /\ IsRotation(q) /\ EpochAt(q)' = EpochAt(q)
    BY <2>2 DEF IsRotation, EpochAt
  <2>5. PublishedBehind'
    <3>1. ASSUME NEW r \in published'
          PROVE  /\ EpochOf(r) <= HeadEpoch
                 /\ EpochOf(r) = HeadEpoch => IndexOf(r) <= HeadIndex + 1
                 /\ EpochOf(r) <= epoch[i]
      BY <1>1, <1>3 DEF PublishedBehind
    <3>2. \A q \in DOMAIN pending' : ~IsRotation(q)' => pending'[q].node \in published'
      BY <1>3, <2>2 DEF PublishedBehind, IsRotation
    <3>3. QED
      BY <1>1, <3>1, <3>2 DEF PublishedBehind
  <2>6. RotationsAhead'
    BY <1>1, <2>4 DEF RotationsAhead
  <2>7. InOrder'
    <3>1. ASSUME NEW p \in DOMAIN pending', NEW q \in DOMAIN pending', p < q, IsRotation(q)'
          PROVE  IF IsRotation(p)' THEN EpochAt(p)' <= EpochAt(q)' ELSE EpochAt(p)' < EpochAt(q)'
      <4>1. q \in DOMAIN pending /\ IsRotation(q) /\ EpochAt(q)' = EpochAt(q)
        BY <2>4, <3>1
      <4>2. p \in DOMAIN pending
        BY <2>2, <3>1, <4>1
      <4>3. (IsRotation(p)' <=> IsRotation(p)) /\ EpochAt(p)' = EpochAt(p)
        BY <2>2, <4>2 DEF IsRotation, EpochAt
      <4>4. IF IsRotation(p) THEN EpochAt(p) <= EpochAt(q) ELSE EpochAt(p) < EpochAt(q)
        BY <3>1, <4>1, <4>2 DEF InOrder
      <4>5. QED
        BY <4>1, <4>3, <4>4
    <3>2. QED
      BY <3>1 DEF InOrder
  <2>8. KnownBehind'
    <3>1. Known' \subseteq Known
      BY <1>3, <2>2 DEF Known
    <3>2. QED
      BY <2>4, <3>1 DEF KnownBehind
  <2>9. EpochTracksHead' /\ PollsAreRecent'
    BY <1>1, <2>3 DEF EpochTracksHead, PollsAreRecent
  <2>10. outcome[i] = "none" /\ \A q \in DOMAIN pending : pending[q].owner # i
    BY <1>1 DEF Awaited, Awaiting
  <2>11. Awaited'
    BY <1>1, <2>2, <2>3, <2>10 DEF Awaited, Awaiting, IsRotation
  <2>12. QED
    BY <2>5, <2>6, <2>7, <2>8, <2>9, <2>11
<1>4. QED
  BY <1>2, <1>3, SendSettleCases

LEMMA SendRotateChainInv ==
  ASSUME NEW i \in Instances, Instances = {i}, ~CopiesPending, RelayerTypeOK,
         QueueInv, ProcessInv, SendRotate(i)
  PROVE  QueueInv' /\ ProcessInv'
<1> USE DEF QueueInv, ProcessInv
<1>1. /\ UNCHANGED <<currentCommit, polled, epoch, outcome, published>>
      /\ HeadEpoch' = HeadEpoch /\ HeadIndex' = HeadIndex
      /\ HeadEpoch \in Nat /\ HeadIndex \in Nat /\ epoch[i] \in Nat /\ pc[i] = "rotating"
  BY Numbers DEF SendRotate, vars, HeadEpoch, HeadIndex
<1>2. CASE UNCHANGED pending /\ Goto(i, "idle")
  BY <1>1, <1>2, BackToIdleChainInv DEF Awaiting
<1>3. CASE Broadcast(i, "rotate", RotationTarget(epoch[i])) /\ Goto(i, "awaitRotate")
  <2>1. PICK node \in Genesis0 : node = RotationTarget(epoch[i]) /\ EpochOf(node) = epoch[i] + 1
    BY RotationGoesTo DEF SendRotate, RelayerTypeOK
  <2>2. PICK tx \in Tx : tx = [owner |-> i, kind |-> "rotate", node |-> node]
    BY DEF Tx
  <2>3. PICK last \in Nat :
        /\ DOMAIN pending' = DOMAIN pending \cup {last}
        /\ \A q \in DOMAIN pending : q \in Nat /\ q < last /\ pending'[q] = pending[q]
        /\ pending'[last].owner = i /\ pending'[last].kind = "rotate"
        /\ pending'[last].node = node
    <3>1. pending' = Append(pending, tx)
      BY <1>3, <2>1, <2>2 DEF Broadcast
    <3>2. tx.owner = i /\ tx.kind = "rotate" /\ tx.node = node
      BY <2>2
    <3>3. QED
      BY <3>1, <3>2, SentLast
  <2>4. pc'[i] = "awaitRotate"
    BY <1>3 DEF Goto, RelayerTypeOK
  <2>5. \A q \in DOMAIN pending : (IsRotation(q)' <=> IsRotation(q)) /\ EpochAt(q)' = EpochAt(q)
    BY <2>3 DEF IsRotation, EpochAt
  <2>6. IsRotation(last)' /\ EpochAt(last)' = epoch[i] + 1
    BY <2>1, <2>3 DEF IsRotation, EpochAt
  <2>7. PublishedBehind'
    <3>1. \A q \in DOMAIN pending' : ~IsRotation(q)' => pending'[q].node \in published
      BY <2>3, <2>5, <2>6 DEF PublishedBehind
    <3>2. QED
      BY <1>1, <3>1 DEF PublishedBehind
  <2>8. HeadEpoch < epoch[i] + 1 \/ (HeadEpoch = epoch[i] + 1 /\ HeadIndex = 0)
    BY <1>1 DEF EpochTracksHead
  <2>9. RotationsAhead'
    <3>1. ASSUME NEW q \in DOMAIN pending', IsRotation(q)'
          PROVE  /\ HeadEpoch < EpochAt(q)' \/ (HeadEpoch = EpochAt(q)' /\ HeadIndex = 0)
                 /\ EpochAt(q)' <= epoch[i] + 1
      <4>1. CASE q = last
        BY <1>1, <2>6, <2>8, <4>1
      <4>2. CASE q \in DOMAIN pending
        BY <2>5, <3>1, <4>2 DEF RotationsAhead
      <4>3. QED
        BY <2>3, <4>1, <4>2
    <3>2. QED
      BY <1>1, <3>1 DEF RotationsAhead
  <2>10. \A q \in DOMAIN pending :
           IF IsRotation(q) THEN EpochAt(q) <= epoch[i] + 1 ELSE EpochAt(q) < epoch[i] + 1
    <3>1. \A q \in DOMAIN pending : ~IsRotation(q) => EpochAt(q) <= epoch[i] /\ EpochAt(q) \in Nat
      BY Numbers DEF PublishedBehind, EpochAt
    <3>2. QED
      BY <1>1, <3>1 DEF RotationsAhead
  <2>11. InOrder'
    <3>1. ASSUME NEW p \in DOMAIN pending', NEW q \in DOMAIN pending', p < q, IsRotation(q)'
          PROVE  IF IsRotation(p)' THEN EpochAt(p)' <= EpochAt(q)' ELSE EpochAt(p)' < EpochAt(q)'
      <4>1. p \in DOMAIN pending
        BY <2>3, <3>1
      <4>2. CASE q = last
        BY <2>5, <2>6, <2>10, <4>1, <4>2
      <4>3. CASE q \in DOMAIN pending
        <5>1. IF IsRotation(p) THEN EpochAt(p) <= EpochAt(q) ELSE EpochAt(p) < EpochAt(q)
          BY <2>5, <3>1, <4>1, <4>3 DEF InOrder
        <5>2. QED
          BY <2>5, <4>1, <4>3, <5>1
      <4>4. QED
        BY <2>3, <4>2, <4>3
    <3>2. QED
      BY <3>1 DEF InOrder
  <2>12. KnownBehind'
    <3>1. Known' \subseteq Known /\ Known \subseteq published
      BY <1>1, <2>3 DEF Known
    <3>2. \A r \in published : EpochOf(r) \in Nat /\ EpochOf(r) < epoch[i] + 1
      BY <1>1, Numbers DEF PublishedBehind, RelayerTypeOK
    <3>3. QED
      BY <2>3, <2>5, <2>6, <3>1, <3>2 DEF KnownBehind
  <2>13. EpochTracksHead' /\ PollsAreRecent'
    BY <1>1, <2>4 DEF EpochTracksHead, PollsAreRecent
  <2>14. outcome[i] = "none" /\ \A q \in DOMAIN pending : pending[q].owner # i
    BY <1>1 DEF Awaited, Awaiting
  <2>15. Awaited'
    BY <1>1, <2>3, <2>4, <2>6, <2>14 DEF Awaited, Awaiting
  <2>16. QED
    BY <2>7, <2>9, <2>11, <2>12, <2>13, <2>15
<1>4. QED
  BY <1>2, <1>3 DEF SendRotate

(* A lost response or a crash orphans what was sent, and nothing else.          *)
LEMMA FaultChainInv ==
  ASSUME NEW i \in Instances, Instances = {i}, RelayerTypeOK, QueueInv, ProcessInv,
         ResponseLost(i) \/ Crash(i)
  PROVE  QueueInv' /\ ProcessInv'
<1> USE DEF QueueInv, ProcessInv
<1>1. Abandon(i) /\ (Goto(i, "idle") \/ Goto(i, "down"))
  BY DEF ResponseLost, Crash
<1>2. /\ UNCHANGED <<currentCommit, epoch, published>>
      /\ HeadEpoch' = HeadEpoch /\ HeadIndex' = HeadIndex
  BY <1>1 DEF Abandon, vars, HeadEpoch, HeadIndex
<1>3. /\ DOMAIN pending' = DOMAIN pending
      /\ \A q \in DOMAIN pending :
           /\ pending'[q].kind = pending[q].kind /\ pending'[q].node = pending[q].node
           /\ pending'[q].owner # i
  BY <1>1, OrphansTyped
<1>4. \A q \in DOMAIN pending : (IsRotation(q)' <=> IsRotation(q)) /\ EpochAt(q)' = EpochAt(q)
  BY <1>3 DEF IsRotation, EpochAt
<1>5. PublishedBehind' /\ RotationsAhead' /\ EpochTracksHead'
  <2>1. PublishedBehind'
    BY <1>2, <1>3, <1>4 DEF PublishedBehind
  <2>2. RotationsAhead' /\ EpochTracksHead'
    BY <1>2, <1>3, <1>4 DEF RotationsAhead, EpochTracksHead
  <2>3. QED
    BY <2>1, <2>2
<1>6. InOrder'
  BY <1>3, <1>4 DEF InOrder
<1>7. KnownBehind'
  <2>1. Known' \subseteq Known
    BY <1>2, <1>3 DEF Known
  <2>2. QED
    BY <1>3, <1>4, <2>1 DEF KnownBehind
<1>8. /\ polled'[i].head = Unread /\ outcome'[i] = "none"
      /\ pc'[i] \notin Awaiting
  BY <1>1 DEF Abandon, Goto, Nothing, RelayerTypeOK, Awaiting
<1>9. PollsAreRecent' /\ Awaited'
  BY <1>3, <1>8 DEF PollsAreRecent, Awaited, Awaiting
<1>10. QED
  BY <1>5, <1>6, <1>7, <1>9

LEMMA StepChainInv ==
  ASSUME OneRelayer, RelayerTypeOK, RelayerTypeOK', QueueInv, ProcessInv,
         [RelayerNext]_allVars
  PROVE  QueueInv' /\ ProcessInv'
<1>1. ~CopiesPending /\ \A i \in Instances : Instances = {i}
  BY DEF OneRelayer
<1>2. ASSUME NEW i \in Instances, Pass(i) \/ ResponseLost(i) \/ Crash(i)
      PROVE  QueueInv' /\ ProcessInv'
  BY <1>1, <1>2, SilentChainInv, SendSettleChainInv, SendRotateChainInv, FaultChainInv DEF Pass
<1>3. CASE UNCHANGED allVars
  BY <1>3 DEF allVars, vars, relayerVars, processVars, QueueInv, ProcessInv, EpochTracksHead,
     PollsAreRecent, Awaited, PublishedBehind, RotationsAhead, InOrder, KnownBehind, Known,
     IsRotation, EpochAt, HeadEpoch, HeadIndex
<1>4. QED
  BY <1>1, <1>2, <1>3, MineChainInv, OthersChainInv DEF RelayerNext

------------------------------------------------------------------------------
(* The bets                                                                  *)

(* What a step of the whole can do to the bets, the head and what is public.    *)
HeadAdvances(g) ==
  /\ g \in Genesis0 /\ currentCommit' = g /\ HeadEpoch < EpochOf(g)
  /\ UNCHANGED <<betVars, published>>
Publishes(node) ==
  /\ activeBetId # 0 /\ keccak[node] = currentCommit
  /\ published' = published \cup {node}
  /\ UNCHANGED <<betVars, currentCommit>>

LEMMA RelayerBetCases ==
  ASSUME RelayerTypeOK, QueueInv, [RelayerNext]_allVars
  PROVE  \/ UNCHANGED <<betVars, currentCommit, published>>
         \/ \E node \in Reveal : Publishes(node)
         \/ \E r \in Reveal : r \in published /\ settleBet(r) /\ UNCHANGED published
         \/ \E g \in Genesis0 : HeadAdvances(g)
         \/ \E p \in Players, t \in Tiers, s \in Stakes, c \in Seeds :
              placeBet(p, t, s, c) /\ UNCHANGED published
         \/ \E b \in BetId : refund(b) /\ UNCHANGED published
<1>1. ASSUME NEW i \in Instances, Pass(i) \/ ResponseLost(i) \/ Crash(i), ~SendSettle(i)
      PROVE  UNCHANGED <<betVars, currentCommit, published>>
  BY <1>1 DEF Pass, Boot, Poll, ReadHead, ReadBet, Decide, SendRotate, WaitReturns,
     ResponseLost, Crash, Abandon, vars
<1>2. ASSUME NEW i \in Instances, SendSettle(i)
      PROVE  \/ UNCHANGED <<betVars, currentCommit, published>>
             \/ \E node \in Reveal : Publishes(node)
  <2>1. UNCHANGED <<betVars, currentCommit>>
    BY <1>2 DEF SendSettle, vars
  <2>2. QED
    BY <1>2, <2>1, SendSettleCases DEF Publishes
<1>3. CASE Mine
  <2>1. PICK tx \in Tx :
          /\ tx = Head(pending)
          /\ \/ tx.kind = "settle" /\ tx.node \in Reveal /\ settleBet(tx.node)
             \/ tx.kind = "rotate" /\ tx.node \in Genesis0 /\ rotateChain(Relayer, tx.node)
             \/ UNCHANGED vars
          /\ UNCHANGED published
    BY <1>3, MineCases
  <2>2. tx = pending[1] /\ 1 \in DOMAIN pending
    BY <1>3, <2>1, MineShifts
  <2>3. CASE tx.kind = "settle" /\ tx.node \in Reveal /\ settleBet(tx.node)
    <3>1. tx.node \in published
      BY <2>2, <2>3 DEF QueueInv, PublishedBehind, IsRotation
    <3>2. QED
      BY <2>1, <2>3, <3>1
  <2>4. CASE tx.kind = "rotate" /\ tx.node \in Genesis0 /\ rotateChain(Relayer, tx.node)
    <3>1. UNCHANGED <<betVars, published>> /\ currentCommit' = tx.node
      BY <2>1, <2>4 DEF rotateChain
    <3>2. \/ HeadEpoch < EpochOf(tx.node)
          \/ HeadEpoch = EpochOf(tx.node) /\ HeadIndex = 0
      BY <2>2, <2>4 DEF QueueInv, RotationsAhead, IsRotation, EpochAt
    <3>3. CASE HeadEpoch = EpochOf(tx.node) /\ HeadIndex = 0
      <4>1. currentCommit = tx.node
        BY <2>4, <3>3, SamePlace DEF HeadEpoch, HeadIndex, Genesis0, RelayerTypeOK
      <4>2. QED
        BY <3>1, <4>1
    <3>4. QED
      BY <2>4, <3>1, <3>2, <3>3 DEF HeadAdvances
  <2>5. QED
    BY <2>1, <2>3, <2>4 DEF vars
<1>4. CASE Others
  <2>1. UNCHANGED published
    BY <1>4 DEF Others, relayerVars
  <2>2. CASE OtherSettles
    BY <2>1, <2>2 DEF OtherSettles, Known, RelayerTypeOK
  <2>3. CASE Tick \/ (\E a \in Officers : pause(a) \/ unpause(a))
             \/ \E p \in Players, v \in Approvals : TokenApprove(p, v)
    BY <2>1, <2>3 DEF Tick, pause, unpause, TokenApprove, gameVars
  <2>4. QED
    BY <1>4, <2>1, <2>2, <2>3 DEF Others
<1>5. CASE UNCHANGED allVars
  BY <1>5 DEF allVars, vars, relayerVars
<1>6. QED
  BY <1>1, <1>2, <1>3, <1>4, <1>5 DEF RelayerNext

(* Closing, refunding or placing touches one record.                            *)
LEMMA SettledRecord ==
  ASSUME TypeInv, RecordInv, NEW r \in Reveal, settleBet(r)
  PROVE  /\ activeBetId \in BetId /\ bets'[activeBetId].reveal = r
         /\ \A b \in BetId : b # activeBetId => bets'[b] = bets[b]
<1>1. activeBetId \in BetId /\ bets \in [BetId -> Bet]
  BY DEF TypeInv, TypeOK, settleBet, BetId
<1>2. r \in Reveals
  BY RevealFacts
<1>3. PICK old \in Bet : old = bets[activeBetId]
  BY <1>1
<1>4. bets' = [bets EXCEPT ![activeBetId] = Drawn(old, r)]
  BY <1>1, <1>3 DEF settleBet
<1>5. Drawn(old, r).reveal = r
  BY DEF Drawn, Bet
<1>6. QED
  BY <1>1, <1>4, <1>5

LEMMA RefundedRecord ==
  ASSUME TypeInv, NEW b \in BetId, refund(b)
  PROVE  /\ b = activeBetId /\ UNCHANGED <<currentCommit, betCounter>>
         /\ bets'[b].settled /\ bets'[b].reveal = bets[b].reveal
         /\ bets'[b].commit = bets[b].commit
         /\ \A c \in BetId : c # b => bets'[c] = bets[c]
<1>1. bets \in [BetId -> Bet]
  BY DEF TypeInv, TypeOK
<1>2. PICK old \in Bet : old = bets[b]
  BY <1>1
<1>3. bets' = [bets EXCEPT ![b] = Refunded(old)]
  BY <1>1, <1>2 DEF refund
<1>4. /\ Refunded(old).settled /\ Refunded(old).reveal = old.reveal
      /\ Refunded(old).commit = old.commit
  BY DEF Refunded, Bet
<1>5. QED
  BY <1>1, <1>2, <1>3, <1>4 DEF refund, MayRefund

LEMMA PlacedRecord ==
  ASSUME TypeInv, NEW p \in Players, NEW t \in Tiers, NEW s \in Stakes, NEW c \in Seeds,
         placeBet(p, t, s, c)
  PROVE  /\ activeBetId = 0 /\ betCounter \in Nat /\ betCounter' = betCounter + 1
         /\ betCounter' \in BetId /\ bets'[betCounter'].reveal = NoReveal
         /\ \A b \in BetId : b # betCounter' => bets'[b] = bets[b]
         /\ UNCHANGED currentCommit
<1>1. bets \in [BetId -> Bet] /\ betCounter \in Nat /\ betCounter + 1 \in BetId
  BY DEF TypeInv, TypeOK, placeBet, BetId
<1>2. QED
  BY <1>1 DEF placeBet

(* A reveal is used when the head steps onto it, so never twice.                *)
LEMMA UsedStep ==
  ASSUME TypeInv, RecordInv, RelayerTypeOK, QueueInv, UsedBehind, RevealsUsedOnce,
         [RelayerNext]_allVars
  PROVE  UsedBehind' /\ RevealsUsedOnce'
<1>1. HeadEpoch \in Nat /\ HeadIndex \in Nat
  BY Numbers
<1>2. ASSUME NEW r \in Reveal, settleBet(r)
      PROVE  UsedBehind' /\ RevealsUsedOnce'
  <2>1. /\ HeadEpoch' = HeadEpoch /\ HeadEpoch = EpochOf(r)
        /\ HeadIndex' = HeadIndex + 1 /\ IndexOf(r) = HeadIndex + 1
    BY <1>2, SettleMovesHead
  <2>2. /\ activeBetId \in BetId /\ bets'[activeBetId].reveal = r
        /\ \A b \in BetId : b # activeBetId => bets'[b] = bets[b]
    BY <1>2, SettledRecord
  <2>3. ASSUME NEW b \in BetId, b # activeBetId, bets'[b].reveal # NoReveal
        PROVE  /\ bets'[b].reveal \in Reveal /\ bets'[b].reveal # r
               /\ \/ EpochOf(bets'[b].reveal) < HeadEpoch'
                  \/ EpochOf(bets'[b].reveal) = HeadEpoch' /\ IndexOf(bets'[b].reveal) <= HeadIndex'
    <3>1. PICK used \in Reveal : used = bets'[b].reveal
      BY <2>2, <2>3 DEF UsedBehind
    <3>2. \/ EpochOf(used) < HeadEpoch
          \/ EpochOf(used) = HeadEpoch /\ IndexOf(used) <= HeadIndex
      BY <2>2, <2>3, <3>1 DEF UsedBehind
    <3>3. EpochOf(used) \in Nat /\ IndexOf(used) \in Nat
      BY Numbers
    <3>4. QED
      BY <1>1, <2>1, <3>1, <3>2, <3>3
  <2>4. UsedBehind'
    <3>1. ASSUME NEW b \in BetId, bets'[b].reveal # NoReveal
          PROVE  /\ bets'[b].reveal \in Reveal
                 /\ \/ EpochOf(bets'[b].reveal) < HeadEpoch'
                    \/ EpochOf(bets'[b].reveal) = HeadEpoch' /\ IndexOf(bets'[b].reveal) <= HeadIndex'
      <4>1. CASE b = activeBetId
        BY <1>1, <2>1, <2>2, <4>1
      <4>2. CASE b # activeBetId
        BY <2>3, <3>1, <4>2
      <4>3. QED
        BY <4>1, <4>2
    <3>2. QED
      BY <3>1 DEF UsedBehind
  <2>5. RevealsUsedOnce'
    BY <2>2, <2>3 DEF RevealsUsedOnce
  <2>6. QED
    BY <2>4, <2>5
<1>3. ASSUME \A b \in BetId : bets'[b].reveal = NoReveal \/ bets'[b].reveal = bets[b].reveal,
             \/ HeadEpoch' = HeadEpoch /\ HeadIndex' = HeadIndex
             \/ HeadEpoch' \in Nat /\ HeadEpoch < HeadEpoch'
      PROVE  UsedBehind' /\ RevealsUsedOnce'
  <2>1. ASSUME NEW b \in BetId, bets'[b].reveal # NoReveal
        PROVE  /\ bets'[b].reveal \in Reveal
               /\ \/ EpochOf(bets'[b].reveal) < HeadEpoch'
                  \/ EpochOf(bets'[b].reveal) = HeadEpoch' /\ IndexOf(bets'[b].reveal) <= HeadIndex'
    <3>1. PICK used \in Reveal : used = bets'[b].reveal /\ used = bets[b].reveal
      BY <1>3, <2>1 DEF UsedBehind
    <3>2. \/ EpochOf(used) < HeadEpoch
          \/ EpochOf(used) = HeadEpoch /\ IndexOf(used) <= HeadIndex
      BY <2>1, <3>1 DEF UsedBehind
    <3>3. EpochOf(used) \in Nat /\ IndexOf(used) \in Nat
      BY Numbers
    <3>4. QED
      BY <1>1, <1>3, <3>1, <3>2, <3>3
  <2>2. UsedBehind'
    BY <2>1 DEF UsedBehind
  <2>3. RevealsUsedOnce'
    BY <1>3 DEF RevealsUsedOnce
  <2>4. QED
    BY <2>2, <2>3
<1>4. CASE UNCHANGED <<betVars, currentCommit>>
  BY <1>3, <1>4 DEF betVars, HeadEpoch, HeadIndex
<1>5. ASSUME NEW g \in Genesis0, HeadAdvances(g)
      PROVE  UsedBehind' /\ RevealsUsedOnce'
  <2>1. UNCHANGED bets /\ HeadEpoch' = EpochOf(g) /\ HeadEpoch < EpochOf(g) /\ EpochOf(g) \in Nat
    BY <1>5, Numbers DEF HeadAdvances, betVars, HeadEpoch
  <2>2. QED
    BY <1>3, <2>1
<1>6. ASSUME NEW p \in Players, NEW t \in Tiers, NEW s \in Stakes, NEW c \in Seeds,
             placeBet(p, t, s, c)
      PROVE  UsedBehind' /\ RevealsUsedOnce'
  BY <1>3, <1>6, PlacedRecord DEF HeadEpoch, HeadIndex
<1>7. ASSUME NEW b \in BetId, refund(b)
      PROVE  UsedBehind' /\ RevealsUsedOnce'
  BY <1>3, <1>7, RefundedRecord DEF HeadEpoch, HeadIndex
<1>8. QED
  BY <1>2, <1>4, <1>5, <1>6, <1>7, RelayerBetCases DEF Publishes

(* A head that was just moved to has no public preimage, and one that is held   *)
(* gets one only while a bet on it is open.                                   *)
LEMMA LeakStep ==
  ASSUME TypeInv, RecordInv, RelayerTypeOK, QueueInv, LeakedByABet, [RelayerNext]_allVars
  PROVE  LeakedByABet'
<1>1. HeadEpoch \in Nat /\ HeadIndex \in Nat /\ betCounter \in 0..MaxBets
  BY Numbers DEF TypeInv, TypeOK
<1>2. \A b \in 1..betCounter : b \in BetId /\ b # 0
  BY <1>1, GameAssumption DEF BetId
<1>3. CASE UNCHANGED <<betVars, currentCommit, published>>
  BY <1>3 DEF LeakedByABet, Leaked, betVars
<1>4. ASSUME NEW node \in Reveal, Publishes(node)
      PROVE  LeakedByABet'
  <2>1. activeBetId \in 1..betCounter /\ bets[activeBetId].commit = currentCommit
    BY <1>4 DEF Publishes, TypeInv, TypeOK, RecordInv, ActiveFresh, Active
  <2>2. UNCHANGED <<betCounter, activeBetId, bets, currentCommit>>
    BY <1>4 DEF Publishes, betVars
  <2>3. QED
    BY <2>1, <2>2 DEF LeakedByABet
<1>5. ASSUME NEW r \in Reveal, settleBet(r), UNCHANGED published
      PROVE  LeakedByABet'
  <2>1. currentCommit' = r /\ EpochOf(r) = HeadEpoch /\ IndexOf(r) = HeadIndex + 1
    BY <1>5, SettleMovesHead DEF settleBet
  <2>2. ASSUME NEW s \in published, keccak[s] = r PROVE FALSE
    <3>1. s \in Reveal /\ EpochOf(s) = EpochOf(r) /\ IndexOf(r) = IndexOf(s) - 1
      BY <2>2, RevealFacts DEF RelayerTypeOK
    <3>2. IndexOf(s) <= HeadIndex + 1 /\ IndexOf(s) \in Nat
      BY <2>1, <3>1, Numbers DEF QueueInv, PublishedBehind
    <3>3. QED
      BY <1>1, <2>1, <3>1, <3>2
  <2>3. QED
    BY <1>5, <2>1, <2>2 DEF LeakedByABet, Leaked
<1>6. ASSUME NEW g \in Genesis0, HeadAdvances(g)
      PROVE  LeakedByABet'
  <2>1. currentCommit' = g /\ HeadEpoch < EpochOf(g) /\ UNCHANGED published
    BY <1>6 DEF HeadAdvances
  <2>2. ASSUME NEW s \in published, keccak[s] = g PROVE FALSE
    <3>1. s \in Reveal /\ EpochOf(s) = EpochOf(g) /\ EpochOf(s) \in Nat
      BY <2>2, RevealFacts, Numbers DEF RelayerTypeOK
    <3>2. EpochOf(s) <= HeadEpoch
      BY DEF QueueInv, PublishedBehind
    <3>3. QED
      BY <1>1, <2>1, <3>1, <3>2
  <2>3. QED
    BY <2>1, <2>2 DEF LeakedByABet, Leaked
<1>7. ASSUME NEW p \in Players, NEW t \in Tiers, NEW s \in Stakes, NEW c \in Seeds,
             placeBet(p, t, s, c), UNCHANGED published, Leaked'
      PROVE  LeakedByABet'
  <2>1. /\ activeBetId = 0 /\ betCounter' = betCounter + 1
        /\ \A b \in BetId : b # betCounter' => bets'[b] = bets[b]
        /\ UNCHANGED currentCommit
    BY <1>7, PlacedRecord
  <2>2. PICK b \in 1..betCounter :
          bets[b].commit = currentCommit /\ bets[b].settled /\ bets[b].reveal = NoReveal
    BY <1>2, <1>7, <2>1 DEF LeakedByABet, Leaked
  <2>3. b \in 1..betCounter' /\ bets'[b] = bets[b]
    BY <1>1, <1>2, <2>1
  <2>4. QED
    BY <2>1, <2>2, <2>3 DEF LeakedByABet
<1>8. ASSUME NEW c \in BetId, refund(c), UNCHANGED published, Leaked'
      PROVE  LeakedByABet'
  <2>1. /\ c = activeBetId /\ UNCHANGED <<currentCommit, betCounter>>
        /\ bets'[c].settled /\ bets'[c].reveal = bets[c].reveal
        /\ bets'[c].commit = bets[c].commit
        /\ \A b \in BetId : b # c => bets'[b] = bets[b]
    BY <1>8, RefundedRecord
  <2>2. PICK b \in 1..betCounter :
          /\ bets[b].commit = currentCommit
          /\ b = activeBetId \/ (bets[b].settled /\ bets[b].reveal = NoReveal)
    BY <1>8, <2>1 DEF LeakedByABet, Leaked
  <2>3. c # 0 => bets[c].reveal = NoReveal
    BY <2>1 DEF RecordInv, ActiveFresh, Active
  <2>4. bets'[b].commit = currentCommit' /\ bets'[b].settled /\ bets'[b].reveal = NoReveal
    <3>1. CASE b = c
      BY <1>2, <2>1, <2>2, <2>3, <3>1
    <3>2. CASE b # c
      BY <1>2, <2>1, <2>2, <3>2
    <3>3. QED
      BY <3>1, <3>2
  <2>5. QED
    BY <2>1, <2>4 DEF LeakedByABet
<1>9. SUFFICES ASSUME Leaked' PROVE LeakedByABet'
  BY DEF LeakedByABet
<1>10. QED
  BY <1>3, <1>4, <1>5, <1>6, <1>7, <1>8, <1>9, RelayerBetCases

LEMMA ChainInvInit == RelayerInit => ChainInv
<1> SUFFICES ASSUME RelayerInit PROVE ChainInv
  OBVIOUS
<1>1. RelayerTypeOK
  BY RelayerTypeInit DEF RelayerTypeInv
<1>2. HeadEpoch = 0 /\ HeadIndex = 0
  <2>1. 0 \in 0..MaxEpoch /\ 0 \in Round
    BY ChainAssumption, ChainsAssumption DEF Round
  <2>2. QED
    BY <2>1, ChainsAssumption, PlaceOf DEF RelayerInit, Init, HeadEpoch, HeadIndex
<1>3. /\ DOMAIN pending = {} /\ published = {}
      /\ \A i \in Instances : /\ epoch[i] = 0 /\ polled[i] = Nothing /\ pc[i] = "down"
                              /\ outcome[i] = "none"
  BY DEF RelayerInit
<1>4. QueueInv
  BY <1>3 DEF QueueInv, PublishedBehind, RotationsAhead, InOrder, KnownBehind, Known
<1>5. ProcessInv
  BY <1>2, <1>3, EmptyPollTyped DEF ProcessInv, EpochTracksHead, PollsAreRecent, Awaited
<1>6. \A b \in BetId : bets[b].reveal = NoReveal
  BY DEF RelayerInit, Init, EmptyBet
<1>7. UsedBehind /\ RevealsUsedOnce /\ LeakedByABet
  BY <1>3, <1>6 DEF UsedBehind, RevealsUsedOnce, LeakedByABet, Leaked
<1>8. QED
  BY <1>4, <1>5, <1>7 DEF ChainInv

LEMMA ChainInvariant ==
  ASSUME OneRelayer
  PROVE  RelayerSpec => []ChainInv
<1>1. /\ TypeInv /\ RecordInv /\ RelayerTypeInv /\ RelayerTypeInv' /\ ChainInv
      /\ [RelayerNext]_allVars
      => ChainInv'
  BY StepChainInv, UsedStep, LeakStep DEF ChainInv, RelayerTypeInv
<1>2. QED
  BY <1>1, ChainInvInit, RelayerTypeInvariant, PTL DEF RelayerSpec

(* One relayer, however it crashes, restarts, loses responses, reads a stale    *)
(* head or rotates twice, never has two bets drawn with one reveal, provided   *)
(* that nobody can take a reveal from the mempool and be mined first (loop.ts   *)
(* runPass, epoch.ts resolveEpoch, RushoodGame.settleBet).                     *)
THEOREM RevealsAreUsedOnce ==
  ASSUME OneRelayer
  PROVE  RelayerSpec => []RevealsUsedOnce
BY ChainInvariant, PTL DEF ChainInv

(* Under the same conditions no bet can be placed on a draw that is already    *)
(* public, except the one the code's note on refund admits: on the head whose  *)
(* refunded bet had its reveal broadcast.                                     *)
THEOREM HeadStaysSecret ==
  ASSUME OneRelayer
  PROVE  RelayerSpec => []HeadIsSecret
<1>1. ASSUME TypeInv, ChainInv PROVE HeadIsSecret
  <2>1. SUFFICES ASSUME activeBetId = 0, Leaked
                 PROVE  \E b \in 1..betCounter : /\ StatusOf(b) = "refunded"
                                                 /\ bets[b].commit = currentCommit
    BY DEF HeadIsSecret
  <2>2. PICK b \in 1..betCounter :
          bets[b].commit = currentCommit /\ bets[b].settled /\ bets[b].reveal = NoReveal
    BY <1>1, <2>1 DEF ChainInv, LeakedByABet
  <2>3. ~(b > betCounter)
    BY <1>1 DEF TypeInv, TypeOK
  <2>4. QED
    BY <2>2, <2>3 DEF StatusOf
<1>2. QED
  BY <1>1, ChainInvariant, RelayerTypeInvariant, PTL

==============================================================================
